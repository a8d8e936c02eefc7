----------------------------- MODULE LinuxSigner -----------------------------
(***************************************************************************)
(* The signing machine, while linux-signer-signmars and                    *)
(* linux-signer-authenticode-signing sign the files of several projects.   *)
(*                                                                         *)
(* A session is one of the two steps of one project: a loop over the files *)
(* of a version directory that calls a wrapper as another user.  What the  *)
(* wrapper leaves is one file with one name for all projects; the loop     *)
(* copies it over the file that was to be signed.  Nothing keeps two       *)
(* sessions apart, and a run whose ssh connection is lost goes on until    *)
(* its sshd sees it and a write fails, beside the one that do-all-signing  *)
(* starts next.                                                            *)
(***************************************************************************)
EXTENDS Integers

CONSTANTS
    Sessions,       \* a step of a project's pipeline
    Output,         \* Output[s]: "mar" or "exe", last-signed-mar.mar or last-signed-file.exe
    Items,          \* the files to sign
    SessionOf,      \* SessionOf[i]: the session that signs file i
    MaxRuns,        \* bound on the runs of a session
    MaxFailures     \* bound on runs that die and connections that are lost

Outputs == {"mar", "exe"}

ASSUME SessionsAssumption == Output \in [Sessions -> Outputs] /\ SessionOf \in [Items -> Sessions]
ASSUME BoundsAssumption == MaxRuns \in Nat /\ MaxFailures \in Nat

Runs == Sessions \X (1 .. MaxRuns)

VARIABLES
    dir,        \* dir[i]: the file in the version directory of its session
    last,       \* last[o]: the output of a wrapper, and the runs that are writing it
    at, todo,   \* of each run
    now,        \* now[r]: the file run r signs
    client,     \* client[s]: the run that do_step waits for, 0 if there is none
    finished,   \* sessions whose step has its marker
    shared,     \* outputs that two runs have used at the same time
    failures

signerVars == <<dir, last, at, todo, now, client, finished, shared, failures>>

ItemsOf(s) == {i \in Items : SessionOf[i] = s}
OutputOf(r) == Output[r[1]]

\* The output: the items its bytes are of, and whether it will be whole when nobody
\* writes to it any more.
Missing == [there |-> FALSE, of |-> {}, whole |-> FALSE, writers |-> {}]
Made(of, whole, writers) == [there |-> TRUE, of |-> of, whole |-> whole, writers |-> writers]

SignerInit ==
    /\ dir = [i \in Items |-> [of |-> {i}, signed |-> FALSE, whole |-> TRUE]]
    /\ last = [o \in Outputs |-> Missing]
    /\ at = [r \in Runs |-> "unused"]
    /\ todo = [r \in Runs |-> {}]
    /\ now = [r \in Runs |-> {}]
    /\ client = [s \in Sessions |-> 0]
    /\ finished = {}
    /\ shared = {}
    /\ failures = 0

Goto(r, l) == at' = [at EXCEPT ![r] = l]
Connected(r) == client[r[1]] = r[2]

\* Runs that are between the beginning of an iteration and its cp.
Signing == {"clear", "open", "write", "chmod", "copy"}
Users(o) == {r \in Runs : OutputOf(r) = o /\ at[r] \in Signing}

\* do-all-signing (again): ssh, 'bash -s'
Begin(s) ==
    /\ s \notin finished /\ client[s] = 0
    /\ \E n \in 1 .. MaxRuns :
         /\ at[<<s, n>>] = "unused" /\ \A m \in 1 .. n - 1 : at[<<s, m>>] # "unused"
         /\ client' = [client EXCEPT ![s] = n]
         /\ Goto(<<s, n>>, "loop")
         /\ todo' = [todo EXCEPT ![<<s, n>>] = ItemsOf(s)]
    /\ UNCHANGED <<dir, last, now, finished, shared, failures>>

\* A run that ends without success; its client, if it still has one, sees it.
Ends(r) ==
    /\ Goto(r, "dead")
    /\ client' = IF Connected(r) THEN [client EXCEPT ![r[1]] = 0] ELSE client

-----------------------------------------------------------------------------
(* The loop.  It writes a line for each file, which may be what ends a run *)
(* that nobody listens to any more.                                        *)

\* Mutant: a mar that was cut short counts as signed.
Signed_AnyBytes(r, i) == OutputOf(r) = "mar" /\ dir[i].signed

\* signmar -T: a mar that is signed already.
Signed(r, i) == OutputOf(r) = "mar" /\ dir[i].whole /\ dir[i].signed

Skip(r) ==
    /\ at[r] = "loop"
    /\ \E i \in todo[r] :
         /\ Signed(r, i)
         /\ todo' = [todo EXCEPT ![r] = @ \ {i}]
    /\ UNCHANGED <<dir, last, at, now, client, finished, shared, failures>>

\* Of a mar that was cut short it says nothing, grep fails, and so does the script.
Refuse(r) ==
    /\ at[r] = "loop"
    /\ OutputOf(r) = "mar" /\ \E i \in todo[r] : ~dir[i].whole
    /\ Ends(r)
    /\ UNCHANGED <<dir, last, todo, now, finished, shared, failures>>

Take(r) ==
    /\ at[r] = "loop"
    /\ \E i \in todo[r] :
         /\ ~Signed(r, i)
         /\ OutputOf(r) = "mar" => dir[i].whole
         /\ now' = [now EXCEPT ![r] = {i}]
    /\ shared' = IF Users(OutputOf(r)) = {} THEN shared ELSE shared \cup {OutputOf(r)}
    /\ Goto(r, "clear")
    /\ UNCHANGED <<dir, last, todo, client, finished, failures>>

\* do_step touches the marker.
Finish(r) ==
    /\ at[r] = "loop" /\ Connected(r) /\ todo[r] = {}
    /\ finished' = finished \cup {r[1]}
    /\ Goto(r, "ended")
    /\ client' = [client EXCEPT ![r[1]] = 0]
    /\ UNCHANGED <<dir, last, todo, now, shared, failures>>

BrokenPipe(r) ==
    /\ at[r] = "loop" /\ ~Connected(r)
    /\ Ends(r)
    /\ UNCHANGED <<dir, last, todo, now, finished, shared, failures>>

-----------------------------------------------------------------------------
(* The wrapper: rm -f, signmar or osslsigncode, chmod; and the cp.         *)

Clear(r) ==
    /\ at[r] = "clear"
    /\ last' = [last EXCEPT ![OutputOf(r)] = Missing]
    /\ Goto(r, "open")
    /\ UNCHANGED <<dir, todo, now, client, finished, shared, failures>>

\* The output is made, or overwritten while another run may be writing to it.
Open(r) ==
    /\ at[r] = "open"
    /\ \E i \in now[r] :
         last' = [last EXCEPT ![OutputOf(r)] =
                    IF @.writers = {}
                    THEN Made(dir[i].of, dir[i].whole, {r})
                    ELSE Made(dir[i].of \cup @.of, FALSE, @.writers \cup {r})]
    /\ Goto(r, "write")
    /\ UNCHANGED <<dir, todo, now, client, finished, shared, failures>>

\* Run r writes no more: to what another one removed, it does not matter.
Written(r, whole) ==
    last' = [last EXCEPT ![OutputOf(r)] =
               IF r \in @.writers THEN Made(@.of, @.whole /\ whole, @.writers \ {r}) ELSE @]

Close(r) ==
    /\ at[r] = "write"
    /\ Written(r, TRUE)
    /\ Goto(r, "chmod")
    /\ UNCHANGED <<dir, todo, now, client, finished, shared, failures>>

Chmod(r) ==
    /\ at[r] = "chmod" /\ last[OutputOf(r)].there
    /\ Goto(r, "copy")
    /\ UNCHANGED <<dir, last, todo, now, client, finished, shared, failures>>

NoSuchFile(r) ==
    /\ at[r] \in {"chmod", "copy"} /\ ~last[OutputOf(r)].there
    /\ Ends(r)
    /\ UNCHANGED <<dir, last, todo, now, finished, shared, failures>>

Copied(r, all) ==
    [of |-> last[OutputOf(r)].of, signed |-> TRUE,
     whole |-> all /\ last[OutputOf(r)].whole /\ last[OutputOf(r)].writers = {}]

Copy(r) ==
    /\ at[r] = "copy" /\ last[OutputOf(r)].there
    /\ \E i \in now[r] :
         /\ dir' = [dir EXCEPT ![i] = Copied(r, TRUE)]
         /\ todo' = [todo EXCEPT ![r] = @ \ {i}]
    /\ now' = [now EXCEPT ![r] = {}]
    /\ Goto(r, "loop")
    /\ UNCHANGED <<last, client, finished, shared, failures>>

-----------------------------------------------------------------------------
\* A run dies: a password or a key that is not there, a full disk, the machine.
\* It leaves what it was writing as it is.
Fail(r) ==
    /\ at[r] \in Signing \cup {"loop"}
    /\ failures < MaxFailures
    /\ failures' = failures + 1
    /\ Written(r, FALSE)
    /\ \/ UNCHANGED dir
       \/ /\ at[r] = "copy" /\ last[OutputOf(r)].there
          /\ \E i \in now[r] : dir' = [dir EXCEPT ![i] = Copied(r, FALSE)]
    /\ Ends(r)
    /\ UNCHANGED <<todo, now, finished, shared>>

\* The connection is lost, or somebody interrupts do-all-signing.
Disconnect(s) ==
    /\ client[s] # 0
    /\ failures < MaxFailures
    /\ failures' = failures + 1
    /\ client' = [client EXCEPT ![s] = 0]
    /\ UNCHANGED <<dir, last, at, todo, now, finished, shared>>

RunNext(r) ==
    \/ Skip(r) \/ Refuse(r) \/ Take(r) \/ Finish(r) \/ BrokenPipe(r)
    \/ Clear(r) \/ Open(r) \/ Close(r) \/ Chmod(r) \/ NoSuchFile(r) \/ Copy(r) \/ Fail(r)

SignerNext ==
    \/ \E s \in Sessions : Begin(s) \/ Disconnect(s)
    \/ \E r \in Runs : RunNext(r)

SignerSpec == SignerInit /\ [][SignerNext]_signerVars

-----------------------------------------------------------------------------
\* Types.
SignerTypeOK ==
    /\ dir \in [Items -> [of : SUBSET Items, signed : BOOLEAN, whole : BOOLEAN]]
    /\ last \in [Outputs -> [there : BOOLEAN, of : SUBSET Items, whole : BOOLEAN,
                             writers : SUBSET Runs]]
    /\ at \in [Runs -> {"unused", "loop", "dead", "ended"} \cup Signing]
    /\ todo \in [Runs -> SUBSET Items] /\ now \in [Runs -> SUBSET Items]
    /\ client \in [Sessions -> 0 .. MaxRuns]
    /\ finished \subseteq Sessions /\ shared \subseteq Outputs
    /\ failures \in 0 .. MaxFailures

\* When a step has its marker, each of its files is signed and whole and its own,
\* whatever runs died before, in whatever place, and whatever other sessions did;
\* unless two runs, of two projects or of one, have used the same output at a time,
\* or a copy of an executable was cut short (a mar that was is never passed over).
FinishedIsSigned ==
    \A i \in Items :
        SessionOf[i] \in finished /\ Output[SessionOf[i]] \notin shared =>
            /\ dir[i].signed /\ dir[i].of = {i}
            /\ dir[i].whole \/ Output[SessionOf[i]] = "exe"
=============================================================================

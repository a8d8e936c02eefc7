------------------------- MODULE UpdateDeployProofs -------------------------
(***************************************************************************)
(* Proofs about UpdateDeploy, for any managers, channels, platforms,       *)
(* versions and failures, whether or not a version waits for the last one  *)
(* to be deployed: nothing is served that nobody asked for, and, as long   *)
(* as nobody has named a commit to a deployment script, nothing goes back  *)
(* and releases are deployed whole.  That it implements UpdateService, and *)
(* that channels do not block each other if nothing fails, does need each  *)
(* version to be deployed before the next is started.                      *)
(***************************************************************************)
EXTENDS UpdateDeploy, FiniteSetTheorems, WellFoundedInduction, TLAPS

\* No version above k is in a channel's part of a tree.
AtMost(part, k) == \A i \in Items : part[i] <= k

\* Nor anywhere on the managers' side.
Everywhere(c, k) ==
    /\ AtMost(origin.tree[c], k)
    /\ \A t \in origin.commits : AtMost(t[c], k)
    /\ \A m \in Managers : /\ AtMost(clone[m].tree[c], k)
                           /\ AtMost(work[m][c], k)
                           /\ \A t \in clone[m].made : AtMost(t[c], k)

\* What has been built is the newest there is.
Built == \A c \in Channels : Everywhere(c, released[c])

\* A run works on the newest version of its channel that anybody has committed.
Running ==
    \A m \in Managers : pc[m] # "idle" =>
        /\ chan[m] \in ChannelsOf[m]
        /\ ver[m] \in 1 .. released[chan[m]]
        /\ script[chan[m]].ver <= ver[m]
        /\ Everywhere(chan[m], ver[m])
        /\ pc[m] \in {"extract", "keep"} => AtMost(old[m], ver[m])

\* A script has no version of its channel newer than the one it was made for.
Scripts ==
    \A c \in Channels :
        /\ script[c].ver <= released[c]
        /\ AtMost(script[c].tree[c], script[c].ver)

\* A deployment that passed the check has of the other channels only what is
\* approved, and its own channel is approved.
Deploying ==
    \A c \in Channels :
        /\ dpc[c] # "idle" => run[c].ver <= approved[c] /\ AtMost(run[c].tree[c], run[c].ver)
        /\ dpc[c] = "checkout" =>
             \A d \in Channels \ {c} : AtMost(run[c].tree[d], approved[d])

\* What git pull --ff-only makes of m's working directory.
Merged(m) ==
    [c \in Channels |-> [i \in Items |->
        IF origin.tree[c][i] = clone[m].tree[c][i] THEN work[m][c][i] ELSE origin.tree[c][i]]]

IInv == TypeOK /\ Built /\ Running /\ Scripts /\ Deploying /\ NothingUnapproved

-----------------------------------------------------------------------------
(* The initial state.                                                      *)

LEMMA InitIInv == Init => IInv
  <1> SUFFICES ASSUME Init PROVE IInv
    OBVIOUS
  <1>1. FirstTree \in Tree /\ \A c \in Channels : AtMost(FirstTree[c], 1)
    BY DEF FirstTree, Tree, AtMost
  <1>2. \A c \in Channels : 1 \in Versions(c)
    BY ChannelsAssumption DEF Versions
  <1>3. TypeOK
    BY <1>1, <1>2, BoundsAssumption DEF Init, TypeOK
  <1>4. Built /\ Running
    BY <1>1 DEF Init, Built, Running, Everywhere, AtMost
  <1>5. Scripts /\ Deploying /\ NothingUnapproved
    BY <1>1 DEF Init, Scripts, Deploying, NothingUnapproved, AtMost
  <1> QED BY <1>3, <1>4, <1>5 DEF IInv

-----------------------------------------------------------------------------
(* What the steps have in common.                                          *)

\* Two runs of one channel are one run.
LEMMA OneRun ==
    ASSUME Running, NEW m \in Managers, NEW n \in Managers,
           pc[m] # "idle", pc[n] # "idle", chan[m] = chan[n]
    PROVE  m = n
  BY OwnerAssumption DEF Running

\* The trees and the number of the version a run works on have their types.
LEMMA RunType ==
    ASSUME TypeOK, Running, NEW m \in Managers, pc[m] # "idle"
    PROVE  /\ chan[m] \in Channels /\ ver[m] \in Nat
           /\ ver[m] \in Versions(chan[m])
           /\ work[m][chan[m]] \in [Items -> Nat]
  <1>1. chan[m] \in Channels
    BY ChannelsAssumption DEF Running
  <1>2. released[chan[m]] \in Versions(chan[m]) /\ Latest[chan[m]] \in Nat
    BY <1>1, ChannelsAssumption DEF TypeOK
  <1>3. ver[m] \in 1 .. released[chan[m]]
    BY DEF Running
  <1>4. ver[m] \in Versions(chan[m])
    BY <1>2, <1>3 DEF Versions
  <1> QED BY <1>1, <1>3, <1>4 DEF TypeOK, Tree

\* A smaller bound is a bound.
LEMMA AtMostMono ==
    ASSUME NEW part \in [Items -> Nat], NEW j \in Nat, NEW k \in Nat, j <= k, AtMost(part, j)
    PROVE  AtMost(part, k)
  BY DEF AtMost

\* What does not depend on the managers' side.
LEMMA ServerSide ==
    ASSUME Scripts, Deploying, NothingUnapproved, UNCHANGED <<released, script, server>>
    PROVE  Scripts' /\ Deploying' /\ NothingUnapproved'
  BY DEF Scripts, Deploying, NothingUnapproved, server, AtMost

\* What does not depend on the server's side.
LEMMA ManagersSide ==
    ASSUME Built, Running, UNCHANGED <<released, git, local, script>>
    PROVE  Built' /\ Running'
  BY DEF Built, Running, git, local, Everywhere, AtMost

\* A run that goes on puts nothing into a tree that is newer than its version.
LEMMA RunGoesOn ==
    ASSUME TypeOK, Built, Running, NEW m \in Managers, pc[m] # "idle",
           UNCHANGED <<released, script, chan, ver>>,
           \A n \in Managers \ {m} : pc'[n] = pc[n] /\ old'[n] = old[n],
           pc'[m] \in {"extract", "keep"} => AtMost(old'[m], ver[m]),
           \A c \in Channels, k \in Nat :
               Everywhere(c, k) /\ (chan[m] = c => ver[m] <= k) => Everywhere(c, k)'
    PROVE  Built' /\ Running'
  <1>1. Built'
    <2> SUFFICES ASSUME NEW c \in Channels PROVE Everywhere(c, released[c])'
      BY DEF Built
    <2>1. released[c] \in Nat /\ released'[c] = released[c]
      BY ChannelsAssumption DEF TypeOK, Versions
    <2>2. chan[m] = c => ver[m] <= released[c]
      BY <2>1 DEF Running
    <2>3. Everywhere(c, released[c])
      BY DEF Built
    <2>4. \A k \in Nat : Everywhere(c, k) /\ (chan[m] = c => ver[m] <= k) => Everywhere(c, k)'
      OBVIOUS
    <2> QED BY <2>1, <2>2, <2>3, <2>4 DEF Everywhere, AtMost
  <1>2. Running'
    <2> SUFFICES ASSUME NEW n \in Managers, pc'[n] # "idle"
                 PROVE  /\ chan'[n] \in ChannelsOf[n]
                        /\ ver'[n] \in 1 .. released'[chan'[n]]
                        /\ script'[chan'[n]].ver <= ver'[n]
                        /\ Everywhere(chan[n], ver[n])'
                        /\ pc'[n] \in {"extract", "keep"} => AtMost(old'[n], ver'[n])
      BY DEF Running
    <2>1. pc[n] # "idle"
      OBVIOUS
    <2>2. chan[n] \in Channels /\ ver[n] \in Nat
      BY <2>1, RunType
    <2>3. Everywhere(chan[n], ver[n])
      BY <2>1 DEF Running
    <2>4. chan[m] = chan[n] => ver[m] <= ver[n]
      BY <2>1, <2>2, OneRun
    <2>5. \A k \in Nat : Everywhere(chan[n], k) /\ (chan[m] = chan[n] => ver[m] <= k)
                       => Everywhere(chan[n], k)'
      BY <2>2
    <2>6. Everywhere(chan[n], ver[n])'
      BY <2>2, <2>3, <2>4, <2>5 DEF Everywhere, AtMost
    <2> QED BY <2>1, <2>6 DEF Running
  <1> QED BY <1>1, <1>2

\* A run that ends leaves the trees and, but for its own, the other runs alone.
LEMMA RunEnds ==
    ASSUME TypeOK, Built, Running, NEW m \in Managers, Stop(m),
           UNCHANGED <<released, git, script>>
    PROVE  Built' /\ Running'
  <1>1. \A n \in Managers \ {m} : /\ pc'[n] = pc[n] /\ chan'[n] = chan[n]
                                 /\ ver'[n] = ver[n] /\ old'[n] = old[n]
    BY DEF TypeOK, Stop, Goto
  <1>2. pc'[m] = "idle"
    BY DEF TypeOK, Stop, Goto
  <1>4. ASSUME NEW c, NEW k \in Nat, Everywhere(c, k) PROVE Everywhere(c, k)'
    BY <1>4 DEF Everywhere, AtMost, git
  <1>5. Built'
    <2> SUFFICES ASSUME NEW c \in Channels PROVE Everywhere(c, released[c])'
      BY DEF Built
    <2>1. released[c] \in Nat /\ released'[c] = released[c]
      BY ChannelsAssumption DEF TypeOK, Versions
    <2>2. Everywhere(c, released[c])
      BY DEF Built
    <2> QED BY <1>4, <2>1, <2>2 DEF Everywhere, AtMost
  <1>6. Running'
    <2> SUFFICES ASSUME NEW n \in Managers, pc'[n] # "idle"
                 PROVE  /\ chan'[n] \in ChannelsOf[n]
                        /\ ver'[n] \in 1 .. released'[chan'[n]]
                        /\ script'[chan'[n]].ver <= ver'[n]
                        /\ Everywhere(chan[n], ver[n])'
                        /\ pc'[n] \in {"extract", "keep"} => AtMost(old'[n], ver'[n])
      BY DEF Running
    <2>1. n # m /\ pc[n] # "idle"
      BY <1>1, <1>2
    <2>2. ver[n] \in Nat /\ Everywhere(chan[n], ver[n])
      BY <2>1, RunType DEF Running
    <2>3. PICK c, k : c = chan[n] /\ k = ver[n]
      OBVIOUS
    <2>4. k \in Nat /\ Everywhere(c, k)
      BY <2>2, <2>3 DEF Everywhere
    <2>5. Everywhere(c, k)'
      BY <1>4, <2>4
    <2>6. c = chan'[n] /\ k = ver'[n]
      BY <1>1, <2>1, <2>3
    <2>7. Everywhere(chan[n], ver[n])'
      BY <2>5, <2>6 DEF Everywhere
    <2> QED BY <1>1, <2>1, <2>7 DEF Running
  <1> QED BY <1>5, <1>6

-----------------------------------------------------------------------------
(* One lemma per action.                                                   *)

LEMMA NewVersionStep == ASSUME IInv, NEW c \in Channels, NewVersion(c) PROVE IInv'
  <1> USE DEF NewVersion
  <1>1. TypeOK'
    <2>1. Latest[c] \in Nat /\ released[c] \in 1 .. Latest[c]
      BY ChannelsAssumption DEF IInv, TypeOK, Versions
    <2>2. released' \in [Channels -> Nat]
      BY <2>1 DEF IInv, TypeOK
    <2>3. \A d \in Channels : released'[d] \in Versions(d) /\ done[d] \in 1 .. released'[d]
      BY <2>1 DEF IInv, TypeOK, Versions
    <2> QED BY <2>2, <2>3 DEF IInv, TypeOK, git, local, server
  <1>2. \A d \in Channels : released[d] \in Nat /\ released'[d] \in Nat /\ released[d] <= released'[d]
    BY ChannelsAssumption DEF IInv, TypeOK, Versions
  <1>3. Built'
    <2> SUFFICES ASSUME NEW d \in Channels PROVE Everywhere(d, released[d])'
      BY DEF Built
    <2>1. Everywhere(d, released[d]) /\ released[d] <= released'[d]
      BY <1>2 DEF IInv, Built
    <2>2. \A part \in [Items -> Nat] : AtMost(part, released[d]) => AtMost(part, released'[d])
      BY <1>2, <2>1, AtMostMono
    <2>3. origin.tree[d] \in [Items -> Nat] /\ \A m \in Managers :
            clone[m].tree[d] \in [Items -> Nat] /\ work[m][d] \in [Items -> Nat]
      BY DEF IInv, TypeOK, Tree
    <2>4. /\ \A t \in origin.commits : t[d] \in [Items -> Nat]
          /\ \A m \in Managers : \A t \in clone[m].made : t[d] \in [Items -> Nat]
      <3>1. origin.commits \subseteq Tree /\ \A m \in Managers : clone[m].made \subseteq Tree
        BY DEF IInv, TypeOK
      <3> QED BY <3>1 DEF Tree
    <2> QED BY <2>1, <2>2, <2>3, <2>4 DEF Everywhere, AtMost, git
  <1>4. Running'
    BY <1>2, RunType DEF IInv, Running, Everywhere, AtMost, git, local
  <1>5. Scripts' /\ Deploying' /\ NothingUnapproved'
    BY <1>2 DEF IInv, TypeOK, Scripts, Deploying, NothingUnapproved, AtMost, server, Tree, Versions
  <1> QED BY <1>1, <1>3, <1>4, <1>5 DEF IInv

LEMMA StartStep == ASSUME IInv, NEW m \in Managers, Start(m) PROVE IInv'
  <1> USE DEF Start
  <1>1. PICK c \in ChannelsOf[m] : /\ done[c] < released[c]
                                  /\ chan' = [chan EXCEPT ![m] = c]
                                  /\ ver' = [ver EXCEPT ![m] = released[c]]
    OBVIOUS
  <1>2. c \in Channels /\ released[c] \in Nat /\ released[c] >= 1
    <2>1. c \in Channels
      BY ChannelsAssumption
    <2> QED BY <2>1, ChannelsAssumption DEF IInv, TypeOK, Versions
  <1>3. TypeOK'
    BY <1>1, <1>2 DEF IInv, TypeOK, git, server, Goto
  <1>4. chan'[m] = c /\ ver'[m] = released[c] /\ \A n \in Managers \ {m} :
            pc'[n] = pc[n] /\ chan'[n] = chan[n] /\ ver'[n] = ver[n]
    BY <1>1 DEF IInv, TypeOK, Goto
  <1>5. Built'
    BY DEF IInv, Built, Everywhere, AtMost, git
  <1>6. Everywhere(c, released[c])
    BY <1>2 DEF IInv, Built
  <1>7. Running'
    <2> SUFFICES ASSUME NEW n \in Managers, pc'[n] # "idle"
                 PROVE  /\ chan'[n] \in ChannelsOf[n]
                        /\ ver'[n] \in 1 .. released'[chan'[n]]
                        /\ script'[chan'[n]].ver <= ver'[n]
                        /\ Everywhere(chan[n], ver[n])'
                        /\ pc'[n] \in {"extract", "keep"} => AtMost(old'[n], ver'[n])
      BY DEF Running
    <2>1. CASE n = m
      <3>1. pc'[m] = "pull"
        BY DEF IInv, TypeOK, Goto
      <3>2. script[c].ver <= released[c]
        BY <1>2 DEF IInv, Scripts
      <3> QED BY <1>2, <1>4, <1>6, <2>1, <3>1, <3>2 DEF Everywhere, AtMost, git
    <2>2. CASE n # m
      BY <1>4, <2>2 DEF IInv, Running, Everywhere, AtMost, git
    <2> QED BY <2>1, <2>2
  <1>8. Scripts' /\ Deploying' /\ NothingUnapproved'
    BY ServerSide DEF IInv
  <1> QED BY <1>3, <1>5, <1>7, <1>8 DEF IInv

\* The actions that only go from one label to the next.
LEMMA GoOnStep ==
    ASSUME IInv, NEW m \in Managers, NEW l \in {"status", "move", "push", "scp"},
           pc[m] \notin {"idle", "extract", "keep"}, Goto(m, l),
           UNCHANGED <<released, done, git, chan, ver, todo, old, script, server, failures>>
    PROVE  IInv'
  <1>1. TypeOK'
    BY DEF IInv, TypeOK, git, server, Goto
  <1>2. Built' /\ Running'
    <2>1. \A n \in Managers \ {m} : pc'[n] = pc[n] /\ old'[n] = old[n]
      BY DEF IInv, TypeOK, Goto
    <2>2. pc'[m] = l
      BY DEF IInv, TypeOK, Goto
    <2>3. \A c \in Channels, k \in Nat : Everywhere(c, k) => Everywhere(c, k)'
      BY DEF Everywhere, AtMost, git
    <2> QED BY <2>1, <2>2, <2>3, RunGoesOn DEF IInv
  <1>3. Scripts' /\ Deploying' /\ NothingUnapproved'
    BY ServerSide DEF IInv
  <1> QED BY <1>1, <1>2, <1>3 DEF IInv

\* The actions that end a run.
LEMMA StopStep ==
    ASSUME IInv, NEW m \in Managers, Stop(m), failures' \in {failures, failures + 1},
           failures' + named <= MaxTrouble,
           UNCHANGED <<released, done, git, script, server>>
    PROVE  IInv'
  <1>1. TypeOK'
    <2>1. failures' \in Nat /\ failures' + named' <= MaxTrouble /\ named' \in Nat
      BY DEF IInv, TypeOK, server
    <2> QED BY <2>1 DEF IInv, TypeOK, git, server, Stop, Goto
  <1>2. Built' /\ Running'
    BY RunEnds DEF IInv
  <1>3. Scripts' /\ Deploying' /\ NothingUnapproved'
    BY ServerSide DEF IInv
  <1> QED BY <1>1, <1>2, <1>3 DEF IInv

LEMMA PullStep == ASSUME IInv, NEW m \in Managers, Pull(m) PROVE IInv'
  <1> USE DEF Pull
  <1>1. TypeOK'
    <2>1. pc' \in [Managers -> {"idle", "pull", "status", "move", "extract", "keep",
                            "commit", "commitrest", "push", "scp", "marker"}]
      BY DEF IInv, TypeOK, Goto
    <2>2. clone' \in [Managers -> [base : Nat, tree : Tree, made : SUBSET Tree]] /\ work' \in [Managers -> Tree]
      <3>1. CASE ~Behind(m)
        BY <3>1 DEF IInv, TypeOK
      <3>2. CASE Behind(m)
        <4>1. origin.n \in Nat /\ origin.tree \in Tree
          BY DEF IInv, TypeOK
        <4>2. work' = [work EXCEPT ![m] = Merged(m)]
          BY <3>2 DEF Merged
        <4>3. Merged(m) \in Tree
          BY <4>1 DEF IInv, TypeOK, Tree, Merged
        <4>4. clone' = [clone EXCEPT ![m] =
                  [base |-> origin.n, tree |-> origin.tree, made |-> {}]]
          BY <3>2
        <4>5. [base |-> origin.n, tree |-> origin.tree, made |-> {}]
                  \in [base : Nat, tree : Tree, made : SUBSET Tree]
          BY <4>1
        <4>6. clone' \in [Managers -> [base : Nat, tree : Tree, made : SUBSET Tree]]
          BY <4>4, <4>5 DEF IInv, TypeOK
        <4>7. work' \in [Managers -> Tree]
          BY <4>2, <4>3 DEF IInv, TypeOK
        <4> QED BY <4>6, <4>7
      <3> QED BY <3>1, <3>2
    <2> QED BY <2>1, <2>2 DEF IInv, TypeOK, server
  <1>2. ASSUME NEW c \in Channels, NEW k \in Nat, Everywhere(c, k) PROVE Everywhere(c, k)'
    <2>1. CASE ~Behind(m)
      BY <1>2, <2>1 DEF Everywhere, AtMost
    <2>2. CASE Behind(m)
      <3>1. work' = [work EXCEPT ![m] = Merged(m)]
        BY <2>2 DEF Merged
      <3>2. AtMost(Merged(m)[c], k)
        BY <1>2 DEF IInv, TypeOK, Everywhere, AtMost, Merged
      <3>3. \A n \in Managers : AtMost(work'[n][c], k)
        BY <1>2, <3>1, <3>2 DEF IInv, TypeOK, Everywhere
      <3>4. \A n \in Managers : AtMost(clone'[n].tree[c], k)
        <4>1. clone' = [clone EXCEPT ![m] =
                  [base |-> origin.n, tree |-> origin.tree, made |-> {}]]
          BY <2>2
        <4>2. \A n \in Managers : clone'[n] = clone[n] \/ clone'[n].tree = origin.tree
          BY <4>1 DEF IInv, TypeOK
        <4> QED BY <1>2, <4>2 DEF Everywhere, AtMost
      <3>5. \A n \in Managers : clone'[n].made \subseteq clone[n].made
        <4>1. \A n \in Managers : clone'[n] = clone[n] \/ clone'[n].made = {}
          BY <2>2 DEF IInv, TypeOK
        <4> QED BY <4>1
      <3> QED BY <1>2, <3>3, <3>4, <3>5 DEF Everywhere, AtMost
    <2> QED BY <2>1, <2>2
  <1>3. Built' /\ Running'
    <2>1. \A n \in Managers \ {m} : pc'[n] = pc[n] /\ old'[n] = old[n]
      BY DEF IInv, TypeOK, Goto
    <2>2. pc'[m] = "status"
      BY DEF IInv, TypeOK, Goto
    <2> QED BY <1>2, <2>1, <2>2, RunGoesOn DEF IInv
  <1>4. Scripts' /\ Deploying' /\ NothingUnapproved'
    BY ServerSide DEF IInv
  <1> QED BY <1>1, <1>3, <1>4 DEF IInv

\* The actions that change the working directory's part of the channel.
LEMMA WorkStep ==
    ASSUME IInv, NEW m \in Managers, pc[m] # "idle",
           NEW part \in [Items -> Nat], AtMost(part, ver[m]),
           NEW l \in {"extract", "keep", "commit"}, Goto(m, l),
           work' = [work EXCEPT ![m][chan[m]] = part],
           old' \in [Managers -> [Items -> Nat]], todo' \in [Managers -> SUBSET Desktop],
           \A n \in Managers \ {m} : old'[n] = old[n],
           l \in {"extract", "keep"} => AtMost(old'[m], ver[m]),
           UNCHANGED <<released, done, origin, clone, chan, ver, script, server, failures>>
    PROVE  IInv'
  <1>1. chan[m] \in Channels /\ ver[m] \in Nat
    BY RunType DEF IInv
  <1>2. TypeOK'
    BY <1>1 DEF IInv, TypeOK, Tree, server, Goto
  <1>3. ASSUME NEW c \in Channels, NEW k \in Nat, Everywhere(c, k), chan[m] = c => ver[m] <= k
        PROVE  Everywhere(c, k)'
    <2>1. chan[m] = c => AtMost(part, k)
      BY <1>1, <1>3, AtMostMono
    <2> QED BY <1>1, <1>3, <2>1 DEF IInv, TypeOK, Tree, Everywhere, AtMost
  <1>4. Built' /\ Running'
    <2>1. \A n \in Managers \ {m} : pc'[n] = pc[n] /\ old'[n] = old[n]
      BY DEF IInv, TypeOK, Goto
    <2>2. pc'[m] = l
      BY DEF IInv, TypeOK, Goto
    <2> QED BY <1>3, <2>1, <2>2, RunGoesOn DEF IInv
  <1>5. Scripts' /\ Deploying' /\ NothingUnapproved'
    BY ServerSide DEF IInv
  <1> QED BY <1>2, <1>4, <1>5 DEF IInv

LEMMA MoveOldStep == ASSUME IInv, NEW m \in Managers, MoveOld(m) PROVE IInv'
  <1> USE DEF MoveOld
  <1>1. chan[m] \in Channels /\ ver[m] \in Nat /\ work[m][chan[m]] \in [Items -> Nat]
    BY RunType DEF IInv
  <1>2. AtMost(work[m][chan[m]], ver[m])
    BY DEF IInv, Running, Everywhere
  <1>3. [i \in Items |-> 0] \in [Items -> Nat] /\ AtMost([i \in Items |-> 0], ver[m])
    BY <1>1 DEF AtMost
  <1>4. old' \in [Managers -> [Items -> Nat]] /\ AtMost(old'[m], ver[m])
    BY <1>1, <1>2 DEF IInv, TypeOK
  <1>5. todo' \in [Managers -> SUBSET Desktop] /\ \A n \in Managers \ {m} : old'[n] = old[n]
    BY DEF IInv, TypeOK
  <1> QED BY <1>3, <1>4, <1>5, WorkStep

LEMMA ExtractStep == ASSUME IInv, NEW m \in Managers, Extract(m) PROVE IInv'
  <1> DEFINE part == [i \in Items |->
                        IF i \in Included[chan[m]][ver[m]] THEN ver[m] ELSE work[m][chan[m]][i]]
  <1>1. chan[m] \in Channels /\ ver[m] \in Nat /\ work[m][chan[m]] \in [Items -> Nat]
    BY RunType DEF IInv, Extract
  <1>2. AtMost(work[m][chan[m]], ver[m]) /\ AtMost(old[m], ver[m])
    BY DEF IInv, Running, Everywhere, Extract
  <1>3. part \in [Items -> Nat] /\ AtMost(part, ver[m])
    BY <1>1, <1>2 DEF AtMost
  <1>4. work' = [work EXCEPT ![m][chan[m]] = part]
    BY <1>1 DEF IInv, TypeOK, Tree, Extract
  <1>5. old' \in [Managers -> [Items -> Nat]] /\ todo' \in [Managers -> SUBSET Desktop]
    BY DEF IInv, TypeOK, Extract
  <1> HIDE DEF part
  <1> QED BY <1>2, <1>3, <1>4, <1>5, WorkStep DEF Extract

LEMMA KeepOldStep == ASSUME IInv, NEW m \in Managers, KeepOld(m) PROVE IInv'
  <1> DEFINE part == Kept(work[m][chan[m]], old[m])
  <1>1. chan[m] \in Channels /\ ver[m] \in Nat /\ work[m][chan[m]] \in [Items -> Nat]
    BY RunType DEF IInv, KeepOld
  <1>2. old[m] \in [Items -> Nat] /\ AtMost(work[m][chan[m]], ver[m]) /\ AtMost(old[m], ver[m])
    BY DEF IInv, TypeOK, Running, Everywhere, KeepOld
  <1>3. part \in [Items -> Nat] /\ AtMost(part, ver[m])
    BY <1>1, <1>2 DEF AtMost, Kept
  <1>4. todo' \in [Managers -> SUBSET Desktop] /\ old' \in [Managers -> [Items -> Nat]]
    BY DEF IInv, TypeOK, KeepOld, Directories
  <1>5. work' = [work EXCEPT ![m][chan[m]] = part]
    BY DEF KeepOld
  <1> HIDE DEF part
  <1> QED BY <1>3, <1>4, <1>5, WorkStep DEF KeepOld

\* The three kinds of commit.
LEMMA CommitStep ==
    ASSUME IInv, NEW m \in Managers, pc[m] \in {"commit", "commitrest"},
           NEW items, Commit(m, items),
           NEW l \in {"commit", "commitrest", "push"}, Goto(m, l),
           todo' \in [Managers -> SUBSET Desktop],
           UNCHANGED <<released, done, origin, work, chan, ver, old, script, server, failures>>
    PROVE  IInv'
  <1> DEFINE part == [i \in Items |-> IF i \in items THEN work[m][chan[m]][i]
                                      ELSE clone[m].tree[chan[m]][i]]
             tree == [clone[m].tree EXCEPT ![chan[m]] = part]
  <1>1. chan[m] \in Channels /\ ver[m] \in Nat /\ work[m][chan[m]] \in [Items -> Nat]
    BY RunType DEF IInv
  <1>2. clone[m] \in [base : Nat, tree : Tree, made : SUBSET Tree] /\ clone[m].tree \in Tree
    BY DEF IInv, TypeOK
  <1>3. part \in [Items -> Nat] /\ tree \in Tree
    BY <1>1, <1>2 DEF Tree
  <1>4. clone' = [clone EXCEPT ![m] = [base |-> clone[m].base, tree |-> tree,
                             made |-> IF tree = clone[m].tree THEN clone[m].made
                                      ELSE clone[m].made \cup {tree}]]
    BY DEF Commit
  <1>5. AtMost(part, ver[m])
    <2>1. AtMost(work[m][chan[m]], ver[m]) /\ AtMost(clone[m].tree[chan[m]], ver[m])
      BY DEF IInv, Running, Everywhere
    <2> QED BY <2>1 DEF AtMost
  <1>6. tree[chan[m]] = part /\ \A c \in Channels \ {chan[m]} : tree[c] = clone[m].tree[c]
    BY <1>1, <1>2 DEF Tree
  <1> HIDE DEF part, tree
  <1>7. clone' \in [Managers -> [base : Nat, tree : Tree, made : SUBSET Tree]]
    <2>1. PICK b \in SUBSET Tree : b = IF tree = clone[m].tree THEN clone[m].made
                                      ELSE clone[m].made \cup {tree}
      BY <1>2, <1>3
    <2>2. [base |-> clone[m].base, tree |-> tree, made |-> b]
              \in [base : Nat, tree : Tree, made : SUBSET Tree]
      BY <1>2, <1>3
    <2>3. clone' = [clone EXCEPT ![m] = [base |-> clone[m].base, tree |-> tree, made |-> b]]
      BY <1>4, <2>1
    <2> QED BY <2>2, <2>3 DEF IInv, TypeOK
  <1>8. /\ clone'[m].tree = tree /\ clone'[m].made \subseteq clone[m].made \cup {tree}
        /\ \A n \in Managers \ {m} : clone'[n] = clone[n]
    BY <1>4 DEF IInv, TypeOK
  <1>9. TypeOK'
    BY <1>7 DEF IInv, TypeOK, server, Goto
  <1>10. ASSUME NEW c \in Channels, NEW k \in Nat, Everywhere(c, k), chan[m] = c => ver[m] <= k
         PROVE  Everywhere(c, k)'
    <2>1. chan[m] = c => AtMost(part, k)
      BY <1>1, <1>3, <1>5, <1>10, AtMostMono
    <2>2. AtMost(tree[c], k)
      BY <1>6, <1>10, <2>1 DEF Everywhere
    <2>3. \A t \in clone'[m].made : AtMost(t[c], k)
      BY <1>8, <1>10, <2>2 DEF Everywhere
    <2> QED BY <1>8, <1>10, <2>2, <2>3 DEF Everywhere, AtMost
  <1>11. Built' /\ Running'
    <2>1. \A n \in Managers \ {m} : pc'[n] = pc[n] /\ old'[n] = old[n]
      BY DEF IInv, TypeOK, Goto
    <2>2. pc'[m] = l
      BY DEF IInv, TypeOK, Goto
    <2> QED BY <1>10, <2>1, <2>2, RunGoesOn DEF IInv
  <1>12. Scripts' /\ Deploying' /\ NothingUnapproved'
    BY ServerSide DEF IInv
  <1> QED BY <1>9, <1>11, <1>12 DEF IInv

LEMMA PushStep == ASSUME IInv, NEW m \in Managers, Push(m) PROVE IInv'
  <1> USE DEF Push
  <1>1. CASE ~Ahead(m)
    BY <1>1, GoOnStep DEF git
  <1>2. CASE Ahead(m)
    <2>1. clone[m] \in [base : Nat, tree : Tree, made : SUBSET Tree] /\ origin.n \in Nat
      BY DEF IInv, TypeOK
    <2>2. origin' = [n |-> origin.n + 1, tree |-> clone[m].tree,
                     commits |-> origin.commits \cup clone[m].made]
      BY <1>2
    <2>3. clone' = [clone EXCEPT ![m] =
              [base |-> origin.n + 1, tree |-> clone[m].tree, made |-> {}]]
      BY <1>2
    <2>4. clone' \in [Managers -> [base : Nat, tree : Tree, made : SUBSET Tree]]
      <3>1. [base |-> origin.n + 1, tree |-> clone[m].tree, made |-> {}]
                \in [base : Nat, tree : Tree, made : SUBSET Tree]
        BY <2>1
      <3> QED BY <2>3, <3>1 DEF IInv, TypeOK
    <2>5. \A n \in Managers : /\ clone'[n].tree = clone[n].tree
                              /\ clone'[n].made \subseteq clone[n].made
      BY <2>3 DEF IInv, TypeOK
    <2>6. TypeOK'
      <3>1. origin' \in [n : Nat, tree : Tree, commits : SUBSET Tree]
        BY <2>1, <2>2 DEF IInv, TypeOK
      <3> QED BY <2>4, <3>1 DEF IInv, TypeOK, server, Goto
    <2>7. ASSUME NEW c \in Channels, NEW k \in Nat, Everywhere(c, k) PROVE Everywhere(c, k)'
      BY <2>2, <2>5, <2>7 DEF Everywhere, AtMost
    <2>8. Built' /\ Running'
      <3>1. \A n \in Managers \ {m} : pc'[n] = pc[n] /\ old'[n] = old[n]
        BY DEF IInv, TypeOK, Goto
      <3>2. pc'[m] = "scp"
        BY DEF IInv, TypeOK, Goto
      <3> QED BY <2>7, <3>1, <3>2, RunGoesOn DEF IInv
    <2>9. Scripts' /\ Deploying' /\ NothingUnapproved'
      BY ServerSide DEF IInv
    <2> QED BY <2>6, <2>8, <2>9 DEF IInv
  <1> QED BY <1>1, <1>2

LEMMA SendScriptStep == ASSUME IInv, NEW m \in Managers, SendScript(m) PROVE IInv'
  <1> USE DEF SendScript
  <1>1. chan[m] \in Channels /\ ver[m] \in Nat /\ ver[m] \in 1 .. released[chan[m]]
    BY RunType DEF IInv, Running
  <1>2. clone[m].tree \in Tree /\ AtMost(clone[m].tree[chan[m]], ver[m])
    BY DEF IInv, TypeOK, Running, Everywhere
  <1> DEFINE new == [tree |-> clone[m].tree, ver |-> ver[m]]
  <1>3. new \in [tree : Tree, ver : Nat]
    BY <1>1, <1>2
  <1>4. script' = [script EXCEPT ![chan[m]] = new]
    BY DEF UpdateResponsesCommit
  <1>5. /\ script'[chan[m]] = new
        /\ \A c \in Channels \ {chan[m]} : script'[c] = script[c]
    BY <1>1, <1>4 DEF IInv, TypeOK
  <1>6. TypeOK'
    <2>1. script' \in [Channels -> [tree : Tree, ver : Nat]]
      <3> HIDE DEF new
      <3> QED BY <1>3, <1>4 DEF IInv, TypeOK
    <2> QED BY <2>1 DEF IInv, TypeOK, git, server, Goto
  <1>7. Built'
    BY DEF IInv, Built, Everywhere, AtMost, git
  <1>8. \A n \in Managers \ {m} : pc'[n] = pc[n]
    BY DEF IInv, TypeOK, Goto
  <1>9. pc'[m] = "marker"
    BY DEF IInv, TypeOK, Goto
  <1>10. Running'
    <2> SUFFICES ASSUME NEW n \in Managers, pc'[n] # "idle"
                 PROVE  /\ chan'[n] \in ChannelsOf[n]
                        /\ ver'[n] \in 1 .. released'[chan'[n]]
                        /\ script'[chan'[n]].ver <= ver'[n]
                        /\ Everywhere(chan[n], ver[n])'
                        /\ pc'[n] \in {"extract", "keep"} => AtMost(old'[n], ver'[n])
      BY DEF Running
    <2>1. pc[n] # "idle" /\ (pc'[n] \in {"extract", "keep"} => pc[n] \in {"extract", "keep"})
      BY <1>8, <1>9
    <2>2. chan[n] \in Channels /\ ver[n] \in Nat
      BY <2>1, RunType DEF IInv
    <2>3. script'[chan[n]].ver <= ver[n]
      <3>1. CASE n = m
        BY <1>1, <1>5, <3>1
      <3>2. CASE n # m
        <4>1. chan[n] # chan[m]
          BY <2>1, <3>2, OneRun DEF IInv
        <4> QED BY <1>5, <2>1, <2>2, <4>1 DEF IInv, Running
      <3> QED BY <3>1, <3>2
    <2> QED BY <2>1, <2>3 DEF IInv, Running, Everywhere, AtMost, git
  <1>11. Scripts'
    <2> SUFFICES ASSUME NEW c \in Channels
                 PROVE  /\ script'[c].ver <= released[c]
                        /\ AtMost(script'[c].tree[c], script'[c].ver)
      BY DEF Scripts, server, AtMost
    <2>1. CASE c # chan[m]
      BY <1>5, <2>1 DEF IInv, Scripts
    <2>2. CASE c = chan[m]
      BY <1>1, <1>2, <1>5, <2>2
    <2> QED BY <2>1, <2>2
  <1>12. Deploying' /\ NothingUnapproved'
    BY DEF IInv, Deploying, NothingUnapproved, AtMost, server
  <1> QED BY <1>6, <1>7, <1>10, <1>11, <1>12 DEF IInv

LEMMA FinishStep == ASSUME IInv, NEW m \in Managers, Finish(m) PROVE IInv'
  <1> USE DEF Finish
  <1>1. chan[m] \in Channels /\ ver[m] \in Nat /\ ver[m] \in 1 .. released[chan[m]]
    BY RunType DEF IInv, Running
  <1>2. done' \in [Channels -> Nat] /\ \A c \in Channels : done'[c] \in 1 .. released[c]
    BY <1>1 DEF IInv, TypeOK
  <1>3. TypeOK'
    BY <1>2 DEF IInv, TypeOK, git, server, Stop, Goto
  <1>4. Built' /\ Running'
    BY RunEnds DEF IInv
  <1>5. Scripts' /\ Deploying' /\ NothingUnapproved'
    BY ServerSide DEF IInv
  <1> QED BY <1>3, <1>4, <1>5 DEF IInv

LEMMA RepairStep == ASSUME IInv, NEW m \in Managers, Repair(m) PROVE IInv'
  <1>1. PICK toOrigin \in BOOLEAN, clean \in BOOLEAN :
          LET tree == IF toOrigin THEN origin.tree ELSE clone[m].tree
          IN  /\ clone' = IF toOrigin
                          THEN [clone EXCEPT ![m] = [base |-> origin.n, tree |-> tree, made |-> {}]]
                          ELSE clone
              /\ work' = [work EXCEPT ![m] = [c \in Channels |-> [i \in Items |->
                     IF tree[c][i] = 0 /\ clone[m].tree[c][i] = 0 /\ ~clean
                     THEN @[c][i] ELSE tree[c][i]]]]
    BY DEF Repair
  <1> DEFINE tree == IF toOrigin THEN origin.tree ELSE clone[m].tree
             left == [c \in Channels |-> [i \in Items |->
                         IF tree[c][i] = 0 /\ clone[m].tree[c][i] = 0 /\ ~clean
                         THEN work[m][c][i] ELSE tree[c][i]]]
             new == [base |-> origin.n, tree |-> tree, made |-> {}]
  <1>2. tree \in Tree /\ origin.n \in Nat /\ new \in [base : Nat, tree : Tree, made : SUBSET Tree]
    BY DEF IInv, TypeOK
  <1>3. left \in Tree
    BY <1>2 DEF IInv, TypeOK, Tree
  <1>4. work' = [work EXCEPT ![m] = left]
    BY <1>1
  <1>5. clone' = clone \/ clone' = [clone EXCEPT ![m] = new]
    BY <1>1
  <1>6. clone' \in [Managers -> [base : Nat, tree : Tree, made : SUBSET Tree]] /\ work' \in [Managers -> Tree]
    <2> HIDE DEF left, new, tree
    <2>1. clone \in [Managers -> [base : Nat, tree : Tree, made : SUBSET Tree]] /\ work \in [Managers -> Tree]
      BY DEF IInv, TypeOK
    <2>2. clone' \in [Managers -> [base : Nat, tree : Tree, made : SUBSET Tree]]
      BY <1>2, <1>5, <2>1
    <2> QED BY <1>3, <1>4, <2>1, <2>2
  <1>7. TypeOK'
    BY <1>6 DEF IInv, TypeOK, Repair, local, server
  <1>8. ASSUME NEW c \in Channels, NEW k \in Nat, Everywhere(c, k) PROVE Everywhere(c, k)'
    <2>1. AtMost(tree[c], k)
      BY <1>8 DEF Everywhere
    <2>2. AtMost(left[c], k)
      BY <1>8, <2>1 DEF Everywhere, AtMost
    <2> HIDE DEF left, tree
    <2>3. \A n \in Managers : AtMost(work'[n][c], k)
      BY <1>4, <1>8, <2>2 DEF IInv, TypeOK, Everywhere
    <2>4. \A n \in Managers : /\ clone'[n].tree = clone[n].tree \/ clone'[n].tree = tree
                              /\ clone'[n].made \subseteq clone[n].made
      <3>1. new.tree = tree /\ new.made = {}
        OBVIOUS
      <3>2. \A n \in Managers : clone'[n] = clone[n] \/ clone'[n] = new
        <4> HIDE DEF new
        <4> QED BY <1>5 DEF IInv, TypeOK
      <3> QED BY <3>1, <3>2
    <2>5. \A n \in Managers : AtMost(clone'[n].tree[c], k) /\ \A t \in clone'[n].made : AtMost(t[c], k)
      BY <1>8, <2>1, <2>4 DEF Everywhere
    <2> QED BY <1>8, <2>3, <2>5 DEF Repair, Everywhere, AtMost
  <1>9. \A c \in Channels : released[c] \in Nat
    BY DEF IInv, TypeOK
  <1>10. Built' /\ Running'
    <2>1. released' = released /\ script' = script /\ pc' = pc /\ chan' = chan /\ ver' = ver /\ old' = old
      BY DEF Repair, local
    <2>2. ASSUME NEW c \in Channels PROVE Everywhere(c, released[c])'
      <3>1. PICK k \in Nat : k = released[c]
        BY <1>9
      <3>2. Everywhere(c, k)'
        BY <1>8, <3>1 DEF IInv, Built
      <3> QED BY <2>1, <3>1, <3>2 DEF Everywhere
    <2>3. ASSUME NEW n \in Managers, pc[n] # "idle" PROVE Everywhere(chan[n], ver[n])'
      <3>1. chan[n] \in Channels /\ ver[n] \in Nat
        BY <2>3, RunType DEF IInv
      <3>2. PICK c \in Channels, k \in Nat : c = chan[n] /\ k = ver[n]
        BY <3>1
      <3>3. Everywhere(c, k)'
        BY <1>8, <2>3, <3>2 DEF IInv, Running
      <3> QED BY <2>1, <3>2, <3>3 DEF Everywhere
    <2> QED BY <2>1, <2>2, <2>3 DEF IInv, Built, Running, AtMost
  <1>11. Scripts' /\ Deploying' /\ NothingUnapproved'
    BY ServerSide DEF IInv, Repair
  <1> QED BY <1>7, <1>10, <1>11 DEF IInv

-----------------------------------------------------------------------------
(* The server's side.                                                      *)

\* A deployment starts, of the script's commit or of another.
LEMMA RunStep ==
    ASSUME IInv, NEW c \in Channels, NEW tree \in Tree, NEW v \in Nat, AtMost(tree[c], v),
           Run(c, tree, v), named' \in Nat, failures + named' <= MaxTrouble
    PROVE  IInv'
  <1> USE DEF Run
  <1>1. approved[c] \in Nat
    BY DEF IInv, TypeOK
  <1> DEFINE new == [tree |-> tree, ver |-> v]
             u == IF v > approved[c] THEN v ELSE approved[c]
  <1>2. u \in Nat /\ v <= u /\ approved[c] <= u
    BY <1>1
  <1>3. new \in [tree : Tree, ver : Nat] /\ new.tree = tree /\ new.ver = v
    OBVIOUS
  <1>4. approved' = [approved EXCEPT ![c] = u] /\ run' = [run EXCEPT ![c] = new]
    OBVIOUS
  <1> HIDE DEF new, u
  <1>5. TypeOK'
    <2>1. approved' \in [Channels -> Nat] /\ run' \in [Channels -> [tree : Tree, ver : Nat]]
      BY <1>2, <1>3, <1>4 DEF IInv, TypeOK
    <2> QED BY <2>1 DEF IInv, TypeOK, git, local
  <1>6. Built' /\ Running'
    BY ManagersSide DEF IInv
  <1>7. /\ approved'[c] = u /\ run'[c] = new /\ dpc'[c] = "check"
        /\ \A d \in Channels \ {c} : /\ approved'[d] = approved[d] /\ run'[d] = run[d]
                                     /\ dpc'[d] = dpc[d]
    BY <1>4 DEF IInv, TypeOK
  <1>8. \A d \in Channels : approved[d] \in Nat /\ approved'[d] \in Nat /\ approved[d] <= approved'[d]
    BY <1>2, <1>7 DEF IInv, TypeOK
  <1>9. Scripts'
    BY DEF IInv, Scripts, AtMost
  <1>10. \A d \in Channels, part \in [Items -> Nat] :
            AtMost(part, approved[d]) => AtMost(part, approved'[d])
    BY <1>8, AtMostMono
  <1>11. Deploying'
    <2> SUFFICES ASSUME NEW e \in Channels
                 PROVE  /\ dpc'[e] # "idle" => run'[e].ver <= approved'[e] /\ AtMost(run'[e].tree[e], run'[e].ver)
                        /\ dpc'[e] = "checkout" =>
                             \A d \in Channels \ {e} : AtMost(run'[e].tree[d], approved'[d])
      BY DEF Deploying, AtMost
    <2>1. CASE e = c
      BY <1>2, <1>3, <1>7, <2>1
    <2>2. CASE e # c
      <3>1. dpc'[e] # "idle" => run'[e].ver <= approved'[e] /\ AtMost(run'[e].tree[e], run'[e].ver)
        BY <1>7, <2>2 DEF IInv, Deploying
      <3>2. ASSUME dpc'[e] = "checkout", NEW d \in Channels \ {e}
            PROVE  AtMost(run'[e].tree[d], approved'[d])
        <4>1. AtMost(run[e].tree[d], approved[d]) /\ run'[e] = run[e]
          BY <1>7, <2>2, <3>2 DEF IInv, Deploying
        <4>2. run[e].tree[d] \in [Items -> Nat]
          BY DEF IInv, TypeOK, Tree
        <4> QED BY <1>10, <4>1, <4>2
      <3> QED BY <3>1, <3>2
    <2> QED BY <2>1, <2>2
  <1>12. NothingUnapproved'
    BY <1>8 DEF IInv, TypeOK, Tree, NothingUnapproved
  <1> QED BY <1>5, <1>6, <1>9, <1>11, <1>12 DEF IInv

LEMMA DeployStartStep == ASSUME IInv, NEW c \in Channels, DeployStart(c) PROVE IInv'
  <1>1. script[c].tree \in Tree /\ script[c].ver \in Nat /\ AtMost(script[c].tree[c], script[c].ver)
    BY DEF IInv, TypeOK, Scripts
  <1>2. failures + named <= MaxTrouble /\ named \in Nat
    BY DEF IInv, TypeOK
  <1> QED BY <1>1, <1>2, RunStep DEF DeployStart

\* A part of a tree has a newest version, if there is a bound on its versions.
LEMMA NewestOf ==
    ASSUME NEW part \in [Items -> Nat], NEW k \in Nat, AtMost(part, k)
    PROVE  Max0({part[i] : i \in Items}) \in Nat /\ AtMost(part, Max0({part[i] : i \in Items}))
  <1> DEFINE Bounds == {n \in Nat : AtMost(part, n)}
             V == {part[i] : i \in Items}
  <1>1. k \in Bounds /\ Bounds \subseteq Nat
    OBVIOUS
  <1>2. PICK n \in Bounds : \A j \in Bounds : ~(j < n)
    <2> HIDE DEF Bounds
    <2>1. PICK n \in Bounds : \A j \in Bounds : <<j, n>> \notin OpToRel(<, Nat)
      BY <1>1, WFMin, NatLessThanWellFounded
    <2> QED BY <1>1, <2>1 DEF OpToRel
  <1>3. \A y \in V : y <= n
    BY <1>2 DEF AtMost
  <1>4. n \in V \cup {0}
    <2> SUFFICES ASSUME n # 0 PROVE n \in V
      OBVIOUS
    <2>1. n - 1 \in Nat /\ n - 1 < n /\ ~AtMost(part, n - 1)
      BY <1>2
    <2>2. PICK i \in Items : ~(part[i] <= n - 1)
      BY <2>1 DEF AtMost
    <2>3. part[i] = n
      BY <1>2, <1>3, <2>2
    <2> QED BY <2>3
  <1>5. Max0(V) \in V \cup {0} /\ \A y \in V : y <= Max0(V)
    <2> HIDE DEF V
    <2> QED BY <1>3, <1>4 DEF Max0
  <1> QED BY <1>5 DEF AtMost

LEMMA DeployNamedStep == ASSUME IInv, NEW c \in Channels, DeployNamed(c) PROVE IInv'
  <1>1. PICK tree \in origin.commits : Run(c, tree, Max0({tree[c][i] : i \in Items}))
    BY DEF DeployNamed
  <1>2. tree \in Tree /\ tree[c] \in [Items -> Nat]
    BY DEF IInv, TypeOK, Tree
  <1>3. released[c] \in Nat /\ AtMost(tree[c], released[c])
    BY DEF IInv, TypeOK, Built, Everywhere
  <1>4. PICK v \in Nat : v = Max0({tree[c][i] : i \in Items}) /\ AtMost(tree[c], v)
    BY <1>2, <1>3, NewestOf
  <1>5. named' \in Nat /\ failures + named' <= MaxTrouble
    BY BoundsAssumption DEF IInv, TypeOK, DeployNamed
  <1> QED BY <1>1, <1>2, <1>4, <1>5, RunStep

LEMMA DeployCheckStep == ASSUME IInv, NEW c \in Channels, DeployCheck(c) PROVE IInv'
  <1> USE DEF DeployCheck
  <1>1. TypeOK'
    BY DEF IInv, TypeOK, git, local
  <1>2. Built' /\ Running'
    BY ManagersSide DEF IInv
  <1>3. \A d \in Channels \ {c} : dpc'[d] = dpc[d]
    BY DEF IInv, TypeOK
  <1>4. dpc'[c] = "checkout" => \A d \in Channels \ {c} : AtMost(run[c].tree[d], approved[d])
    <2>1. dpc'[c] = "checkout" => ChangedChannels(run[c].tree) = {c}
      BY DEF IInv, TypeOK, HasOtherLine
    <2>2. dpc'[c] = "checkout" => \A d \in Channels \ {c} : head[d] = run[c].tree[d]
      BY <2>1 DEF ChangedChannels
    <2> QED BY <2>2 DEF IInv, NothingUnapproved, AtMost
  <1>5. Scripts' /\ NothingUnapproved'
    BY DEF IInv, Scripts, NothingUnapproved, AtMost
  <1>6. Deploying'
    BY <1>3, <1>4 DEF IInv, Deploying, AtMost
  <1> QED BY <1>1, <1>2, <1>5, <1>6 DEF IInv

LEMMA DeployCheckoutStep == ASSUME IInv, NEW c \in Channels, DeployCheckout(c) PROVE IInv'
  <1> USE DEF DeployCheckout
  <1>1. TypeOK'
    BY DEF IInv, TypeOK, git, local
  <1>2. Built' /\ Running'
    BY ManagersSide DEF IInv
  <1>3. \A d \in Channels : AtMost(run[c].tree[d], approved[d])
    <2>1. run[c].tree[c] \in [Items -> Nat] /\ run[c].ver \in Nat /\ approved[c] \in Nat
      BY DEF IInv, TypeOK, Tree
    <2>2. run[c].ver <= approved[c] /\ AtMost(run[c].tree[c], run[c].ver)
      BY DEF IInv, Deploying
    <2>3. AtMost(run[c].tree[c], approved[c])
      BY <2>1, <2>2, AtMostMono
    <2> QED BY <2>3 DEF IInv, Deploying
  <1>4. NothingUnapproved'
    BY <1>3 DEF IInv, NothingUnapproved, AtMost
  <1>5. Scripts' /\ Deploying'
    BY DEF IInv, TypeOK, Scripts, Deploying, AtMost
  <1> QED BY <1>1, <1>2, <1>4, <1>5 DEF IInv

\* The other steps of a deployment script.
LEMMA DeployEndStep ==
    ASSUME IInv, NEW c \in Channels, DeployRefused(c) \/ DeployStatic(c) \/ DeployFails(c)
    PROVE  IInv'
  <1>1. TypeOK'
    <2>1. CASE DeployRefused(c) \/ DeployStatic(c)
      BY <2>1 DEF IInv, TypeOK, git, local, DeployRefused, DeployStatic
    <2>2. CASE DeployFails(c)
      <3>1. failures' \in Nat /\ failures' + named <= MaxTrouble
        BY <2>2, BoundsAssumption DEF IInv, TypeOK, DeployFails
      <3> QED BY <2>2, <3>1 DEF IInv, TypeOK, git, local, DeployFails
    <2> QED BY <2>1, <2>2
  <1>2. Built' /\ Running'
    BY ManagersSide DEF IInv, DeployRefused, DeployStatic, DeployFails
  <1>3. \A d \in Channels : dpc'[d] = dpc[d] \/ dpc'[d] = "idle"
    BY DEF IInv, TypeOK, DeployRefused, DeployStatic, DeployFails
  <1>4. UNCHANGED <<released, script, run, approved, head>> /\ (live' = live \/ live' = head)
    BY DEF DeployRefused, DeployStatic, DeployFails
  <1>5. Scripts' /\ Deploying' /\ NothingUnapproved'
    BY <1>3, <1>4 DEF IInv, Scripts, Deploying, NothingUnapproved, AtMost
  <1> QED BY <1>1, <1>2, <1>5 DEF IInv

-----------------------------------------------------------------------------
(* Every step.                                                             *)

LEMMA StepStep == ASSUME IInv, NEW m \in Managers, Step(m) PROVE IInv'
  <1>1. failures \in Nat /\ failures + named <= MaxTrouble
    BY BoundsAssumption DEF IInv, TypeOK
  <1>2. CASE PullFails(m) \/ PushFails(m)
    BY <1>1, <1>2, StopStep DEF PullFails, PushFails
  <1>3. CASE Status(m)
    <2>1. CASE Modified(m)
      BY <1>1, <1>3, <2>1, StopStep DEF Status
    <2>2. CASE ~Modified(m)
      BY <1>3, <2>2, GoOnStep DEF Status
    <2> QED BY <2>1, <2>2
  <1>4. CASE CommitDirectory(m)
    <2>1. PICK d : Commit(m, {d}) /\ todo' = [todo EXCEPT ![m] = @ \ {d}]
      BY <1>4 DEF CommitDirectory
    <2>2. todo' \in [Managers -> SUBSET Desktop]
      BY <2>1 DEF IInv, TypeOK
    <2>3. pc' = pc /\ Goto(m, "commit")
      BY <1>4 DEF CommitDirectory, Goto, IInv, TypeOK
    <2> QED BY <1>4, <2>1, <2>2, <2>3, CommitStep DEF CommitDirectory
  <1>5. CASE CommitAndroid(m)
    BY <1>5, CommitStep DEF CommitAndroid, IInv, TypeOK
  <1>6. CASE CommitRest(m)
    BY <1>6, CommitStep DEF CommitRest, IInv, TypeOK
  <1> QED BY <1>2, <1>3, <1>4, <1>5, <1>6, PullStep, MoveOldStep, ExtractStep, KeepOldStep,
             PushStep, SendScriptStep, FinishStep DEF Step

LEMMA NextIInv == ASSUME IInv, [Next]_vars PROVE IInv'
  <1>1. CASE UNCHANGED vars
    <2>1. UNCHANGED <<released, done, git, local, script, server, failures>>
      BY <1>1 DEF vars
    <2>2. TypeOK'
      BY <2>1 DEF IInv, TypeOK, git, local, server
    <2> QED BY <2>1, <2>2, ManagersSide, ServerSide DEF IInv
  <1>2. CASE Terminated
    BY <1>1, <1>2 DEF Terminated
  <1>3. ASSUME NEW m \in Managers, Fail(m) PROVE IInv'
    <2>1. failures' = failures + 1 /\ failures' + named <= MaxTrouble
      BY <1>3, BoundsAssumption DEF Fail, IInv, TypeOK
    <2> QED BY <1>3, <2>1, StopStep DEF Fail
  <1>4. ASSUME NEW c \in Channels, DeployStep(c) \/ DeployFails(c) PROVE IInv'
    BY <1>4, DeployStartStep, DeployCheckStep, DeployCheckoutStep, DeployEndStep DEF DeployStep
  <1> QED BY <1>1, <1>2, <1>3, <1>4, DeployNamedStep, StartStep, StepStep, RepairStep,
             NewVersionStep DEF Next

-----------------------------------------------------------------------------
(* Theorems.                                                               *)

\* The inductive invariant the theorems follow from.
THEOREM Invariance == Spec => []IInv
  BY InitIInv, NextIInv, PTL DEF Spec

\* Every variable keeps its type; in particular the commits go through the
\* directories of desktop platforms only.
THEOREM TypeCorrect == Spec => []TypeOK
  <1>1. IInv => TypeOK
    BY DEF IInv
  <1> QED BY <1>1, Invariance, PTL

\* Users are given nothing of a channel that nobody has deployed, however many
\* channels share the repository, whatever their managers' runs and deployments
\* are doing, and wherever they fail.
THEOREM OnlyApprovedIsServed == Spec => []NothingUnapproved
  <1>1. IInv => NothingUnapproved
    BY DEF IInv
  <1> QED BY <1>1, Invariance, PTL

-----------------------------------------------------------------------------
(* Nothing goes back.                                                      *)

\* Nothing is older in s than in t: of a channel, and of all.
Upward(s, t) == \A i \in Items : s[i] <= t[i]
UpTo(s, t) == \A c \in Channels : Upward(s[c], t[c])

\* The trees that somebody has pushed.
PushedTrees ==
    {origin.tree, head} \cup {script[c].tree : c \in Channels} \cup {run[c].tree : c \in Channels}
    \cup {clone[m].tree : m \in {n \in Managers : ~Ahead(n)}}

\* They are states of one branch, and origin has the last of them (so are the named
\* ones, but this is not needed).
Branch ==
    named = 0 =>
        /\ \A t \in PushedTrees : UpTo(t, origin.tree)
        /\ \A s, t \in PushedTrees : UpTo(s, t) \/ UpTo(t, s)

\* A clone has of others' channels what it got from origin, of its own also what
\* it has not pushed.
CloneOf(m) ==
    /\ clone[m].base <= origin.n
    /\ \A c \in Channels :
         IF c \in ChannelsOf[m]
         THEN IF Ahead(m) THEN Upward(origin.tree[c], clone[m].tree[c])
              ELSE clone[m].tree[c] = origin.tree[c]
         ELSE ~Behind(m) => clone[m].tree[c] = origin.tree[c]

\* What a run puts in the place of its channel's files is not older.
ReplacingOf(m) ==
    /\ pc[m] \in {"move", "commit", "commitrest"} =>
         Upward(clone[m].tree[chan[m]], work[m][chan[m]])
    /\ pc[m] \in {"extract", "keep"} => Upward(clone[m].tree[chan[m]], old[m])
    /\ pc[m] = "extract" => \A i \in Items : work[m][chan[m]][i] = 0
    /\ pc[m] = "keep" =>
         \A i \in Items : work[m][chan[m]][i] =
             IF i \in Included[chan[m]][ver[m]] THEN ver[m] ELSE 0
    /\ pc[m] \in {"scp", "marker"} => ~Ahead(m)

\* A deployment of a script's commit goes forward, and changes its own channel only.
ForwardOf(c) ==
    /\ Upward(head[c], script[c].tree[c]) /\ Upward(run[c].tree[c], script[c].tree[c])
    /\ dpc[c] # "idle" => Upward(head[c], run[c].tree[c])
    /\ dpc[c] = "checkout" => ChangedChannels(run[c].tree) = {c}

Cloned == \A m \in Managers : CloneOf(m)
Replacing == \A m \in Managers : ReplacingOf(m)
Forward == named = 0 => UpTo(live, head) /\ \A c \in Channels : ForwardOf(c)

FInv == IInv /\ Branch /\ Cloned /\ Replacing /\ Forward

LEMMA InitFInv == Init => FInv
  <1> SUFFICES ASSUME Init PROVE FInv
    OBVIOUS
  <1>1. IInv
    BY InitIInv
  <1>2. FirstTree \in Tree /\ UpTo(FirstTree, FirstTree)
    BY DEF FirstTree, Tree, UpTo, Upward
  <1>3. \A t \in PushedTrees : t = FirstTree
    BY DEF Init, PushedTrees, Ahead
  <1>4. Branch
    BY <1>2, <1>3 DEF Init, Branch
  <1>5. Cloned /\ Replacing
    BY DEF Init, Cloned, CloneOf, Replacing, ReplacingOf, Ahead
  <1>6. Forward
    BY <1>2 DEF Init, Forward, ForwardOf, UpTo
  <1> QED BY <1>1, <1>4, <1>5, <1>6 DEF FInv

-----------------------------------------------------------------------------
(* What the steps have in common.                                          *)

LEMMA UpwardTrans ==
    ASSUME NEW r \in [Items -> Nat], NEW s \in [Items -> Nat], NEW t \in [Items -> Nat],
           Upward(r, s), Upward(s, t)
    PROVE  Upward(r, t)
  BY DEF Upward

LEMMA UpToTrans ==
    ASSUME NEW r \in Tree, NEW s \in Tree, NEW t \in Tree, UpTo(r, s), UpTo(s, t)
    PROVE  UpTo(r, t)
  BY UpwardTrans DEF UpTo, Tree

LEMMA UpToSelf == \A t \in Tree : UpTo(t, t)
  BY DEF UpTo, Upward, Tree

LEMMA PushedType == TypeOK => PushedTrees \subseteq Tree
  BY DEF TypeOK, PushedTrees, Ahead

\* The branch only gets longer.
LEMMA BranchGrows ==
    ASSUME TypeOK, TypeOK', Branch, PushedTrees' \subseteq PushedTrees \cup {origin'.tree},
           UpTo(origin.tree, origin'.tree), UNCHANGED named
    PROVE  Branch'
  <1> SUFFICES ASSUME named = 0
               PROVE  /\ \A t \in PushedTrees' : UpTo(t, origin.tree)'
                      /\ \A s, t \in PushedTrees' : UpTo(s, t)' \/ UpTo(t, s)'
    BY DEF Branch
  <1>1. PushedTrees \subseteq Tree /\ origin.tree \in Tree /\ origin'.tree \in Tree
    BY PushedType DEF TypeOK
  <1>2. \A t \in PushedTrees : UpTo(t, origin'.tree)
    BY <1>1, UpToTrans DEF Branch
  <1>3. \A t \in PushedTrees' : UpTo(t, origin'.tree)
    BY <1>1, <1>2, UpToSelf
  <1>4. \A s, t \in PushedTrees' : UpTo(s, t) \/ UpTo(t, s)
    <2> SUFFICES ASSUME NEW s \in PushedTrees', NEW t \in PushedTrees' PROVE UpTo(s, t) \/ UpTo(t, s)
      OBVIOUS
    <2>1. CASE s = origin'.tree \/ t = origin'.tree
      BY <1>3, <2>1
    <2>2. CASE s \in PushedTrees /\ t \in PushedTrees
      BY <2>2 DEF Branch
    <2> QED BY <2>1, <2>2
  <1> QED BY <1>3, <1>4 DEF UpTo, Upward

\* What does not depend on the managers' side.
LEMMA StillForward ==
    ASSUME Forward, UNCHANGED <<script, server>>
    PROVE  Forward'
  BY DEF Forward, ForwardOf, UpTo, Upward, ChangedChannels, server

\* What does not depend on the server's side.
LEMMA StillReplacing ==
    ASSUME Cloned, Replacing, UNCHANGED <<git, local>>
    PROVE  Cloned' /\ Replacing'
  BY DEF Cloned, CloneOf, Behind, Replacing, ReplacingOf, Upward, git, local, Ahead

LEMMA SameClones ==
    ASSUME Cloned, UNCHANGED <<origin, clone>>
    PROVE  Cloned'
  BY DEF Cloned, CloneOf, Behind, Upward, Ahead

LEMMA SameBranch ==
    ASSUME Branch, UNCHANGED <<origin, clone, script, run, head, named>>
    PROVE  Branch'
  BY DEF Branch, PushedTrees, Ahead, UpTo, Upward

\* A run leaves those of other managers alone.
LEMMA OneReplaces ==
    ASSUME Replacing, NEW m \in Managers, ReplacingOf(m)',
           \A n \in Managers \ {m} :
               /\ pc'[n] = pc[n] /\ chan'[n] = chan[n] /\ ver'[n] = ver[n] /\ old'[n] = old[n]
               /\ work'[n] = work[n] /\ clone'[n] = clone[n]
    PROVE  Replacing'
  BY DEF Replacing, ReplacingOf, Upward, Ahead

-----------------------------------------------------------------------------
(* The managers' steps.                                                    *)

\* A run that does nothing to git, and does not come to where its files are compared.
LEMMA QuietStep ==
    ASSUME FInv, IInv', NEW m \in Managers, UNCHANGED <<git, script, server>>,
           \A n \in Managers \ {m} :
               pc'[n] = pc[n] /\ chan'[n] = chan[n] /\ ver'[n] = ver[n] /\ old'[n] = old[n],
           \/ pc'[m] \in {"idle", "pull", "status"}
           \/ pc'[m] = pc[m] /\ UNCHANGED <<chan, ver, old>>
    PROVE  FInv'
  <1>1. Branch' /\ Cloned'
    BY SameBranch, SameClones DEF FInv, git, server
  <1>2. Forward'
    BY StillForward DEF FInv
  <1>3. ReplacingOf(m)'
    BY DEF FInv, Replacing, ReplacingOf, Upward, git, Ahead
  <1>4. Replacing'
    BY <1>3, OneReplaces DEF FInv, git
  <1> QED BY <1>1, <1>2, <1>4 DEF FInv

\* The end of a run, whatever it has done.
LEMMA StopQuiet ==
    ASSUME TypeOK, NEW m \in Managers, Stop(m)
    PROVE  /\ pc'[m] = "idle"
           /\ \A n \in Managers \ {m} :
                  pc'[n] = pc[n] /\ chan'[n] = chan[n] /\ ver'[n] = ver[n] /\ old'[n] = old[n]
  BY DEF TypeOK, Stop, Goto

LEMMA NewVersionForward == ASSUME FInv, IInv', NEW c \in Channels, NewVersion(c) PROVE FInv'
  <1>1. Branch' /\ Forward'
    BY SameBranch, StillForward DEF NewVersion, FInv, git, server
  <1>2. Cloned' /\ Replacing'
    BY StillReplacing DEF NewVersion, FInv
  <1> QED BY <1>1, <1>2 DEF FInv

LEMMA StartForward == ASSUME FInv, IInv', NEW m \in Managers, Start(m) PROVE FInv'
  <1>1. pc'[m] = "pull" /\ UNCHANGED <<git, script, server, old>>
    BY DEF Start, FInv, IInv, TypeOK, Goto
  <1>2. \A n \in Managers \ {m} : pc'[n] = pc[n] /\ chan'[n] = chan[n] /\ ver'[n] = ver[n]
    BY DEF Start, FInv, IInv, TypeOK, Goto
  <1> QED BY <1>1, <1>2, QuietStep

LEMMA StopForward ==
    ASSUME FInv, IInv', NEW m \in Managers, Stop(m), UNCHANGED <<git, script, server>>
    PROVE  FInv'
  BY StopQuiet, QuietStep DEF FInv, IInv

\* Only an unmodified clone comes to the old files; there may be files that git does
\* not know.
LEMMA StatusForward == ASSUME FInv, IInv', NEW m \in Managers, Status(m) PROVE FInv'
  <1>1. CASE Modified(m)
    BY <1>1, StopForward DEF Status
  <1>2. CASE ~Modified(m)
    <2>1. /\ pc[m] = "status" /\ pc'[m] = "move"
          /\ UNCHANGED <<git, script, server, chan, ver, old>>
          /\ \A n \in Managers \ {m} : pc'[n] = pc[n]
      BY <1>2 DEF Status, FInv, IInv, TypeOK, Goto
    <2>2. chan[m] \in Channels
      BY <2>1, RunType DEF FInv, IInv
    <2>3. \A i \in Items : /\ clone[m].tree[chan[m]][i] \in Nat /\ work[m][chan[m]][i] \in Nat
                           /\ clone[m].tree[chan[m]][i] # 0 =>
                                clone[m].tree[chan[m]][i] = work[m][chan[m]][i]
      BY <1>2, <2>2 DEF Modified, FInv, IInv, TypeOK, Tree
    <2>4. Upward(clone[m].tree[chan[m]], work[m][chan[m]])
      BY <2>3 DEF Upward
    <2>5. ReplacingOf(m)'
      BY <2>1, <2>4 DEF ReplacingOf, Upward, git, Ahead
    <2>6. Replacing'
      BY <2>1, <2>5, OneReplaces DEF FInv, git
    <2>7. Branch' /\ Cloned' /\ Forward'
      BY <2>1, SameBranch, SameClones, StillForward DEF FInv, git, server
    <2> QED BY <2>6, <2>7 DEF FInv
  <1> QED BY <1>1, <1>2

\* The clone that pulls is behind with nothing of its own, and gets all of origin.
LEMMA PullForward == ASSUME FInv, IInv', NEW m \in Managers, Pull(m) PROVE FInv'
  <1> USE DEF Pull
  <1>1. /\ pc'[m] = "status" /\ UNCHANGED <<origin, script, server, chan, ver, old>>
        /\ \A n \in Managers \ {m} : /\ pc'[n] = pc[n] /\ work'[n] = work[n]
                                     /\ clone'[n] = clone[n]
    BY DEF FInv, IInv, TypeOK, Goto
  <1>2. Replacing'
    <2>1. ReplacingOf(m)'
      BY <1>1 DEF ReplacingOf, Ahead
    <2> QED BY <1>1, <2>1, OneReplaces DEF FInv
  <1>3. Forward'
    BY <1>1, StillForward DEF FInv
  <1>4. Branch' /\ Cloned'
    <2>1. CASE ~Behind(m)
      BY <1>1, <2>1, SameBranch, SameClones DEF FInv, server
    <2>2. CASE Behind(m)
      <3>1. /\ clone'[m].base = origin.n /\ clone'[m].tree = origin.tree /\ ~Ahead(m)'
        BY <2>2 DEF FInv, IInv, TypeOK, Ahead
      <3>2. \A n \in Managers : clone'[n] = clone[n] \/ clone'[n].tree = origin.tree
        BY <1>1, <3>1
      <3>3. PushedTrees' \subseteq PushedTrees
        BY <1>1, <3>2 DEF PushedTrees, server, Ahead
      <3>4. UpTo(origin.tree, origin'.tree)
        BY <1>1, UpToSelf DEF FInv, IInv, TypeOK
      <3>5. Branch'
        BY <3>3, <3>4, BranchGrows DEF FInv, IInv, server
      <3>6. CloneOf(m)'
        BY <1>1, <3>1 DEF FInv, IInv, TypeOK, CloneOf, Behind, Ahead
      <3>7. \A n \in Managers \ {m} : CloneOf(n)'
        BY <1>1 DEF FInv, Cloned, CloneOf, Behind, Upward, Ahead
      <3> QED BY <3>5, <3>6, <3>7 DEF Cloned
    <2> QED BY <2>1, <2>2
  <1> QED BY <1>2, <1>3, <1>4 DEF FInv

\* The steps on the channel's files.
LEMMA FilesForward ==
    ASSUME FInv, IInv', NEW m \in Managers, MoveOld(m) \/ Extract(m) \/ KeepOld(m)
    PROVE  FInv'
  <1>1. /\ UNCHANGED <<origin, clone, script, server, chan, ver>>
        /\ \A n \in Managers \ {m} : /\ pc'[n] = pc[n] /\ work'[n] = work[n] /\ old'[n] = old[n]
    BY DEF FInv, IInv, TypeOK, Goto, MoveOld, Extract, KeepOld
  <1>2. pc[m] # "idle" /\ chan[m] \in Channels /\ ver[m] \in Nat
    BY RunType DEF FInv, IInv, MoveOld, Extract, KeepOld
  <1>3. Branch' /\ Cloned' /\ Forward'
    BY <1>1, SameBranch, SameClones, StillForward DEF FInv, server
  <1>4. ReplacingOf(m)'
    <2> DEFINE c == chan[m]
               files == clone[m].tree[c]
    <2>1. CASE MoveOld(m)
      <3>1. pc[m] = "move" /\ pc'[m] = "extract" /\ old'[m] = work[m][c]
        BY <2>1 DEF MoveOld, FInv, IInv, TypeOK, Goto
      <3>2. Upward(files, work[m][c])
        BY <3>1 DEF FInv, Replacing, ReplacingOf, Ahead
      <3>3. \A i \in Items : work'[m][c][i] = 0
        BY <1>2, <2>1 DEF MoveOld, FInv, IInv, TypeOK, Tree
      <3> QED BY <1>1, <3>1, <3>2, <3>3 DEF ReplacingOf, Upward, Ahead
    <2>2. CASE Extract(m)
      <3>1. pc[m] = "extract" /\ pc'[m] = "keep" /\ old' = old
        BY <2>2 DEF Extract, FInv, IInv, TypeOK, Goto
      <3>2. Upward(files, old[m])
        BY <3>1 DEF FInv, Replacing, ReplacingOf, Ahead
      <3>3. \A i \in Items : work[m][c][i] = 0
        BY <3>1 DEF FInv, Replacing, ReplacingOf, Ahead
      <3>4. \A i \in Items : work'[m][c][i] = IF i \in Included[c][ver[m]] THEN ver[m] ELSE 0
        BY <1>2, <2>2, <3>3 DEF Extract, FInv, IInv, TypeOK, Tree
      <3> QED BY <1>1, <3>1, <3>2, <3>4 DEF ReplacingOf, Upward, Ahead
    <2>3. CASE KeepOld(m)
      <3>1. pc[m] = "keep" /\ pc'[m] = "commit" /\ work'[m][c] = Kept(work[m][c], old[m])
        BY <1>2, <2>3 DEF KeepOld, FInv, IInv, TypeOK, Tree, Goto
      <3>2. Upward(files, old[m]) /\ \A i \in Items : work[m][c][i] \in {0, ver[m]}
        BY <3>1 DEF FInv, Replacing, ReplacingOf, Ahead
      <3>3. \A i \in Items : files[i] <= ver[m]
        BY <1>2 DEF FInv, IInv, Running, Everywhere, AtMost
      <3>4. Upward(files, work'[m][c])
        BY <3>1, <3>2, <3>3 DEF Upward, Kept
      <3> QED BY <1>1, <3>1, <3>4 DEF ReplacingOf, Upward, Ahead
    <2> QED BY <2>1, <2>2, <2>3
  <1>5. Replacing'
    BY <1>1, <1>4, OneReplaces DEF FInv
  <1> QED BY <1>3, <1>5 DEF FInv

\* A commit puts the new files of the run's channel over the old ones.
LEMMA CommitForward ==
    ASSUME FInv, IInv', NEW m \in Managers, NEW items, Commit(m, items),
           pc[m] \in {"commit", "commitrest"}, pc'[m] \in {"commit", "commitrest", "push"},
           \A n \in Managers \ {m} : pc'[n] = pc[n],
           UNCHANGED <<origin, work, chan, ver, old, script, server>>
    PROVE  FInv'
  <1> DEFINE c == chan[m]
             files == [i \in Items |-> IF i \in items THEN work[m][c][i] ELSE clone[m].tree[c][i]]
             tree == [clone[m].tree EXCEPT ![c] = files]
  <1>1. c \in Channels /\ c \in ChannelsOf[m]
    BY RunType DEF FInv, IInv, Running
  <1>2. clone[m].tree \in Tree /\ work[m] \in Tree /\ files \in [Items -> Nat]
    BY <1>1 DEF FInv, IInv, TypeOK, Tree
  <1> DEFINE made == IF tree = clone[m].tree THEN clone[m].made ELSE clone[m].made \cup {tree}
             new == [base |-> clone[m].base, tree |-> tree, made |-> made]
  <1>3. /\ clone'[m].base = clone[m].base /\ clone'[m].tree = tree
        /\ Ahead(m)' <=> (Ahead(m) \/ tree # clone[m].tree)
        /\ \A n \in Managers \ {m} : clone'[n] = clone[n]
    <2>1. clone' = [clone EXCEPT ![m] = new]
      BY DEF Commit
    <2>2. new.base = clone[m].base /\ new.tree = tree /\ new.made = made
      OBVIOUS
    <2>3. made # {} <=> Ahead(m) \/ tree # clone[m].tree
      BY DEF Ahead
    <2> HIDE DEF made, new
    <2>4. clone'[m] = new /\ \A n \in Managers \ {m} : clone'[n] = clone[n]
      BY <2>1 DEF FInv, IInv, TypeOK
    <2>5. Ahead(m)' <=> made # {}
      BY <2>2, <2>4 DEF Ahead
    <2> QED BY <2>2, <2>3, <2>4, <2>5
  <1> HIDE DEF made, new
  <1>4. tree[c] = files /\ \A d \in Channels \ {c} : tree[d] = clone[m].tree[d]
    BY <1>1, <1>2 DEF Tree
  <1>5. Upward(clone[m].tree[c], files) /\ Upward(files, work[m][c])
    <2>1. Upward(clone[m].tree[c], work[m][c])
      BY DEF FInv, Replacing, ReplacingOf, Ahead
    <2> QED BY <1>1, <1>2, <2>1 DEF Upward, Tree
  <1> HIDE DEF tree, files, c
  <1>6. Branch'
    <2>1. ~Ahead(m)' => ~Ahead(m) /\ clone'[m].tree = clone[m].tree
      BY <1>3
    <2>2. PushedTrees' \subseteq PushedTrees
      BY <1>3, <2>1 DEF PushedTrees, server, Ahead
    <2>3. UpTo(origin.tree, origin'.tree)
      BY UpToSelf DEF FInv, IInv, TypeOK
    <2> QED BY <2>2, <2>3, BranchGrows DEF FInv, IInv, server
  <1>7. Cloned'
    <2>1. CloneOf(m)'
      <3>1. clone'[m].base <= origin'.n /\ Behind(m)' = Behind(m)
        BY <1>3 DEF FInv, Cloned, CloneOf, Behind, Ahead
      <3>2. ASSUME NEW d \in ChannelsOf[m], d \in Channels
            PROVE  IF Ahead(m)' THEN Upward(origin'.tree[d], clone'[m].tree[d])
                   ELSE clone'[m].tree[d] = origin'.tree[d]
        <4>1. Upward(origin.tree[d], clone[m].tree[d])
          BY <3>2, UpToSelf DEF FInv, IInv, TypeOK, Cloned, CloneOf, UpTo, Ahead
        <4>2. Upward(clone[m].tree[d], tree[d])
          BY <1>2, <1>4, <1>5, <3>2, UpToSelf DEF UpTo
        <4>3. /\ origin.tree[d] \in [Items -> Nat] /\ clone[m].tree[d] \in [Items -> Nat]
              /\ tree[d] \in [Items -> Nat]
          BY <1>2, <1>4, <3>2 DEF FInv, IInv, TypeOK, Tree
        <4>4. Upward(origin.tree[d], tree[d])
          BY <4>1, <4>2, <4>3, UpwardTrans
        <4> QED BY <1>3, <3>2, <4>4 DEF FInv, Cloned, CloneOf, Ahead
      <3>3. ASSUME NEW d \in Channels \ ChannelsOf[m], ~Behind(m)
            PROVE  clone'[m].tree[d] = origin'.tree[d]
        BY <1>1, <1>3, <1>4, <3>3 DEF FInv, Cloned, CloneOf, Ahead
      <3> QED BY <3>1, <3>2, <3>3 DEF CloneOf, Upward, Ahead
    <2>2. \A n \in Managers \ {m} : CloneOf(n)'
      BY <1>3 DEF FInv, Cloned, CloneOf, Behind, Upward, Ahead
    <2> QED BY <2>1, <2>2 DEF Cloned
  <1>8. Replacing'
    <2>1. ReplacingOf(m)'
      BY <1>3, <1>4, <1>5 DEF ReplacingOf, Upward, c, Ahead
    <2> QED BY <1>3, <2>1, OneReplaces DEF FInv
  <1>9. Forward'
    BY StillForward DEF FInv
  <1> QED BY <1>6, <1>7, <1>8, <1>9 DEF FInv

\* What is pushed comes after everything that was pushed: of other channels it is the
\* same, of the manager's own it is not older.
LEMMA PushForward == ASSUME FInv, IInv', NEW m \in Managers, Push(m) PROVE FInv'
  <1> USE DEF Push
  <1>1. /\ pc[m] = "push" /\ pc'[m] = "scp" /\ UNCHANGED <<script, server, work, chan, ver, old>>
        /\ \A n \in Managers \ {m} : pc'[n] = pc[n]
    BY DEF FInv, IInv, TypeOK, Goto
  <1>2. Forward'
    BY <1>1, StillForward DEF FInv
  <1>3. CASE ~Ahead(m)
    <2>1. Branch' /\ Cloned'
      BY <1>1, <1>3, SameBranch, SameClones DEF FInv, server
    <2>2. ReplacingOf(m)'
      BY <1>1, <1>3 DEF ReplacingOf, Ahead
    <2>3. Replacing'
      BY <1>1, <1>3, <2>2, OneReplaces DEF FInv
    <2> QED BY <1>2, <2>1, <2>3 DEF FInv
  <1>4. CASE Ahead(m)
    <2>1. /\ ~Behind(m) /\ origin'.n = origin.n + 1 /\ origin'.tree = clone[m].tree
          /\ clone'[m].base = origin'.n /\ clone'[m].tree = clone[m].tree /\ ~Ahead(m)'
          /\ \A n \in Managers \ {m} : clone'[n] = clone[n]
      <3>1. clone'[m] = [base |-> origin.n + 1, tree |-> clone[m].tree, made |-> {}]
        BY <1>4 DEF FInv, IInv, TypeOK
      <3>2. /\ clone'[m].base = origin.n + 1 /\ clone'[m].tree = clone[m].tree
            /\ clone'[m].made = {}
        BY <3>1
      <3>3. \A n \in Managers \ {m} : clone'[n] = clone[n]
        BY <1>4 DEF FInv, IInv, TypeOK
      <3>4. ~Behind(m) /\ origin'.n = origin.n + 1 /\ origin'.tree = clone[m].tree
        BY <1>4 DEF PushRefused
      <3> QED BY <3>2, <3>3, <3>4 DEF Ahead
    <2>2. \A d \in Channels : IF d \in ChannelsOf[m] THEN Upward(origin.tree[d], clone[m].tree[d])
                              ELSE clone[m].tree[d] = origin.tree[d]
      BY <1>4, <2>1 DEF FInv, Cloned, CloneOf, Ahead
    <2>3. UpTo(origin.tree, origin'.tree)
      BY <2>1, <2>2, UpToSelf DEF UpTo, FInv, IInv, TypeOK
    <2>4. Branch'
      <3>1. PushedTrees' \subseteq PushedTrees \cup {origin'.tree}
        BY <1>1, <2>1 DEF PushedTrees, server, Ahead
      <3> QED BY <2>3, <3>1, BranchGrows DEF FInv, IInv, server
    <2>5. Cloned'
      <3>1. CloneOf(m)'
        BY <2>1 DEF CloneOf, FInv, IInv, TypeOK, Ahead
      <3>2. ASSUME NEW n \in Managers \ {m} PROVE CloneOf(n)'
        <4>1. Behind(n)' /\ clone'[n].base <= origin'.n
          BY <2>1 DEF Behind, FInv, IInv, TypeOK, Cloned, CloneOf, Ahead
        <4>2. \A d \in ChannelsOf[n] : d \notin ChannelsOf[m]
          BY OwnerAssumption
        <4>3. \A d \in ChannelsOf[n] \cap Channels : origin'.tree[d] = origin.tree[d]
          BY <2>1, <2>2, <4>2
        <4> QED BY <2>1, <4>1, <4>3 DEF FInv, Cloned, CloneOf, Upward, Ahead
      <3> QED BY <3>1, <3>2 DEF Cloned
    <2>6. ReplacingOf(m)'
      BY <1>1, <2>1 DEF ReplacingOf, Ahead
    <2>7. Replacing'
      BY <1>1, <2>1, <2>6, OneReplaces DEF FInv
    <2> QED BY <1>2, <2>4, <2>5, <2>7 DEF FInv
  <1> QED BY <1>3, <1>4

\* A script gets the clone's tree, which is pushed; of the channel it is the newest.
LEMMA SendScriptForward == ASSUME FInv, IInv', NEW m \in Managers, SendScript(m) PROVE FInv'
  <1> USE DEF SendScript
  <1> DEFINE c == chan[m]
  <1>1. /\ pc[m] = "scp" /\ pc'[m] = "marker" /\ UNCHANGED <<git, server, chan, ver, old>>
        /\ \A n \in Managers \ {m} : pc'[n] = pc[n]
    BY DEF FInv, IInv, TypeOK, Goto
  <1>2. c \in Channels /\ c \in ChannelsOf[m]
    BY <1>1, RunType DEF FInv, IInv, Running
  <1>3. ~Ahead(m) /\ clone[m].tree \in PushedTrees
    BY <1>1 DEF FInv, Replacing, ReplacingOf, PushedTrees, Ahead
  <1>4. /\ script'[c].tree = clone[m].tree
        /\ \A d \in Channels \ {c} : script'[d] = script[d]
    BY <1>2 DEF UpdateResponsesCommit, FInv, IInv, TypeOK
  <1>5. clone[m].tree[c] = origin.tree[c]
    BY <1>2, <1>3 DEF FInv, Cloned, CloneOf, Ahead
  <1>6. Branch'
    <2>1. PushedTrees' \subseteq PushedTrees
      BY <1>1, <1>3, <1>4 DEF PushedTrees, git, server, Ahead
    <2>2. UpTo(origin.tree, origin'.tree)
      BY <1>1, UpToSelf DEF FInv, IInv, TypeOK, git
    <2> QED BY <2>1, <2>2, BranchGrows DEF FInv, IInv, server
  <1>7. Cloned'
    BY <1>1, SameClones DEF FInv, git
  <1>8. ReplacingOf(m)'
    BY <1>1, <1>3 DEF ReplacingOf, git, Ahead
  <1>9. Replacing'
    BY <1>1, <1>8, OneReplaces DEF FInv, git
  <1>10. ASSUME named = 0
         PROVE  \A d \in Channels : /\ Upward(head[d], script'[d].tree[d])
                                   /\ Upward(run[d].tree[d], script'[d].tree[d])
    <2>1. Upward(head[c], origin.tree[c]) /\ Upward(run[c].tree[c], origin.tree[c])
      BY <1>2, <1>10 DEF FInv, Branch, PushedTrees, UpTo, Ahead
    <2> QED BY <1>4, <1>5, <1>10, <2>1 DEF FInv, Forward, ForwardOf
  <1>11. Forward'
    BY <1>1, <1>10 DEF FInv, Forward, ForwardOf, UpTo, Upward, ChangedChannels, server
  <1> QED BY <1>6, <1>7, <1>9, <1>11 DEF FInv

LEMMA RepairForward == ASSUME FInv, IInv', NEW m \in Managers, Repair(m) PROVE FInv'
  <1>1. pc[m] = "idle" /\ UNCHANGED <<origin, local, script, server>>
    BY DEF Repair
  <1>2. \/ clone' = clone
        \/ clone' = [clone EXCEPT ![m] = [base |-> origin.n, tree |-> origin.tree, made |-> {}]]
    BY DEF Repair
  <1>3. \A n \in Managers \ {m} : clone'[n] = clone[n] /\ work'[n] = work[n]
    BY DEF Repair, FInv, IInv, TypeOK
  <1>4. ReplacingOf(m)'
    BY <1>1 DEF ReplacingOf, local, Ahead
  <1>5. Replacing' /\ Forward'
    BY <1>1, <1>3, <1>4, OneReplaces, StillForward DEF FInv, local
  <1>6. CASE clone' = clone
    BY <1>1, <1>5, <1>6, SameBranch, SameClones DEF FInv, server
  <1>7. CASE clone' # clone
    <2>1. clone'[m].base = origin.n /\ clone'[m].tree = origin.tree /\ ~Ahead(m)'
      BY <1>2, <1>7 DEF FInv, IInv, TypeOK, Ahead
    <2>2. PushedTrees' \subseteq PushedTrees
      BY <1>1, <1>3, <2>1 DEF PushedTrees, server, Ahead
    <2>3. UpTo(origin.tree, origin'.tree)
      BY <1>1, UpToSelf DEF FInv, IInv, TypeOK
    <2>4. Branch'
      BY <1>1, <2>2, <2>3, BranchGrows DEF FInv, IInv, server
    <2>5. CloneOf(m)'
      BY <1>1, <2>1 DEF FInv, IInv, TypeOK, CloneOf, Behind, Ahead
    <2>6. \A n \in Managers \ {m} : CloneOf(n)'
      BY <1>1, <1>3 DEF FInv, Cloned, CloneOf, Behind, Upward, Ahead
    <2> QED BY <1>5, <2>4, <2>5, <2>6 DEF FInv, Cloned
  <1> QED BY <1>6, <1>7

LEMMA StepForward == ASSUME FInv, IInv', NEW m \in Managers, Step(m) PROVE FInv'
  <1>1. CASE PullFails(m) \/ PushFails(m) \/ Finish(m)
    BY <1>1, StopForward DEF PullFails, PushFails, Finish
  <1>2. CASE CommitDirectory(m)
    <2>1. PICK d : Commit(m, {d})
      BY <1>2 DEF CommitDirectory
    <2> QED BY <1>2, <2>1, CommitForward DEF CommitDirectory
  <1>3. CASE CommitAndroid(m)
    <2>1. pc'[m] = "commitrest" /\ \A n \in Managers \ {m} : pc'[n] = pc[n]
      BY <1>3 DEF CommitAndroid, Goto, FInv, IInv, TypeOK
    <2> QED BY <1>3, <2>1, CommitForward DEF CommitAndroid
  <1>4. CASE CommitRest(m)
    <2>1. pc'[m] = "push" /\ \A n \in Managers \ {m} : pc'[n] = pc[n]
      BY <1>4 DEF CommitRest, Goto, FInv, IInv, TypeOK
    <2> QED BY <1>4, <2>1, CommitForward DEF CommitRest
  <1> QED BY <1>1, <1>2, <1>3, <1>4, PullForward, StatusForward, FilesForward, PushForward,
             SendScriptForward DEF Step

-----------------------------------------------------------------------------
(* The server's steps.                                                     *)

LEMMA DeployStartForward ==
    ASSUME FInv, IInv', named = 0, NEW c \in Channels, DeployStart(c)
    PROVE  FInv'
  <1> USE DEF DeployStart, Run
  <1>1. /\ run'[c].tree = script[c].tree /\ dpc'[c] = "check"
        /\ UNCHANGED <<git, local, script, head, live, named>>
        /\ \A d \in Channels \ {c} : run'[d] = run[d] /\ dpc'[d] = dpc[d]
    BY DEF FInv, IInv, TypeOK
  <1>2. Branch'
    <2>1. PushedTrees' \subseteq PushedTrees
      BY <1>1 DEF PushedTrees, git, Ahead
    <2>2. UpTo(origin.tree, origin'.tree)
      BY <1>1, UpToSelf DEF FInv, IInv, TypeOK, git
    <2> QED BY <2>1, <2>2, BranchGrows DEF FInv, IInv, server
  <1>3. Cloned' /\ Replacing'
    BY <1>1, StillReplacing DEF FInv
  <1>4. ForwardOf(c)'
    <2>1. Upward(script[c].tree[c], script[c].tree[c])
      BY UpToSelf DEF FInv, IInv, TypeOK, UpTo
    <2> QED BY <1>1, <2>1 DEF FInv, Forward, ForwardOf, Upward
  <1>5. \A d \in Channels \ {c} : ForwardOf(d)'
    BY <1>1 DEF FInv, Forward, ForwardOf, Upward, ChangedChannels
  <1>6. UpTo(live, head)'
    BY <1>1 DEF FInv, Forward, UpTo, Upward
  <1> QED BY <1>2, <1>3, <1>4, <1>5, <1>6 DEF FInv, Forward

LEMMA DeployCheckForward ==
    ASSUME FInv, IInv', named = 0, NEW c \in Channels, DeployCheck(c)
    PROVE  FInv'
  <1> USE DEF DeployCheck
  <1>1. /\ dpc[c] # "idle" /\ dpc'[c] = IF HasOtherLine(c, run[c].tree) THEN "refused" ELSE "checkout"
        /\ UNCHANGED <<git, local, script, run, head, live, named>>
        /\ \A d \in Channels \ {c} : dpc'[d] = dpc[d]
    BY DEF FInv, IInv, TypeOK
  <1>2. Branch' /\ Cloned' /\ Replacing'
    BY <1>1, SameBranch, StillReplacing DEF FInv, git
  <1>3. \A d \in Channels \ {c} : ForwardOf(d)'
    BY <1>1 DEF FInv, Forward, ForwardOf, Upward, ChangedChannels
  <1>4. ForwardOf(c)'
    BY <1>1 DEF FInv, Forward, ForwardOf, Upward, ChangedChannels, HasOtherLine
  <1>5. UpTo(live, head)'
    BY <1>1 DEF FInv, Forward, UpTo, Upward
  <1> QED BY <1>2, <1>3, <1>4, <1>5 DEF FInv, Forward

\* What is checked out is not older than what was, and two deployments are not past
\* the check together: each would have a tree without what the other brings, and
\* these are not states of one branch.
LEMMA CheckedForward ==
    ASSUME FInv, named = 0, NEW c \in Channels, dpc[c] = "checkout"
    PROVE  /\ \A d \in Channels \ {c} : head[d] = run[c].tree[d] /\ dpc[d] # "checkout"
           /\ UpTo(head, run[c].tree)
  <1>1. ASSUME NEW e \in Channels, dpc[e] = "checkout"
        PROVE  /\ \A d \in Channels \ {e} : head[d] = run[e].tree[d]
               /\ head[e] # run[e].tree[e] /\ Upward(head[e], run[e].tree[e])
    BY <1>1 DEF FInv, Forward, ForwardOf, ChangedChannels
  <1>2. UpTo(head, run[c].tree)
    <2>1. \A d \in Channels : Upward(head[d], head[d])
      BY UpToSelf DEF FInv, IInv, TypeOK, UpTo
    <2> QED BY <1>1, <2>1 DEF UpTo
  <1>3. ASSUME NEW d \in Channels \ {c}, dpc[d] = "checkout" PROVE FALSE
    <2>1. UpTo(run[c].tree, run[d].tree) \/ UpTo(run[d].tree, run[c].tree)
      BY DEF FInv, Branch, PushedTrees, Ahead
    <2>2. ASSUME NEW s \in [Items -> Nat], NEW t \in [Items -> Nat], Upward(s, t), Upward(t, s)
          PROVE  s = t
      BY <2>2 DEF Upward
    <2>3. \A e \in Channels : head[e] \in [Items -> Nat] /\ run[e].tree[e] \in [Items -> Nat]
      BY DEF FInv, IInv, TypeOK, Tree
    <2>4. head[c] = run[d].tree[c] /\ head[d] = run[c].tree[d]
      BY <1>1, <1>3
    <2>5. CASE UpTo(run[c].tree, run[d].tree)
      BY <1>1, <2>2, <2>3, <2>4, <2>5 DEF UpTo
    <2>6. CASE UpTo(run[d].tree, run[c].tree)
      BY <1>1, <1>3, <2>2, <2>3, <2>4, <2>6 DEF UpTo
    <2> QED BY <2>1, <2>5, <2>6
  <1> QED BY <1>1, <1>2, <1>3

LEMMA DeployCheckoutForward ==
    ASSUME FInv, IInv', named = 0, NEW c \in Channels, DeployCheckout(c)
    PROVE  FInv'
  <1> USE DEF DeployCheckout
  <1>1. /\ dpc[c] = "checkout" /\ dpc'[c] = "static" /\ head' = run[c].tree
        /\ UNCHANGED <<git, local, script, run, live, named>>
        /\ \A d \in Channels \ {c} : dpc'[d] = dpc[d]
    BY DEF FInv, IInv, TypeOK
  <1>2. Branch'
    <2>1. PushedTrees' \subseteq PushedTrees
      BY <1>1 DEF PushedTrees, git, Ahead
    <2>2. UpTo(origin.tree, origin'.tree)
      BY <1>1, UpToSelf DEF FInv, IInv, TypeOK, git
    <2> QED BY <2>1, <2>2, BranchGrows DEF FInv, IInv, server
  <1>3. Cloned' /\ Replacing'
    BY <1>1, StillReplacing DEF FInv
  <1>4. /\ \A d \in Channels \ {c} : head'[d] = head[d] /\ dpc[d] # "checkout"
        /\ UpTo(head, head')
    BY <1>1, CheckedForward
  <1>5. ForwardOf(c)'
    <2>1. Upward(run[c].tree[c], run[c].tree[c])
      BY UpToSelf DEF FInv, IInv, TypeOK, UpTo
    <2> QED BY <1>1, <2>1 DEF FInv, Forward, ForwardOf, Upward
  <1>6. \A d \in Channels \ {c} : ForwardOf(d)'
    BY <1>1, <1>4 DEF FInv, Forward, ForwardOf, Upward
  <1>7. UpTo(live, head)'
    <2>1. live \in Tree /\ head \in Tree /\ head' \in Tree /\ UpTo(live, head)
      BY DEF FInv, IInv, TypeOK, Forward
    <2>2. UpTo(live, head')
      BY <1>4, <2>1, UpToTrans
    <2> QED BY <1>1, <2>2 DEF UpTo, Upward
  <1> QED BY <1>2, <1>3, <1>5, <1>6, <1>7 DEF FInv, Forward

LEMMA DeployEndForward ==
    ASSUME FInv, IInv', named = 0, NEW c \in Channels,
           DeployRefused(c) \/ DeployStatic(c) \/ DeployFails(c)
    PROVE  FInv'
  <1>1. /\ UNCHANGED <<git, local, script, run, head, named>> /\ (live' = live \/ live' = head)
        /\ \A d \in Channels : dpc'[d] = dpc[d] \/ dpc'[d] = "idle"
    BY DEF FInv, IInv, TypeOK, DeployRefused, DeployStatic, DeployFails
  <1>2. Branch' /\ Cloned' /\ Replacing'
    BY <1>1, SameBranch, StillReplacing DEF FInv, git
  <1>3. \A d \in Channels : ForwardOf(d)'
    BY <1>1 DEF FInv, Forward, ForwardOf, Upward, ChangedChannels
  <1>4. UpTo(live', head)
    BY <1>1, UpToSelf DEF FInv, IInv, TypeOK, Forward
  <1> QED BY <1>1, <1>2, <1>3, <1>4 DEF FInv, Forward, UpTo, Upward

\* Once a commit has been named, it does not matter what the server does.
LEMMA ServerNamed ==
    ASSUME FInv, IInv', named' # 0, UNCHANGED <<git, local>>
    PROVE  FInv'
  BY StillReplacing DEF FInv, Branch, Forward

-----------------------------------------------------------------------------
(* Every step.                                                             *)

LEMMA NextFInv == ASSUME FInv, [Next]_vars PROVE FInv'
  <1>0. IInv'
    BY NextIInv DEF FInv
  <1>1. CASE UNCHANGED vars
    <2>1. UNCHANGED <<git, local, script, server>>
      BY <1>1 DEF vars
    <2>2. Branch' /\ Forward' /\ Cloned' /\ Replacing'
      BY <2>1, SameBranch, StillForward, StillReplacing DEF FInv, git, server
    <2> QED BY <1>0, <2>2 DEF FInv
  <1>2. CASE Terminated
    BY <1>1, <1>2 DEF Terminated
  <1>3. ASSUME NEW m \in Managers, Fail(m) PROVE FInv'
    BY <1>0, <1>3, StopForward DEF Fail
  <1>4. ASSUME NEW c \in Channels, DeployStep(c) \/ DeployFails(c) PROVE FInv'
    <2>1. CASE named = 0
      BY <1>0, <1>4, <2>1, DeployStartForward, DeployCheckForward, DeployCheckoutForward,
         DeployEndForward DEF DeployStep
    <2>2. CASE named # 0
      <3>1. UNCHANGED <<git, local, named>>
        BY <1>4 DEF DeployStep, DeployStart, Run, DeployCheck, DeployRefused, DeployCheckout,
           DeployStatic, DeployFails
      <3> QED BY <1>0, <2>2, <3>1, ServerNamed
    <2> QED BY <2>1, <2>2
  <1>5. ASSUME NEW c \in Channels, DeployNamed(c) PROVE FInv'
    <2>1. named' # 0 /\ UNCHANGED <<git, local>>
      BY <1>5 DEF DeployNamed, Run, FInv, IInv, TypeOK
    <2> QED BY <1>0, <2>1, ServerNamed
  <1> QED BY <1>0, <1>1, <1>2, <1>3, <1>4, <1>5, NewVersionForward, StartForward, StepForward,
             RepairForward DEF Next

LEMMA AlwaysFInv == Spec => []FInv
  BY InitFInv, NextFInv, PTL DEF Spec

\* Only four actions change what is pushed, approved, checked out or served.
LEMMA WhatChanges ==
    ASSUME [Next]_vars
    PROVE  \/ UNCHANGED <<origin, approved, head, live>>
           \/ \E m \in Managers : Push(m) /\ UNCHANGED <<approved, head, live>>
           \/ \E c \in Channels : /\ DeployStart(c) \/ DeployNamed(c)
                                  /\ UNCHANGED <<origin, head, live>>
           \/ \E c \in Channels : DeployCheckout(c) /\ UNCHANGED <<origin, approved, live>>
           \/ \E c \in Channels : DeployStatic(c) /\ UNCHANGED <<origin, approved, head>>
  <1>1. CASE UNCHANGED vars \/ Terminated
    BY <1>1 DEF vars, Terminated, git, server
  <1>2. ASSUME NEW m \in Managers, Start(m) \/ Fail(m) \/ Repair(m)
        PROVE  UNCHANGED <<origin, approved, head, live>>
    BY <1>2 DEF Start, Fail, Repair, git, server
  <1>3. ASSUME NEW m \in Managers, Pull(m) \/ PullFails(m) \/ Status(m) \/ MoveOld(m)
                                   \/ Extract(m) \/ KeepOld(m)
        PROVE  UNCHANGED <<origin, approved, head, live>>
    BY <1>3 DEF Pull, PullFails, Status, MoveOld, Extract, KeepOld, git, server
  <1>4. ASSUME NEW m \in Managers, CommitDirectory(m) \/ CommitAndroid(m) \/ CommitRest(m)
                                   \/ PushFails(m) \/ SendScript(m) \/ Finish(m)
        PROVE  UNCHANGED <<origin, approved, head, live>>
    BY <1>4 DEF CommitDirectory, CommitAndroid, CommitRest, PushFails, SendScript, Finish, git, server
  <1>5. ASSUME NEW m \in Managers, Push(m) PROVE UNCHANGED <<approved, head, live>>
    BY <1>5 DEF Push, server
  <1>6. ASSUME NEW c \in Channels,
               NewVersion(c) \/ DeployCheck(c) \/ DeployRefused(c) \/ DeployFails(c)
        PROVE  UNCHANGED <<origin, approved, head, live>>
    BY <1>6 DEF NewVersion, DeployCheck, DeployRefused, DeployFails, git, server
  <1>7. ASSUME NEW c \in Channels
        PROVE  DeployStart(c) \/ DeployNamed(c) => UNCHANGED <<origin, head, live>>
    BY DEF DeployStart, DeployNamed, Run, git
  <1>8. ASSUME NEW c \in Channels PROVE DeployCheckout(c) => UNCHANGED <<origin, approved, live>>
    BY DEF DeployCheckout, git
  <1>9. ASSUME NEW c \in Channels PROVE DeployStatic(c) => UNCHANGED <<origin, approved, head>>
    BY DEF DeployStatic, git
  <1>10. CASE \E m \in Managers : Start(m) \/ Step(m) \/ Fail(m) \/ Repair(m)
    <2>1. PICK m \in Managers : Start(m) \/ Step(m) \/ Fail(m) \/ Repair(m)
      BY <1>10
    <2>2. CASE Step(m)
      BY <1>3, <1>4, <1>5, <2>2 DEF Step
    <2> QED BY <1>2, <2>1, <2>2
  <1>11. CASE \E c \in Channels : NewVersion(c) \/ DeployStep(c) \/ DeployNamed(c) \/ DeployFails(c)
    BY <1>6, <1>7, <1>8, <1>9, <1>11 DEF DeployStep
  <1> QED BY <1>1, <1>10, <1>11 DEF Next

\* No step takes back what is pushed, nor, if nobody has named a commit, what is served.
LEMMA StepsForward ==
    ASSUME FInv, [Next]_vars
    PROVE  /\ UpTo(origin.tree, origin'.tree)
           /\ named = 0 => UpTo(head, head') /\ UpTo(live, live')
  <1>1. /\ origin.tree \in Tree /\ head \in Tree /\ live \in Tree
        /\ named = 0 => UpTo(live, head)
    BY DEF FInv, IInv, TypeOK, Forward
  <1>2. \/ UNCHANGED <<origin, head, live>>
        \/ \E m \in Managers : Push(m) /\ UNCHANGED <<head, live>>
        \/ \E c \in Channels : DeployCheckout(c) /\ UNCHANGED <<origin, live>>
        \/ \E c \in Channels : DeployStatic(c) /\ UNCHANGED <<origin, head>>
    BY WhatChanges
  <1>3. UpTo(head, head) /\ UpTo(live, live) /\ UpTo(origin.tree, origin.tree)
    BY <1>1, UpToSelf
  <1>4. ASSUME NEW m \in Managers, Push(m) PROVE UpTo(origin.tree, origin'.tree)
    <2>1. CASE ~Ahead(m)
      BY <1>3, <1>4, <2>1 DEF Push
    <2>2. CASE Ahead(m)
      <3>1. origin'.tree = clone[m].tree /\ ~Behind(m)
        BY <1>4, <2>2 DEF Push, PushRefused
      <3>2. \A d \in Channels : Upward(origin.tree[d], clone[m].tree[d])
        BY <1>1, <2>2, <3>1, UpToSelf DEF FInv, Cloned, CloneOf, UpTo, Ahead
      <3> QED BY <3>1, <3>2 DEF UpTo
    <2> QED BY <2>1, <2>2
  <1>5. ASSUME NEW c \in Channels, DeployCheckout(c), named = 0 PROVE UpTo(head, head')
    BY <1>5, CheckedForward DEF DeployCheckout
  <1>6. ASSUME NEW c \in Channels, DeployStatic(c), named = 0 PROVE UpTo(live, live')
    BY <1>1, <1>6 DEF DeployStatic
  <1> QED BY <1>2, <1>3, <1>4, <1>5, <1>6

\* For no platform does the version pushed ever go back, whoever else is signing or
\* deploying, wherever runs and deployments fail, and whether or not a version waits
\* for the last one to be deployed; nor does the version served, until somebody names
\* a commit to a deployment script.
THEOREM NeverBack == Spec => NothingGoesBack
  <1>1. ASSUME FInv, [Next]_vars
        PROVE  [\A c \in Channels, i \in Items :
                  /\ origin'.tree[c][i] >= origin.tree[c][i]
                  /\ named = 0 => head'[c][i] >= head[c][i] /\ live'[c][i] >= live[c][i]]_vars
    <2>1. /\ UpTo(origin.tree, origin'.tree)
          /\ named = 0 => UpTo(head, head') /\ UpTo(live, live')
      BY <1>1, StepsForward
    <2>2. /\ origin.tree \in Tree /\ origin'.tree \in Tree /\ head \in Tree /\ head' \in Tree
          /\ live \in Tree /\ live' \in Tree
      BY <1>1, NextIInv DEF FInv, IInv, TypeOK
    <2> QED BY <2>1, <2>2 DEF UpTo, Upward, Tree
  <1> QED BY <1>1, AlwaysFInv, PTL DEF Spec, NothingGoesBack

-----------------------------------------------------------------------------
(* Whole releases.                                                         *)

\* What version v brings is there.
Has(part, c, v) == \A i \in Included[c][v] : part[i] = v

\* A run commits all of its version before it pushes.
WholeRun(m) ==
    /\ pc[m] \in {"commit", "commitrest"} => Has(work[m][chan[m]], chan[m], ver[m])
    /\ pc[m] \in {"push", "scp", "marker"} => Has(clone[m].tree[chan[m]], chan[m], ver[m])

\* A script brings all of its version, and so does a deployment, if it is not of a
\* named commit.
WholeDeploy(c) ==
    /\ script[c].ver \in Versions(c) /\ Has(script[c].tree[c], c, script[c].ver)
    /\ named = 0 =>
         /\ dpc[c] # "idle" => run[c].ver \in Versions(c) /\ Has(run[c].tree[c], c, run[c].ver)
         /\ \E v \in Versions(c) : Has(head[c], c, v) /\ AtMost(head[c], v)

Whole == (\A m \in Managers : WholeRun(m)) /\ (\A c \in Channels : WholeDeploy(c))

WInv == FInv /\ Whole

LEMMA InitWInv == Init => WInv
  <1> SUFFICES ASSUME Init PROVE WInv
    OBVIOUS
  <1>1. FInv
    BY InitFInv
  <1>2. \A c \in Channels : 1 \in Versions(c) /\ Included[c][1] \subseteq Items
    BY ChannelsAssumption DEF Versions
  <1>3. \A c \in Channels : Has(FirstTree[c], c, 1) /\ AtMost(FirstTree[c], 1)
    BY <1>2 DEF FirstTree, Has, AtMost
  <1>4. Whole
    BY <1>2, <1>3 DEF Init, Whole, WholeRun, WholeDeploy
  <1> QED BY <1>1, <1>4 DEF WInv

LEMMA NextWInv == ASSUME WInv, [Next]_vars PROVE WInv'
  <1>0. FInv' /\ IInv /\ IInv' /\ FInv /\ TypeOK /\ Running
    BY NextFInv DEF WInv, FInv, IInv
  <1>1. ASSUME UNCHANGED <<script, server>> PROVE \A c \in Channels : WholeDeploy(c)'
    BY <1>1 DEF WInv, Whole, WholeDeploy, Has, AtMost, server
  <1>2. ASSUME UNCHANGED <<git, pc, chan, ver>> PROVE \A m \in Managers : WholeRun(m)'
    BY <1>2 DEF WInv, Whole, WholeRun, Has, git
  <1>3. ASSUME NEW m \in Managers, WholeRun(m)', UNCHANGED <<script, server>>,
               \A n \in Managers \ {m} : /\ pc'[n] = pc[n] /\ chan'[n] = chan[n] /\ ver'[n] = ver[n]
                                         /\ work'[n] = work[n] /\ clone'[n] = clone[n]
        PROVE  WInv'
    <2>1. \A n \in Managers \ {m} : WholeRun(n)'
      BY <1>3 DEF WInv, Whole, WholeRun, Has
    <2> QED BY <1>0, <1>1, <1>3, <2>1 DEF WInv, Whole
  <1>4. CASE UNCHANGED vars \/ Terminated \/ \E c \in Channels : NewVersion(c)
    <2>1. UNCHANGED <<git, pc, chan, ver, script, server>>
      BY <1>4 DEF vars, Terminated, NewVersion, local
    <2> QED BY <1>0, <1>1, <1>2, <2>1 DEF WInv, Whole
  <1>5. ASSUME NEW m \in Managers, Start(m) \/ Fail(m) \/ Repair(m) PROVE WInv'
    <2>1. pc'[m] \in {"idle", "pull"} /\ UNCHANGED <<script, server>>
      BY <1>0, <1>5 DEF Start, Fail, Repair, Stop, Goto, TypeOK, local
    <2>2. \A n \in Managers \ {m} : /\ pc'[n] = pc[n] /\ chan'[n] = chan[n] /\ ver'[n] = ver[n]
                                    /\ work'[n] = work[n] /\ clone'[n] = clone[n]
      BY <1>0, <1>5 DEF Start, Fail, Repair, Stop, Goto, TypeOK, local, git
    <2> QED BY <1>3, <2>1, <2>2 DEF WholeRun
  <1>6. ASSUME NEW m \in Managers, Pull(m) \/ PullFails(m) \/ Status(m) \/ MoveOld(m) \/ Extract(m)
                                   \/ PushFails(m) \/ Finish(m)
        PROVE  WInv'
    <2>1. /\ pc'[m] \in {"idle", "status", "move", "extract", "keep"} /\ UNCHANGED <<script, server>>
      BY <1>0, <1>6 DEF Pull, PullFails, Status, MoveOld, Extract, PushFails, Finish, Stop, Goto, TypeOK
    <2>2. \A n \in Managers \ {m} : /\ pc'[n] = pc[n] /\ chan'[n] = chan[n] /\ ver'[n] = ver[n]
                                    /\ work'[n] = work[n] /\ clone'[n] = clone[n]
      BY <1>0, <1>6 DEF Pull, PullFails, Status, MoveOld, Extract, PushFails, Finish, Stop, Goto,
         TypeOK, git
    <2> QED BY <1>3, <2>1, <2>2 DEF WholeRun
  <1>7. ASSUME NEW m \in Managers, KeepOld(m) PROVE WInv'
    <2>1. chan[m] \in Channels /\ ver[m] \in Versions(chan[m]) /\ pc[m] = "keep" /\ pc'[m] = "commit"
      BY <1>0, <1>7, RunType DEF KeepOld, Goto, TypeOK
    <2>2. Included[chan[m]][ver[m]] \subseteq Items /\ ver[m] # 0
      BY <2>1, ChannelsAssumption DEF Versions
    <2>3. work'[m][chan[m]] = Kept(work[m][chan[m]], old[m])
      BY <1>0, <1>7, <2>1 DEF KeepOld, TypeOK, Tree
    <2>4. \A i \in Included[chan[m]][ver[m]] : work[m][chan[m]][i] = ver[m]
      BY <1>0, <2>1, <2>2 DEF FInv, Replacing, ReplacingOf
    <2>5. Has(work'[m][chan[m]], chan[m], ver[m])
      BY <2>2, <2>3, <2>4 DEF Has, Kept
    <2>6. /\ UNCHANGED <<chan, ver, clone, script, server>>
          /\ \A n \in Managers \ {m} : pc'[n] = pc[n] /\ work'[n] = work[n]
      BY <1>0, <1>7 DEF KeepOld, Goto, TypeOK
    <2>7. WholeRun(m)'
      BY <2>1, <2>5, <2>6 DEF WholeRun, Has
    <2> QED BY <1>3, <2>6, <2>7
  <1>8. ASSUME NEW m \in Managers, CommitDirectory(m) \/ CommitAndroid(m) PROVE WInv'
    <2>1. /\ pc[m] = "commit" /\ pc'[m] \in {"commit", "commitrest"}
          /\ UNCHANGED <<work, chan, ver, script, server>>
          /\ \A n \in Managers \ {m} : pc'[n] = pc[n] /\ clone'[n] = clone[n]
      BY <1>0, <1>8 DEF CommitDirectory, CommitAndroid, Commit, Goto, TypeOK
    <2>2. WholeRun(m)'
      BY <2>1 DEF WInv, Whole, WholeRun, Has
    <2> QED BY <1>3, <2>1, <2>2
  <1>9. ASSUME NEW m \in Managers, CommitRest(m) PROVE WInv'
    <2>1. /\ pc[m] = "commitrest" /\ pc'[m] = "push" /\ UNCHANGED <<work, chan, ver, script, server>>
          /\ \A n \in Managers \ {m} : pc'[n] = pc[n] /\ clone'[n] = clone[n]
      BY <1>0, <1>9 DEF CommitRest, Commit, Goto, TypeOK
    <2>2. chan[m] \in Channels /\ ver[m] \in Versions(chan[m])
      BY <1>0, <2>1, RunType
    <2>3. Included[chan[m]][ver[m]] \subseteq Items
      BY <2>2, ChannelsAssumption
    <2>4. \A i \in Items : clone'[m].tree[chan[m]][i] = work[m][chan[m]][i]
      BY <1>0, <1>9, <2>2 DEF CommitRest, Commit, TypeOK, Tree
    <2>5. Has(work[m][chan[m]], chan[m], ver[m])
      BY <2>1 DEF WInv, Whole, WholeRun
    <2>6. WholeRun(m)'
      BY <2>1, <2>3, <2>4, <2>5 DEF WholeRun, Has
    <2> QED BY <1>3, <2>1, <2>6
  <1>10. ASSUME NEW m \in Managers, Push(m) PROVE WInv'
    <2>1. /\ pc[m] = "push" /\ pc'[m] = "scp" /\ UNCHANGED <<work, chan, ver, script, server>>
          /\ clone'[m].tree = clone[m].tree
          /\ \A n \in Managers \ {m} : pc'[n] = pc[n] /\ clone'[n] = clone[n]
      BY <1>0, <1>10 DEF Push, Goto, TypeOK
    <2>2. WholeRun(m)'
      BY <2>1 DEF WInv, Whole, WholeRun, Has
    <2> QED BY <1>3, <2>1, <2>2
  <1>11. ASSUME NEW m \in Managers, SendScript(m) PROVE WInv'
    <2> DEFINE c == chan[m]
    <2>1. /\ pc[m] = "scp" /\ pc'[m] = "marker" /\ UNCHANGED <<git, chan, ver, server>>
          /\ \A n \in Managers \ {m} : pc'[n] = pc[n]
      BY <1>0, <1>11 DEF SendScript, Goto, TypeOK
    <2>2. c \in Channels /\ ver[m] \in Versions(c)
      BY <1>0, <2>1, RunType
    <2>3. /\ script'[c].tree = clone[m].tree /\ script'[c].ver = ver[m]
          /\ \A d \in Channels \ {c} : script'[d] = script[d]
      BY <1>0, <1>11, <2>2 DEF SendScript, UpdateResponsesCommit, TypeOK
    <2>4. Has(clone[m].tree[c], c, ver[m])
      BY <2>1 DEF WInv, Whole, WholeRun
    <2>5. \A n \in Managers : WholeRun(n)'
      <3>1. WholeRun(m)'
        BY <2>1, <2>4 DEF WholeRun, Has, git
      <3>2. \A n \in Managers \ {m} : WholeRun(n)'
        BY <2>1 DEF WInv, Whole, WholeRun, Has, git
      <3> QED BY <3>1, <3>2
    <2>6. WholeDeploy(c)'
      BY <2>1, <2>2, <2>3, <2>4 DEF WInv, Whole, WholeDeploy, Has, AtMost, server
    <2>7. \A d \in Channels \ {c} : WholeDeploy(d)'
      BY <2>1, <2>3 DEF WInv, Whole, WholeDeploy, Has, AtMost, server
    <2>8. \A d \in Channels : WholeDeploy(d)'
      BY <2>1, <2>6, <2>7
    <2> QED BY <1>0, <2>5, <2>8 DEF WInv, Whole
  <1>12. ASSUME NEW c \in Channels, DeployStart(c) PROVE WInv'
    <2>1. /\ run'[c].tree = script[c].tree /\ run'[c].ver = script[c].ver
          /\ UNCHANGED <<git, local, script, head, named>>
          /\ \A d \in Channels \ {c} : run'[d] = run[d] /\ dpc'[d] = dpc[d]
      BY <1>0, <1>12 DEF DeployStart, Run, TypeOK
    <2>2. script[c].ver \in Versions(c)
      BY DEF WInv, Whole, WholeDeploy
    <2>3. WholeDeploy(c)'
      BY <2>1, <2>2 DEF WInv, Whole, WholeDeploy, Has, AtMost
    <2>4. \A d \in Channels \ {c} : WholeDeploy(d)'
      BY <2>1 DEF WInv, Whole, WholeDeploy, Has, AtMost
    <2> QED BY <1>0, <1>2, <2>1, <2>3, <2>4 DEF WInv, Whole, local
  <1>13. ASSUME NEW c \in Channels, DeployNamed(c) PROVE WInv'
    <2>1. named' # 0 /\ UNCHANGED <<git, local, script>>
      BY <1>0, <1>13 DEF DeployNamed, Run, TypeOK
    <2>2. \A d \in Channels : WholeDeploy(d)'
      BY <2>1 DEF WInv, Whole, WholeDeploy, Has
    <2> QED BY <1>0, <1>2, <2>1, <2>2 DEF WInv, Whole, local
  <1>14. ASSUME NEW c \in Channels, DeployCheckout(c) PROVE WInv'
    <2>1. /\ dpc[c] = "checkout" /\ UNCHANGED <<git, local, script, run, named>> /\ head' = run[c].tree
          /\ \A d \in Channels \ {c} : dpc'[d] = dpc[d]
      BY <1>0, <1>14 DEF DeployCheckout, TypeOK
    <2>2. named = 0 => \A d \in Channels \ {c} : head'[d] = head[d]
      BY <1>0, <2>1, CheckedForward
    <2>3. AtMost(run[c].tree[c], run[c].ver)
      BY <1>0, <2>1 DEF IInv, Deploying
    <2>4. WholeDeploy(c)'
      BY <2>1, <2>3 DEF WInv, Whole, WholeDeploy, Has, AtMost
    <2>5. \A d \in Channels \ {c} : WholeDeploy(d)'
      BY <2>1, <2>2 DEF WInv, Whole, WholeDeploy, Has, AtMost
    <2> QED BY <1>0, <1>2, <2>1, <2>4, <2>5 DEF WInv, Whole, local
  <1>15. ASSUME NEW c \in Channels,
                DeployCheck(c) \/ DeployRefused(c) \/ DeployStatic(c) \/ DeployFails(c)
         PROVE  WInv'
    <2>1. /\ UNCHANGED <<git, local, script, run, head, named>>
          /\ \A d \in Channels : dpc'[d] # "idle" => dpc[d] # "idle"
      BY <1>0, <1>15 DEF DeployCheck, DeployRefused, DeployStatic, DeployFails, TypeOK
    <2>2. \A d \in Channels : WholeDeploy(d)'
      BY <2>1 DEF WInv, Whole, WholeDeploy, Has, AtMost
    <2> QED BY <1>0, <1>2, <2>1, <2>2 DEF WInv, Whole, local
  <1> QED BY <1>4, <1>5, <1>6, <1>7, <1>8, <1>9, <1>10, <1>11, <1>12, <1>13, <1>14, <1>15
          DEF Next, Step, DeployStep

LEMMA AlwaysWInv == Spec => []WInv
  BY InitWInv, NextWInv, PTL DEF Spec

\* Until somebody names a commit, what the server has checked out for a channel is all
\* of one release and nothing of a later one, though the release was committed in
\* pieces, perhaps by several runs.
THEOREM WholeReleases == Spec => []WholeRelease
  <1>1. ASSUME WInv PROVE WholeRelease
    <2> SUFFICES ASSUME named = 0, NEW c \in Channels
                 PROVE  LET v == Max0({head[c][i] : i \in Items})
                        IN  \A i \in Included[c][v] : head[c][i] = v
      BY DEF WholeRelease
    <2>1. PICK v \in Versions(c) : Has(head[c], c, v) /\ AtMost(head[c], v)
      BY <1>1 DEF WInv, Whole, WholeDeploy
    <2>2. PICK i \in Items : head[c][i] = v
      BY <2>1, ChannelsAssumption, ReleaseAssumption DEF Has
    <2>3. \A x \in {head[c][j] : j \in Items} \cup {0} : x \in Nat /\ x <= v
      BY <1>1, <2>1 DEF WInv, FInv, IInv, TypeOK, Tree, AtMost, Versions
    <2>4. Max0({head[c][j] : j \in Items}) = v
      BY <2>1, <2>2, <2>3 DEF Max0, Versions
    <2> QED BY <2>1, <2>4 DEF Has
  <1> QED BY <1>1, AlwaysWInv, PTL

-----------------------------------------------------------------------------
(* UpdateService is implemented, if each version of a channel is deployed  *)
(* before the next one is started.  SInv is true until a commit is named;  *)
(* from then on UpdateService asks for little more than that nothing is    *)
(* served that nobody asked for.                                           *)

\* A channel's part of a tree with version v of it put over it.
Overlay(part, c, v) == [i \in Items |-> IF i \in Included[c][v] THEN v ELSE part[i]]

\* The items that the channel's newest version does not bring.
Rest(c) == Items \ Included[c][released[c]]

\* A channel has at most one version that is not deployed.
TurnsOf(c) ==
    /\ approved[c] <= script[c].ver /\ released[c] <= approved[c] + 1
    /\ done[c] <= script[c].ver
    /\ approved[c] < released[c] => Has(live[c], c, approved[c])

\* What the newest version does not bring is everywhere as it is served.
RestOf(c) ==
    \A i \in Rest(c) :
        /\ origin.tree[c][i] = live[c][i]
        /\ \A m \in Managers : c \in ChannelsOf[m] =>
             /\ clone[m].tree[c][i] = live[c][i]
             /\ live[c][i] = 0 => work[m][c][i] = 0

\* A run is for the newest version, and keeps what that does not bring.
RunOf(m) ==
    /\ pc[m] # "idle" => ver[m] = released[chan[m]] /\ done[chan[m]] < released[chan[m]]
    /\ pc[m] \in {"move", "commit", "commitrest"} =>
         \A i \in Rest(chan[m]) : work[m][chan[m]][i] = live[chan[m]][i]
    /\ pc[m] \in {"extract", "keep"} => \A i \in Rest(chan[m]) : old[m][i] = live[chan[m]][i]
    /\ pc[m] = "marker" => script[chan[m]].ver = ver[m]

\* A script for the newest version has what origin and the channel's manager have.
SentOf(c) ==
    script[c].ver = released[c] =>
        /\ origin.tree[c] = script[c].tree[c]
        /\ \A m \in Managers : c \in ChannelsOf[m] => clone[m].tree[c] = script[c].tree[c]

\* What is deployed is what is served with a version over it.
DeployOf(c) ==
    /\ script[c].tree[c] = Overlay(live[c], c, script[c].ver)
    /\ dpc[c] # "idle" =>
         run[c].ver = approved[c] /\ run[c].tree[c] = Overlay(live[c], c, approved[c])
    /\ head[c] \in {live[c], Overlay(live[c], c, approved[c])}

Turns == \A c \in Channels : TurnsOf(c)
Rests == \A c \in Channels : RestOf(c)
Runs == \A m \in Managers : RunOf(m)
Sent == \A c \in Channels : SentOf(c)
Deploys == \A c \in Channels : DeployOf(c)

SInv == WInv /\ Turns /\ Rests /\ Runs /\ Sent /\ Deploys

LEMMA InitSInv == Init => SInv
  <1> SUFFICES ASSUME Init PROVE SInv
    OBVIOUS
  <1>1. WInv
    BY InitWInv
  <1>2. \A c \in Channels : 1 \in Versions(c) /\ Included[c][1] \subseteq Items
    BY ChannelsAssumption DEF Versions
  <1>3. \A c \in Channels : /\ FirstTree[c] \in [Items -> Nat]
                            /\ FirstTree[c] = Overlay(FirstTree[c], c, 1)
    BY DEF FirstTree, Overlay
  <1>4. Turns /\ Rests /\ Runs /\ Sent
    BY DEF Init, Turns, TurnsOf, Rests, RestOf, Rest, Runs, RunOf, Sent, SentOf
  <1>5. Deploys
    BY <1>3 DEF Init, Deploys, DeployOf
  <1> QED BY <1>1, <1>4, <1>5 DEF SInv

\* The types a proof about a channel and a run needs.
LEMMA ChannelType ==
    ASSUME TypeOK, NEW c \in Channels
    PROVE  /\ released[c] \in Versions(c) /\ approved[c] \in Nat /\ done[c] \in Nat
           /\ Versions(c) \subseteq Nat \ {0} /\ script[c].ver \in Nat
           /\ \A v \in Versions(c) : Included[c][v] \subseteq Items
           /\ origin.tree[c] \in [Items -> Nat] /\ live[c] \in [Items -> Nat]
           /\ head[c] \in [Items -> Nat] /\ script[c].tree[c] \in [Items -> Nat]
           /\ \A m \in Managers : /\ clone[m].tree[c] \in [Items -> Nat]
                                  /\ work[m][c] \in [Items -> Nat]
  <1>1. /\ Latest[c] \in Nat \ {0} /\ Included[c] \in [Versions(c) -> SUBSET Items]
    BY ChannelsAssumption
  <1>2. /\ Versions(c) \subseteq Nat \ {0}
        /\ \A v \in Versions(c) : Included[c][v] \subseteq Items
    BY <1>1 DEF Versions
  <1>3. /\ released[c] \in Versions(c) /\ approved[c] \in Nat /\ done[c] \in Nat
        /\ script[c].ver \in Nat
    BY DEF TypeOK
  <1>4. /\ origin.tree \in Tree /\ live \in Tree /\ head \in Tree /\ script[c].tree \in Tree
        /\ \A m \in Managers : clone[m].tree \in Tree /\ work[m] \in Tree
    BY DEF TypeOK
  <1> QED BY <1>2, <1>3, <1>4 DEF Tree

\* Once a version is served, putting it over what is served changes nothing.
LEMMA ServedSame ==
    ASSUME NEW c \in Channels, NEW v, NEW part \in [Items -> Nat], Has(part, c, v)
    PROVE  Overlay(part, c, v) = part
  BY DEF Overlay, Has

LEMMA OverlayTwice ==
    ASSUME NEW c, NEW v, NEW part
    PROVE  Overlay(Overlay(part, c, v), c, v) = Overlay(part, c, v)
  BY DEF Overlay

\* What a channel has served and approved before its next version is approved.
LEMMA ServedOrNewest ==
    ASSUME SInv, NEW c \in Channels
    PROVE  /\ approved[c] \in Nat /\ released[c] \in Nat /\ script[c].ver \in Nat
           /\ approved[c] <= script[c].ver /\ script[c].ver <= released[c]
           /\ released[c] <= approved[c] + 1
           /\ \/ approved[c] = released[c]
              \/ Overlay(live[c], c, approved[c]) = live[c] /\ head[c] = live[c]
  <1>0. TypeOK /\ Scripts
    BY DEF SInv, WInv, FInv, IInv
  <1>1. /\ approved[c] \in Nat /\ released[c] \in Nat /\ script[c].ver \in Nat
        /\ approved[c] <= script[c].ver /\ script[c].ver <= released[c]
        /\ released[c] <= approved[c] + 1
    BY <1>0 DEF TypeOK, Scripts, SInv, Turns, TurnsOf
  <1>2. approved[c] < released[c] => Overlay(live[c], c, approved[c]) = live[c]
    BY <1>0, ChannelType, ServedSame DEF SInv, Turns, TurnsOf
  <1> QED BY <1>1, <1>2 DEF SInv, Deploys, DeployOf

-----------------------------------------------------------------------------
(* What the steps have in common.                                          *)

LEMMA StillTurns ==
    ASSUME Turns, UNCHANGED <<released, done, script, approved, live>>
    PROVE  Turns'
  BY DEF Turns, TurnsOf, Has

LEMMA StillDeploys ==
    ASSUME Deploys, UNCHANGED <<script, server>>
    PROVE  Deploys'
  BY DEF Deploys, DeployOf, Overlay, server

LEMMA StillSent ==
    ASSUME Sent, UNCHANGED <<released, origin, clone, script>>
    PROVE  Sent'
  BY DEF Sent, SentOf

LEMMA StillRests ==
    ASSUME Rests, UNCHANGED <<released, git, live>>
    PROVE  Rests'
  BY DEF Rests, RestOf, Rest, git

LEMMA StillRuns ==
    ASSUME Runs, UNCHANGED <<released, done, work, local, script, live>>
    PROVE  Runs'
  BY DEF Runs, RunOf, Rest, local

\* A run leaves the others alone.
LEMMA OneRuns ==
    ASSUME Runs, NEW m \in Managers, RunOf(m)', UNCHANGED <<released, done, script, live>>,
           \A n \in Managers \ {m} :
               /\ pc'[n] = pc[n] /\ chan'[n] = chan[n] /\ ver'[n] = ver[n] /\ old'[n] = old[n]
               /\ work'[n] = work[n]
    PROVE  Runs'
  BY DEF Runs, RunOf, Rest

\* A run that does nothing to git, and does not come to where its files are compared.
LEMMA QuietRun ==
    ASSUME SInv, WInv', NEW m \in Managers, UNCHANGED <<released, done, git, script, server>>,
           \A n \in Managers \ {m} :
               pc'[n] = pc[n] /\ chan'[n] = chan[n] /\ ver'[n] = ver[n] /\ old'[n] = old[n],
           \/ pc'[m] = "idle"
           \/ /\ pc'[m] \in {"pull", "status"}
              /\ ver'[m] = released[chan'[m]] /\ done[chan'[m]] < released[chan'[m]]
    PROVE  SInv'
  <1>1. Turns' /\ Deploys' /\ Sent' /\ Rests'
    BY StillTurns, StillDeploys, StillSent, StillRests DEF SInv, git, server
  <1>2. RunOf(m)'
    BY DEF RunOf
  <1>3. Runs'
    BY <1>2, OneRuns DEF SInv, git, server
  <1> QED BY <1>1, <1>3 DEF SInv

LEMMA StopRun ==
    ASSUME SInv, WInv', NEW m \in Managers, Stop(m), UNCHANGED <<released, done, git, script, server>>
    PROVE  SInv'
  BY StopQuiet, QuietRun DEF SInv, WInv, FInv, IInv

-----------------------------------------------------------------------------
(* The managers' steps.                                                    *)

\* A new version is built when the last one is approved and served.
LEMMA NewVersionTurn ==
    ASSUME SInv, WInv', DeployFirst, NEW c \in Channels, NewVersion(c)
    PROVE  SInv'
  <1> USE DEF NewVersion
  <1>0. TypeOK /\ IInv
    BY DEF SInv, WInv, FInv, IInv
  <1>1. /\ released'[c] = released[c] + 1 /\ \A d \in Channels \ {c} : released'[d] = released[d]
        /\ UNCHANGED <<done, git, local, script, server>>
        /\ done[c] = released[c] /\ live[c] = script[c].tree[c]
    BY <1>0 DEF TypeOK
  <1>2. script[c].ver = released[c]
    <2>1. done[c] <= script[c].ver
      BY DEF SInv, Turns, TurnsOf
    <2> QED BY <1>1, <2>1, ServedOrNewest
  <1>3. Has(live[c], c, released[c])
    BY <1>1, <1>2 DEF SInv, WInv, Whole, WholeDeploy
  <1>4. approved[c] = released[c]
    <2>1. PICK i \in Items : live[c][i] = released[c]
      BY <1>0, <1>3, ChannelType, ReleaseAssumption DEF Has
    <2>2. released[c] <= approved[c]
      BY <1>0, <2>1 DEF IInv, NothingUnapproved
    <2>3. approved[c] \in Nat /\ released[c] \in Nat
      BY <1>0 DEF TypeOK
    <2>4. approved[c] <= script[c].ver
      BY DEF SInv, Turns, TurnsOf
    <2> QED BY <1>2, <2>2, <2>3, <2>4
  <1>5. Turns'
    <2>1. TurnsOf(c)'
      BY <1>0, <1>1, <1>2, <1>3, <1>4, ChannelType DEF TurnsOf, Has, server
    <2>2. \A d \in Channels \ {c} : TurnsOf(d)'
      BY <1>1 DEF SInv, Turns, TurnsOf, Has, server
    <2> QED BY <2>1, <2>2 DEF Turns
  <1>6. Sent'
    <2>1. script'[c].ver # released'[c]
      BY <1>0, <1>1, <1>2, ChannelType
    <2> QED BY <1>1, <2>1 DEF SInv, Sent, SentOf, git
  <1>7. Rests'
    <2>1. ASSUME NEW i \in Items
          PROVE  /\ origin.tree[c][i] = live[c][i]
                 /\ \A m \in Managers : c \in ChannelsOf[m] =>
                      clone[m].tree[c][i] = live[c][i] /\ (live[c][i] = 0 => work[m][c][i] = 0)
      <3>1. CASE i \in Rest(c)
        BY <3>1 DEF SInv, Rests, RestOf
      <3>2. CASE i \in Included[c][released[c]]
        <4>1. live[c][i] # 0
          BY <1>0, <1>3, <3>2, ChannelType DEF Has
        <4> QED BY <1>1, <1>2, <4>1 DEF SInv, Sent, SentOf
      <3> QED BY <3>1, <3>2 DEF Rest
    <2>2. RestOf(c)'
      BY <1>1, <2>1 DEF RestOf, Rest, git, server
    <2>3. \A d \in Channels \ {c} : RestOf(d)'
      BY <1>1 DEF SInv, Rests, RestOf, Rest, git, server
    <2> QED BY <2>2, <2>3 DEF Rests
  <1>8. Runs'
    <2> SUFFICES ASSUME NEW m \in Managers PROVE RunOf(m)'
      BY DEF Runs
    <2>1. CASE pc[m] = "idle"
      BY <1>1, <2>1 DEF RunOf, local
    <2>2. CASE pc[m] # "idle"
      <3>1. chan[m] \in Channels /\ chan[m] # c
        BY <1>0, <1>1, <2>2, RunType, ChannelType DEF IInv, SInv, Runs, RunOf
      <3> QED BY <1>1, <3>1 DEF SInv, Runs, RunOf, Rest, local, git, server
    <2> QED BY <2>1, <2>2
  <1>9. Deploys'
    BY <1>1, StillDeploys DEF SInv
  <1> QED BY <1>5, <1>6, <1>7, <1>8, <1>9 DEF SInv

LEMMA StartTurn == ASSUME SInv, WInv', NEW m \in Managers, Start(m) PROVE SInv'
  <1>0. TypeOK
    BY DEF SInv, WInv, FInv, IInv
  <1>1. /\ pc'[m] = "pull" /\ UNCHANGED <<released, done, git, script, server, old>>
        /\ ver'[m] = released[chan'[m]] /\ done[chan'[m]] < released[chan'[m]]
    BY <1>0 DEF Start, TypeOK, Goto
  <1>2. \A n \in Managers \ {m} : pc'[n] = pc[n] /\ chan'[n] = chan[n] /\ ver'[n] = ver[n]
    BY <1>0 DEF Start, TypeOK, Goto
  <1> QED BY <1>1, <1>2, QuietRun

\* A file git does not know cannot be one that the new version does not bring.
LEMMA StatusTurn == ASSUME SInv, WInv', NEW m \in Managers, Status(m) PROVE SInv'
  <1>0. TypeOK /\ Running
    BY DEF SInv, WInv, FInv, IInv
  <1>1. CASE Modified(m)
    BY <1>1, StopRun DEF Status
  <1>2. CASE ~Modified(m)
    <2>1. /\ pc[m] = "status" /\ pc'[m] = "move"
          /\ UNCHANGED <<released, done, git, script, server, chan, ver, old>>
          /\ \A n \in Managers \ {m} : pc'[n] = pc[n]
      BY <1>0, <1>2 DEF Status, TypeOK, Goto
    <2>2. chan[m] \in Channels /\ chan[m] \in ChannelsOf[m]
      BY <1>0, <2>1, RunType DEF Running
    <2>3. \A i \in Items : clone[m].tree[chan[m]][i] # 0 =>
                             clone[m].tree[chan[m]][i] = work[m][chan[m]][i]
      BY <1>2, <2>2 DEF Modified
    <2>4. \A i \in Rest(chan[m]) : work[m][chan[m]][i] = live[chan[m]][i]
      BY <2>2, <2>3 DEF SInv, Rests, RestOf, Rest
    <2>5. RunOf(m)'
      BY <2>1, <2>4 DEF SInv, Runs, RunOf, Rest, git, server
    <2>6. Runs'
      BY <2>1, <2>5, OneRuns DEF SInv, git, server
    <2>7. Turns' /\ Deploys' /\ Sent' /\ Rests'
      BY <2>1, StillTurns, StillDeploys, StillSent, StillRests DEF SInv, git, server
    <2> QED BY <2>6, <2>7 DEF SInv
  <1> QED BY <1>1, <1>2

LEMMA PullTurn == ASSUME SInv, WInv', NEW m \in Managers, Pull(m) PROVE SInv'
  <1> USE DEF Pull
  <1>0. TypeOK /\ TypeOK' /\ Cloned'
    BY DEF SInv, WInv, FInv, IInv
  <1>1. /\ pc[m] = "pull" /\ pc'[m] = "status"
        /\ UNCHANGED <<released, done, origin, script, server, chan, ver, old>>
        /\ \A n \in Managers \ {m} : pc'[n] = pc[n] /\ work'[n] = work[n] /\ clone'[n] = clone[n]
    BY <1>0 DEF TypeOK, Goto
  <1>2. clone'[m] = clone[m] \/ clone'[m].tree = origin.tree
    BY <1>0 DEF TypeOK
  <1>3. \A d \in Channels, i \in Items : work'[m][d][i] = work[m][d][i] \/ work'[m][d][i] = origin.tree[d][i]
    BY <1>0 DEF TypeOK
  <1>4. Rests'
    <2> SUFFICES ASSUME NEW d \in Channels PROVE RestOf(d)'
      BY DEF Rests
    <2>1. RestOf(d) /\ Rest(d) \subseteq Items
      BY DEF SInv, Rests, Rest
    <2> QED BY <1>1, <1>2, <1>3, <2>1 DEF RestOf, Rest, server
  <1>5. Sent'
    BY <1>1, <1>2 DEF SInv, Sent, SentOf
  <1>6. RunOf(m)'
    BY <1>1 DEF SInv, Runs, RunOf
  <1>7. Runs'
    BY <1>1, <1>6, OneRuns DEF SInv, server
  <1>8. Turns' /\ Deploys'
    BY <1>1, StillTurns, StillDeploys DEF SInv, server
  <1> QED BY <1>4, <1>5, <1>7, <1>8 DEF SInv

\* The steps on the channel's files.
LEMMA FilesTurn ==
    ASSUME SInv, WInv', NEW m \in Managers, MoveOld(m) \/ Extract(m) \/ KeepOld(m)
    PROVE  SInv'
  <1>0. TypeOK /\ Running
    BY DEF SInv, WInv, FInv, IInv
  <1>1. /\ UNCHANGED <<released, done, origin, clone, script, server, chan, ver>>
        /\ \A n \in Managers \ {m} : pc'[n] = pc[n] /\ work'[n] = work[n] /\ old'[n] = old[n]
    BY <1>0 DEF TypeOK, Goto, MoveOld, Extract, KeepOld
  <1>2. PICK c : c = chan[m]
    OBVIOUS
  <1>3. pc[m] # "idle" /\ c \in Channels /\ c \in ChannelsOf[m] /\ ver[m] = released[c]
    BY <1>0, <1>2, RunType DEF Running, MoveOld, Extract, KeepOld, SInv, Runs, RunOf
  <1>4. \A d \in Channels \ {c} : work'[m][d] = work[m][d]
    BY <1>0, <1>2, <1>3 DEF MoveOld, Extract, KeepOld, TypeOK, Tree
  <1>5. /\ RunOf(m)'
        /\ \A i \in Rest(c) : live[c][i] = 0 => work'[m][c][i] = 0
    <2>1. CASE MoveOld(m)
      <3>1. pc[m] = "move" /\ pc'[m] = "extract" /\ old'[m] = work[m][c]
        BY <1>0, <1>2, <2>1 DEF MoveOld, TypeOK, Goto
      <3>2. \A i \in Items : work'[m][c][i] = 0
        BY <1>0, <1>2, <1>3, <2>1 DEF MoveOld, TypeOK, Tree
      <3> QED BY <1>1, <1>2, <3>1, <3>2 DEF SInv, Runs, RunOf, Rest, server
    <2>2. CASE Extract(m)
      <3>1. pc[m] = "extract" /\ pc'[m] = "keep" /\ old' = old
        BY <1>0, <2>2 DEF Extract, TypeOK, Goto
      <3>2. \A i \in Items : work[m][c][i] = 0
        BY <1>2, <3>1 DEF SInv, WInv, FInv, Replacing, ReplacingOf
      <3>3. \A i \in Rest(c) : work'[m][c][i] = 0
        BY <1>0, <1>2, <1>3, <2>2, <3>2 DEF Extract, TypeOK, Tree, Rest
      <3> QED BY <1>1, <1>2, <3>1, <3>3 DEF SInv, Runs, RunOf, Rest, server
    <2>3. CASE KeepOld(m)
      <3>1. pc[m] = "keep" /\ pc'[m] = "commit" /\ work'[m][c] = Kept(work[m][c], old[m])
        BY <1>0, <1>2, <1>3, <2>3 DEF KeepOld, TypeOK, Tree, Goto
      <3>2. \A i \in Rest(c) : work[m][c][i] = 0
        BY <1>2, <1>3, <3>1 DEF SInv, WInv, FInv, Replacing, ReplacingOf, Rest
      <3>3. \A i \in Rest(c) : old[m][i] = live[c][i]
        BY <1>2, <3>1 DEF SInv, Runs, RunOf
      <3>4. \A i \in Rest(c) : work'[m][c][i] = live[c][i]
        BY <3>1, <3>2, <3>3 DEF Kept, Rest
      <3> QED BY <1>1, <1>2, <3>1, <3>4 DEF SInv, Runs, RunOf, Rest, server
    <2> QED BY <2>1, <2>2, <2>3
  <1>6. Rests'
    <2> SUFFICES ASSUME NEW d \in Channels PROVE RestOf(d)'
      BY DEF Rests
    <2>1. RestOf(d)
      BY DEF SInv, Rests
    <2> QED BY <1>1, <1>4, <1>5, <2>1 DEF RestOf, Rest, server
  <1>7. Runs'
    BY <1>1, <1>5, OneRuns DEF SInv, server
  <1>8. Turns' /\ Deploys' /\ Sent'
    BY <1>1, StillTurns, StillDeploys, StillSent DEF SInv, server
  <1> QED BY <1>6, <1>7, <1>8 DEF SInv

\* A commit changes nothing that the newest version does not bring, and nothing at
\* all once the script for it was sent.
LEMMA CommitTurn ==
    ASSUME SInv, WInv', NEW m \in Managers, NEW items, Commit(m, items),
           pc[m] \in {"commit", "commitrest"}, pc'[m] \in {"commit", "commitrest", "push"},
           \A n \in Managers \ {m} : pc'[n] = pc[n],
           UNCHANGED <<released, done, origin, work, chan, ver, old, script, server>>
    PROVE  SInv'
  <1>0. TypeOK /\ Running
    BY DEF SInv, WInv, FInv, IInv
  <1>1. PICK c : c = chan[m]
    OBVIOUS
  <1>2. c \in Channels /\ c \in ChannelsOf[m] /\ ver[m] = released[c]
    BY <1>0, <1>1, RunType DEF Running, SInv, Runs, RunOf
  <1>3. /\ \A n \in Managers \ {m} : clone'[n] = clone[n]
        /\ \A d \in Channels \ {c} : clone'[m].tree[d] = clone[m].tree[d]
        /\ clone'[m].tree[c] =
             [i \in Items |-> IF i \in items THEN work[m][c][i] ELSE clone[m].tree[c][i]]
    BY <1>0, <1>1, <1>2 DEF Commit, TypeOK, Tree
  <1>4. \A i \in Rest(c) : work[m][c][i] = live[c][i] /\ clone[m].tree[c][i] = live[c][i]
    BY <1>1, <1>2 DEF SInv, Runs, RunOf, Rests, RestOf
  <1>5. Rests'
    <2>1. RestOf(c)'
      BY <1>2, <1>3, <1>4 DEF SInv, Rests, RestOf, Rest, server
    <2>2. \A d \in Channels \ {c} : RestOf(d)'
      BY <1>3 DEF SInv, Rests, RestOf, Rest, server
    <2> QED BY <2>1, <2>2 DEF Rests
  <1>6. script[c].ver = released[c] => clone'[m].tree[c] = clone[m].tree[c]
    <2> SUFFICES ASSUME script[c].ver = released[c] PROVE clone'[m].tree[c] = clone[m].tree[c]
      OBVIOUS
    <2>1. clone[m].tree[c] = script[c].tree[c] /\ clone[m].tree[c] \in [Items -> Nat]
      BY <1>0, <1>2, ChannelType DEF SInv, Sent, SentOf
    <2>2. \A i \in Included[c][released[c]] : clone[m].tree[c][i] = released[c]
      BY <1>2, <2>1 DEF SInv, WInv, Whole, WholeDeploy, Has
    <2>3. \A i \in Included[c][released[c]] : work[m][c][i] = released[c]
      BY <1>1, <1>2 DEF SInv, WInv, Whole, WholeRun, Has
    <2>4. \A i \in Items : work[m][c][i] = clone[m].tree[c][i]
      BY <1>4, <2>2, <2>3 DEF Rest
    <2> QED BY <1>3, <2>1, <2>4
  <1>7. Sent'
    BY <1>3, <1>6 DEF SInv, Sent, SentOf
  <1>8. RunOf(m)'
    BY DEF SInv, Runs, RunOf, Rest, server
  <1>9. Runs'
    BY <1>8, OneRuns DEF SInv, server
  <1>10. Turns' /\ Deploys'
    BY StillTurns, StillDeploys DEF SInv, server
  <1> QED BY <1>5, <1>7, <1>9, <1>10 DEF SInv

LEMMA PushTurn == ASSUME SInv, WInv', NEW m \in Managers, Push(m) PROVE SInv'
  <1> USE DEF Push
  <1>0. TypeOK
    BY DEF SInv, WInv, FInv, IInv
  <1>1. /\ pc[m] = "push" /\ pc'[m] = "scp"
        /\ UNCHANGED <<released, done, work, script, server, chan, ver, old>>
        /\ \A n \in Managers \ {m} : pc'[n] = pc[n] /\ clone'[n] = clone[n]
        /\ clone'[m].tree = clone[m].tree
    BY <1>0 DEF TypeOK, Goto
  <1>2. \A d \in Channels : origin'.tree[d] = IF d \in ChannelsOf[m] THEN clone[m].tree[d] ELSE origin.tree[d]
    <2>1. CASE Ahead(m)
      BY <2>1 DEF PushRefused, SInv, WInv, FInv, Cloned, CloneOf
    <2>2. CASE ~Ahead(m)
      BY <2>2 DEF SInv, WInv, FInv, Cloned, CloneOf
    <2> QED BY <2>1, <2>2
  <1>3. Rests'
    BY <1>1, <1>2 DEF SInv, Rests, RestOf, Rest, server
  <1>4. Sent'
    BY <1>1, <1>2 DEF SInv, Sent, SentOf
  <1>5. RunOf(m)'
    BY <1>1 DEF SInv, Runs, RunOf
  <1>6. Runs'
    BY <1>1, <1>5, OneRuns DEF SInv, server
  <1>7. Turns' /\ Deploys'
    BY <1>1, StillTurns, StillDeploys DEF SInv, server
  <1> QED BY <1>3, <1>4, <1>6, <1>7 DEF SInv

LEMMA SendScriptTurn == ASSUME SInv, WInv', NEW m \in Managers, SendScript(m) PROVE SInv'
  <1> USE DEF SendScript
  <1>0. TypeOK /\ Running
    BY DEF SInv, WInv, FInv, IInv
  <1>1. /\ pc[m] = "scp" /\ pc'[m] = "marker"
        /\ UNCHANGED <<released, done, git, server, chan, ver, old>>
        /\ \A n \in Managers \ {m} : pc'[n] = pc[n]
    BY <1>0 DEF TypeOK, Goto
  <1>2. PICK c : c = chan[m]
    OBVIOUS
  <1>3. c \in Channels /\ c \in ChannelsOf[m] /\ ver[m] = released[c]
    BY <1>0, <1>1, <1>2, RunType DEF Running, SInv, Runs, RunOf
  <1>4. /\ script'[c].tree = clone[m].tree /\ script'[c].ver = released[c]
        /\ \A d \in Channels \ {c} : script'[d] = script[d]
    BY <1>0, <1>2, <1>3 DEF TypeOK, UpdateResponsesCommit
  <1>5. clone[m].tree[c] = origin.tree[c]
    BY <1>1, <1>3 DEF SInv, WInv, FInv, Replacing, ReplacingOf, Cloned, CloneOf
  <1>6. clone[m].tree[c] = Overlay(live[c], c, released[c])
    <2>1. clone[m].tree[c] \in [Items -> Nat]
      BY <1>0, <1>3, ChannelType
    <2>2. \A i \in Included[c][released[c]] : clone[m].tree[c][i] = released[c]
      BY <1>1, <1>2, <1>3 DEF SInv, WInv, Whole, WholeRun, Has
    <2>3. \A i \in Rest(c) : clone[m].tree[c][i] = live[c][i]
      BY <1>3 DEF SInv, Rests, RestOf
    <2> QED BY <2>1, <2>2, <2>3 DEF Overlay, Rest
  <1>7. Turns'
    <2>1. approved[c] <= released[c] /\ done[c] <= released[c]
      BY <1>0, <1>3, ServedOrNewest DEF TypeOK
    <2>2. TurnsOf(c)'
      <3>1. UNCHANGED <<released, done, approved, live>> /\ script'[c].ver = released[c]
        BY <1>1, <1>4 DEF server
      <3>2. TurnsOf(c)
        BY <1>3 DEF SInv, Turns
      <3> QED BY <2>1, <3>1, <3>2 DEF TurnsOf, Has
    <2>3. \A d \in Channels \ {c} : TurnsOf(d)'
      BY <1>1, <1>4 DEF SInv, Turns, TurnsOf, Has, server
    <2> QED BY <2>2, <2>3 DEF Turns
  <1>8. Deploys'
    <2>1. \A d \in Channels : script'[d].tree[d] = Overlay(live[d], d, script'[d].ver)
      BY <1>4, <1>6 DEF SInv, Deploys, DeployOf
    <2> SUFFICES ASSUME NEW d \in Channels PROVE DeployOf(d)'
      BY DEF Deploys
    <2>2. DeployOf(d)
      BY DEF SInv, Deploys
    <2>3. UNCHANGED <<run, dpc, approved, head, live>>
      BY <1>1 DEF server
    <2>4. (script[d].tree[d] = Overlay(live[d], d, script[d].ver))'
      BY <2>1, <2>3 DEF Overlay
    <2> QED BY <2>2, <2>3, <2>4 DEF DeployOf, Overlay
  <1>9. Sent'
    <2>1. \A n \in Managers : c \in ChannelsOf[n] => n = m
      BY <1>3, OwnerAssumption
    <2>2. SentOf(c)'
      BY <1>1, <1>4, <1>5, <2>1 DEF SentOf, git
    <2>3. \A d \in Channels \ {c} : SentOf(d)'
      BY <1>1, <1>4 DEF SInv, Sent, SentOf, git
    <2> QED BY <2>2, <2>3 DEF Sent
  <1>10. Rests'
    BY <1>1, StillRests DEF SInv, server
  <1>11. Runs'
    <2>1. RunOf(m)'
      BY <1>1, <1>2, <1>3, <1>4 DEF SInv, Runs, RunOf
    <2>2. ASSUME NEW n \in Managers \ {m} PROVE RunOf(n)'
      <3>1. pc[n] = "marker" => chan[n] \in Channels /\ chan[n] # c
        BY <1>0, <1>1, <1>2, RunType, OneRun
      <3> QED BY <1>1, <1>4, <3>1 DEF SInv, Runs, RunOf, Rest, git, server
    <2> QED BY <2>1, <2>2 DEF Runs
  <1> QED BY <1>7, <1>8, <1>9, <1>10, <1>11 DEF SInv

LEMMA FinishTurn == ASSUME SInv, WInv', NEW m \in Managers, Finish(m) PROVE SInv'
  <1> USE DEF Finish
  <1>0. TypeOK /\ Running
    BY DEF SInv, WInv, FInv, IInv
  <1>1. /\ pc[m] = "marker" /\ pc'[m] = "idle" /\ UNCHANGED <<released, git, script, server>>
        /\ \A n \in Managers \ {m} : /\ pc'[n] = pc[n] /\ chan'[n] = chan[n]
                                     /\ ver'[n] = ver[n] /\ old'[n] = old[n]
    BY <1>0, StopQuiet
  <1>2. PICK c : c = chan[m]
    OBVIOUS
  <1>3. c \in Channels /\ script[c].ver = ver[m]
    BY <1>0, <1>1, <1>2, RunType DEF SInv, Runs, RunOf
  <1>4. done'[c] = ver[m] /\ \A d \in Channels \ {c} : done'[d] = done[d]
    BY <1>0, <1>2, <1>3 DEF TypeOK
  <1>5. Turns'
    <2>1. done'[c] <= script'[c].ver
      BY <1>0, <1>1, <1>3, <1>4 DEF TypeOK
    <2> QED BY <1>1, <1>4, <2>1 DEF SInv, Turns, TurnsOf, Has, server
  <1>6. Runs'
    <2>1. RunOf(m)'
      BY <1>1 DEF RunOf
    <2>2. ASSUME NEW n \in Managers \ {m} PROVE RunOf(n)'
      <3>1. pc[n] # "idle" => chan[n] \in Channels /\ chan[n] # c
        BY <1>0, <1>1, <1>2, RunType, OneRun
      <3> QED BY <1>1, <1>4, <3>1 DEF SInv, Runs, RunOf, Rest, git, server
    <2> QED BY <2>1, <2>2 DEF Runs
  <1>7. Sent' /\ Deploys' /\ Rests'
    BY <1>1, StillSent, StillDeploys, StillRests DEF SInv, git, server
  <1> QED BY <1>5, <1>6, <1>7 DEF SInv

LEMMA RepairTurn == ASSUME SInv, WInv', NEW m \in Managers, Repair(m) PROVE SInv'
  <1>0. TypeOK
    BY DEF SInv, WInv, FInv, IInv
  <1>1. pc[m] = "idle" /\ UNCHANGED <<released, done, origin, local, script, server>>
    BY DEF Repair
  <1>2. /\ \A n \in Managers \ {m} : clone'[n] = clone[n] /\ work'[n] = work[n]
        /\ clone'[m] = clone[m] \/ clone'[m].tree = origin.tree
    BY <1>0 DEF Repair, TypeOK
  <1>3. \A d \in Channels, i \in Items :
          work'[m][d][i] \in {work[m][d][i], origin.tree[d][i], clone[m].tree[d][i]}
    BY <1>0 DEF Repair, TypeOK
  <1>4. Rests'
    <2> SUFFICES ASSUME NEW d \in Channels PROVE RestOf(d)'
      BY DEF Rests
    <2>1. RestOf(d) /\ Rest(d) \subseteq Items
      BY DEF SInv, Rests, Rest
    <2> QED BY <1>1, <1>2, <1>3, <2>1 DEF RestOf, Rest, server
  <1>5. Sent'
    BY <1>1, <1>2 DEF SInv, Sent, SentOf
  <1>6. RunOf(m)'
    BY <1>1 DEF RunOf, local
  <1>7. Runs'
    BY <1>1, <1>2, <1>6, OneRuns DEF SInv, local, server
  <1>8. Turns' /\ Deploys'
    BY <1>1, StillTurns, StillDeploys DEF SInv, server
  <1> QED BY <1>4, <1>5, <1>7, <1>8 DEF SInv

LEMMA StepTurn == ASSUME SInv, WInv', NEW m \in Managers, Step(m) PROVE SInv'
  <1>0. TypeOK
    BY DEF SInv, WInv, FInv, IInv
  <1>1. CASE PullFails(m) \/ PushFails(m)
    BY <1>1, StopRun DEF PullFails, PushFails
  <1>2. CASE CommitDirectory(m)
    <2>1. PICK d : Commit(m, {d})
      BY <1>2 DEF CommitDirectory
    <2> QED BY <1>2, <2>1, CommitTurn DEF CommitDirectory
  <1>3. CASE CommitAndroid(m)
    <2>1. pc'[m] = "commitrest" /\ \A n \in Managers \ {m} : pc'[n] = pc[n]
      BY <1>0, <1>3 DEF CommitAndroid, Goto, TypeOK
    <2> QED BY <1>3, <2>1, CommitTurn DEF CommitAndroid
  <1>4. CASE CommitRest(m)
    <2>1. pc'[m] = "push" /\ \A n \in Managers \ {m} : pc'[n] = pc[n]
      BY <1>0, <1>4 DEF CommitRest, Goto, TypeOK
    <2> QED BY <1>4, <2>1, CommitTurn DEF CommitRest
  <1> QED BY <1>1, <1>2, <1>3, <1>4, PullTurn, StatusTurn, FilesTurn, PushTurn,
             SendScriptTurn, FinishTurn DEF Step

-----------------------------------------------------------------------------
(* The server's steps.                                                     *)

LEMMA DeployStartTurn == ASSUME SInv, WInv', NEW c \in Channels, DeployStart(c) PROVE SInv'
  <1> USE DEF DeployStart, Run
  <1>0. TypeOK
    BY DEF SInv, WInv, FInv, IInv
  <1>1. /\ approved'[c] = script[c].ver /\ dpc'[c] = "check"
        /\ run'[c].tree = script[c].tree /\ run'[c].ver = script[c].ver
        /\ \A d \in Channels \ {c} : /\ approved'[d] = approved[d] /\ run'[d] = run[d]
                                     /\ dpc'[d] = dpc[d]
        /\ UNCHANGED <<released, done, git, local, script, head, live>>
    <2>1. script[c].ver > approved[c] \/ script[c].ver = approved[c]
      BY ServedOrNewest
    <2>2. approved' = [approved EXCEPT ![c] = script[c].ver]
      BY <2>1
    <2> QED BY <1>0, <2>2 DEF TypeOK
  <1>2. approved'[c] = approved[c] \/ approved'[c] = released[c]
    BY <1>1, ServedOrNewest
  <1>3. Turns'
    <2>1. TurnsOf(c)'
      BY <1>1, <1>2, ServedOrNewest DEF SInv, Turns, TurnsOf, Has
    <2>2. \A d \in Channels \ {c} : TurnsOf(d)'
      BY <1>1 DEF SInv, Turns, TurnsOf, Has
    <2> QED BY <2>1, <2>2 DEF Turns
  <1>4. Deploys'
    <2>1. head[c] \in {live[c], Overlay(live[c], c, script[c].ver)}
      <3>1. head[c] = live[c] \/ script[c].ver = approved[c]
        BY ServedOrNewest
      <3> QED BY <3>1 DEF SInv, Deploys, DeployOf
    <2>2. DeployOf(c)'
      BY <1>1, <2>1 DEF SInv, Deploys, DeployOf, Overlay
    <2>3. \A d \in Channels \ {c} : DeployOf(d)'
      BY <1>1 DEF SInv, Deploys, DeployOf, Overlay
    <2> QED BY <2>2, <2>3 DEF Deploys
  <1>5. Sent' /\ Rests' /\ Runs'
    BY <1>1, StillSent, StillRests, StillRuns DEF SInv, git
  <1> QED BY <1>3, <1>4, <1>5 DEF SInv

LEMMA DeployCheckoutTurn ==
    ASSUME SInv, WInv', named = 0, NEW c \in Channels, DeployCheckout(c)
    PROVE  SInv'
  <1> USE DEF DeployCheckout
  <1>0. TypeOK /\ FInv
    BY DEF SInv, WInv, FInv, IInv
  <1>1. /\ dpc[c] = "checkout" /\ dpc'[c] = "static" /\ head' = run[c].tree
        /\ \A d \in Channels \ {c} : dpc'[d] = dpc[d]
        /\ UNCHANGED <<released, done, git, local, script, run, approved, live>>
    BY <1>0 DEF TypeOK
  <1>2. \A d \in Channels \ {c} : head'[d] = head[d]
    BY <1>0, <1>1, CheckedForward
  <1>3. Deploys'
    <2>1. DeployOf(c)'
      BY <1>1 DEF SInv, Deploys, DeployOf, Overlay
    <2>2. \A d \in Channels \ {c} : DeployOf(d)'
      BY <1>1, <1>2 DEF SInv, Deploys, DeployOf, Overlay
    <2> QED BY <2>1, <2>2 DEF Deploys
  <1>4. Turns' /\ Sent' /\ Rests' /\ Runs'
    BY <1>1, StillTurns, StillSent, StillRests, StillRuns DEF SInv, git
  <1> QED BY <1>3, <1>4 DEF SInv

\* A channel that static-update-component changes gets all of what is approved; it is
\* the newest version.
LEMMA DeployStaticTurn == ASSUME SInv, WInv', NEW c \in Channels, DeployStatic(c) PROVE SInv'
  <1> USE DEF DeployStatic
  <1>0. TypeOK
    BY DEF SInv, WInv, FInv, IInv
  <1>1. /\ live' = head /\ \A d \in Channels : dpc'[d] = dpc[d] \/ dpc'[d] = "idle"
        /\ UNCHANGED <<released, done, git, local, script, run, approved, head>>
    BY <1>0 DEF TypeOK
  <1>2. ASSUME NEW d \in Channels
        PROVE  \/ live'[d] = live[d]
               \/ /\ approved[d] = released[d] /\ script[d].ver = released[d]
                  /\ live'[d] = Overlay(live[d], d, released[d])
    BY <1>1, ServedOrNewest DEF SInv, Deploys, DeployOf
  <1>3. ASSUME NEW d \in Channels, NEW i \in Rest(d) PROVE live'[d][i] = live[d][i]
    BY <1>2, <1>3 DEF Overlay, Rest
  <1>4. Turns'
    <2> SUFFICES ASSUME NEW d \in Channels PROVE TurnsOf(d)'
      BY DEF Turns
    <2>1. CASE live'[d] = live[d]
      BY <1>1, <2>1 DEF SInv, Turns, TurnsOf, Has
    <2>2. CASE approved[d] = released[d]
      BY <1>1, <2>2, ServedOrNewest DEF SInv, Turns, TurnsOf
    <2> QED BY <1>2, <2>1, <2>2
  <1>5. Deploys'
    <2> SUFFICES ASSUME NEW d \in Channels PROVE DeployOf(d)'
      BY DEF Deploys
    <2>1. DeployOf(d) /\ head[d] = live'[d]
      BY <1>1 DEF SInv, Deploys
    <2>2. CASE live'[d] = live[d]
      BY <1>1, <2>1, <2>2 DEF DeployOf, Overlay
    <2>3. CASE /\ approved[d] = released[d] /\ script[d].ver = released[d]
               /\ live'[d] = Overlay(live[d], d, released[d])
      <3>1. Overlay(live'[d], d, released[d]) = Overlay(live[d], d, released[d])
        BY <2>3, OverlayTwice
      <3>2. /\ script[d].tree[d] = Overlay(live'[d], d, script[d].ver)
            /\ dpc[d] # "idle" =>
                 run[d].ver = approved[d] /\ run[d].tree[d] = Overlay(live'[d], d, approved[d])
            /\ head[d] = live'[d]
        BY <2>1, <2>3, <3>1 DEF DeployOf
      <3> QED BY <1>1, <3>2 DEF DeployOf, Overlay
    <2> QED BY <1>2, <2>2, <2>3
  <1>6. Rests'
    BY <1>1, <1>3 DEF SInv, Rests, RestOf, Rest, git
  <1>7. Runs'
    <2> SUFFICES ASSUME NEW m \in Managers PROVE RunOf(m)'
      BY DEF Runs
    <2>1. pc[m] # "idle" => chan[m] \in Channels
      BY <1>0, RunType DEF SInv, WInv, FInv, IInv
    <2> QED BY <1>1, <1>3, <2>1 DEF SInv, Runs, RunOf, Rest, git, local
  <1>8. Sent'
    BY <1>1, StillSent DEF SInv, git
  <1> QED BY <1>4, <1>5, <1>6, <1>7, <1>8 DEF SInv

LEMMA DeployEndTurn ==
    ASSUME SInv, WInv', NEW c \in Channels, DeployCheck(c) \/ DeployRefused(c) \/ DeployFails(c)
    PROVE  SInv'
  <1>1. /\ UNCHANGED <<released, done, git, local, script, run, approved, head, live>>
        /\ \A d \in Channels : dpc'[d] # "idle" => dpc[d] # "idle"
    BY DEF SInv, WInv, FInv, IInv, TypeOK, DeployCheck, DeployRefused, DeployFails
  <1>2. Turns' /\ Sent' /\ Rests' /\ Runs'
    BY <1>1, StillTurns, StillSent, StillRests, StillRuns DEF SInv, git
  <1>3. Deploys'
    BY <1>1 DEF SInv, Deploys, DeployOf, Overlay
  <1> QED BY <1>2, <1>3 DEF SInv

-----------------------------------------------------------------------------
(* Every step.                                                             *)

\* A named commit is not forgotten.
LEMMA StaysNamed == ASSUME IInv, [Next]_vars PROVE named \in Nat /\ named' >= named
  <1>1. named \in Nat
    BY DEF IInv, TypeOK
  <1>2. CASE UNCHANGED named
    BY <1>1, <1>2
  <1>3. ASSUME NEW c \in Channels, DeployNamed(c) PROVE named' >= named
    BY <1>1, <1>3 DEF DeployNamed
  <1>4. ASSUME NEW m \in Managers, Start(m) \/ Step(m) \/ Fail(m) \/ Repair(m) PROVE UNCHANGED named
    BY <1>4 DEF Start, Step, Pull, PullFails, Status, MoveOld, Extract, KeepOld, CommitDirectory,
       CommitAndroid, CommitRest, Push, PushFails, SendScript, Finish, Fail, Repair, server
  <1>5. ASSUME NEW c \in Channels, NewVersion(c) \/ DeployStep(c) \/ DeployFails(c)
        PROVE  UNCHANGED named
    BY <1>5 DEF NewVersion, DeployStep, DeployStart, DeployCheck, DeployRefused, DeployCheckout,
       DeployStatic, DeployFails, server
  <1>6. CASE UNCHANGED vars \/ Terminated
    BY <1>2, <1>6 DEF vars, server, Terminated
  <1> QED BY <1>1, <1>2, <1>3, <1>4, <1>5, <1>6 DEF Next

LEMMA NextSInv == ASSUME SInv, DeployFirst, [Next]_vars, named' = 0 PROVE SInv'
  <1>0. WInv' /\ named = 0
    BY NextWInv, StaysNamed DEF SInv, WInv, FInv
  <1>1. CASE UNCHANGED vars \/ Terminated
    <2>1. UNCHANGED <<released, done, git, local, script, server>>
      BY <1>1 DEF vars, Terminated
    <2>2. Turns' /\ Deploys' /\ Sent' /\ Rests' /\ Runs'
      BY <2>1, StillTurns, StillDeploys, StillSent, StillRests, StillRuns DEF SInv, git, server
    <2> QED BY <1>0, <2>2 DEF SInv
  <1>2. ASSUME NEW m \in Managers, Fail(m) PROVE SInv'
    BY <1>0, <1>2, StopRun DEF Fail
  <1>3. ASSUME NEW c \in Channels, DeployStep(c) \/ DeployFails(c) PROVE SInv'
    BY <1>0, <1>3, DeployStartTurn, DeployCheckoutTurn, DeployStaticTurn, DeployEndTurn DEF DeployStep
  <1>4. ~\E c \in Channels : DeployNamed(c)
    <2>1. named \in Nat
      BY DEF SInv, WInv, FInv, IInv, TypeOK
    <2> QED BY <2>1 DEF DeployNamed
  <1> QED BY <1>0, <1>1, <1>2, <1>3, <1>4, NewVersionTurn, StartTurn, StepTurn, RepairTurn DEF Next

LEMMA AlwaysSInv == ASSUME DeployFirst PROVE Spec => [](IInv /\ (named = 0 => SInv))
  <1>1. Init => IInv /\ (named = 0 => SInv)
    BY InitIInv, InitSInv
  <1>2. IInv /\ (named = 0 => SInv) /\ [Next]_vars => (IInv /\ (named = 0 => SInv))'
    <2> SUFFICES ASSUME IInv, named = 0 => SInv, [Next]_vars PROVE IInv' /\ (named' = 0 => SInv')
      OBVIOUS
    <2>1. named' = 0 => named = 0
      BY StaysNamed
    <2> QED BY <2>1, NextIInv, NextSInv
  <1> QED BY <1>1, <1>2, PTL DEF Spec

\* Each step is one of UpdateService, or nothing to it: until a commit is named,
LEMMA StepsServe ==
    ASSUME SInv, [Next]_vars, named' = 0
    PROVE  [Service!Next]_<<approved, live, named # 0>>
  <1>0. TypeOK /\ named = 0
    BY StaysNamed DEF SInv, WInv, FInv, IInv
  <1>1. \/ UNCHANGED <<approved, live>>
        \/ \E c \in Channels : DeployStart(c) /\ UNCHANGED live
        \/ \E c \in Channels : DeployStatic(c) /\ UNCHANGED approved
    <2>1. ~\E c \in Channels : DeployNamed(c)
      BY <1>0 DEF DeployNamed
    <2> QED BY <2>1, WhatChanges
  <1>2. ASSUME NEW c \in Channels, DeployStart(c), UNCHANGED live
        PROVE  [Service!Next]_<<approved, live, named # 0>>
    <2>1. approved' = [approved EXCEPT ![c] = script[c].ver]
      <3>1. script[c].ver > approved[c] \/ script[c].ver = approved[c]
        BY ServedOrNewest
      <3> QED BY <1>2, <3>1 DEF DeployStart, Run
    <2>2. script[c].ver = approved[c] \/ script[c].ver = approved[c] + 1
      BY ServedOrNewest
    <2>3. CASE script[c].ver = approved[c]
      BY <1>0, <1>2, <2>1, <2>3 DEF TypeOK
    <2>4. CASE script[c].ver = approved[c] + 1
      <3>1. approved[c] < Latest[c]
        <4>1. Latest[c] \in Nat /\ released[c] <= Latest[c]
          BY <1>0, ChannelsAssumption DEF TypeOK, Versions
        <4> QED BY <2>4, <4>1, ServedOrNewest
      <3>2. Service!Enable(c)
        BY <1>0, <1>2, <2>1, <2>4, <3>1 DEF Service!Enable
      <3> QED BY <3>2 DEF Service!Next
    <2> QED BY <2>2, <2>3, <2>4
  <1>3. ASSUME NEW c \in Channels, DeployStatic(c), UNCHANGED approved
        PROVE  [Service!Next]_<<approved, live, named # 0>>
    <2> DEFINE C == {d \in Channels : head[d] # live[d]}
    <2>1. live' = head
      BY <1>3 DEF DeployStatic
    <2>2. \A d \in C : head[d] = Overlay(live[d], d, approved[d])
      BY DEF SInv, Deploys, DeployOf
    <2>3. head \in Tree
      BY <1>0 DEF TypeOK
    <2>4. \A d \in Channels, i \in Items : head[d][i] =
              IF d \in C /\ i \in Included[d][approved[d]] THEN approved[d] ELSE live[d][i]
      BY <2>2 DEF Overlay
    <2>5. head = [d \in Channels |-> [i \in Items |->
              IF d \in C /\ i \in Included[d][approved[d]] THEN approved[d] ELSE live[d][i]]]
      <3> HIDE DEF C
      <3>1. \A d \in Channels : head[d] = [i \in Items |->
              IF d \in C /\ i \in Included[d][approved[d]] THEN approved[d] ELSE live[d][i]]
        BY <2>3, <2>4 DEF Tree
      <3> QED BY <2>3, <3>1 DEF Tree
    <2>6. Service!Serve(C)
      BY <1>0, <1>3, <2>1, <2>5 DEF Service!Serve
    <2>7. C \in SUBSET Channels
      OBVIOUS
    <2> QED BY <2>6, <2>7 DEF Service!Next
  <1> QED BY <1>0, <1>1, <1>2, <1>3

\* and from then on.
LEMMA StepsByHand ==
    ASSUME IInv, [Next]_vars, named' # 0
    PROVE  [Service!Next]_<<approved, live, named # 0>>
  <1>1. TypeOK /\ IInv'
    BY NextIInv DEF IInv
  <1>2. \A c \in Channels : approved'[c] >= approved[c]
    <2>1. CASE UNCHANGED approved
      BY <1>1, <2>1 DEF TypeOK
    <2>2. ASSUME NEW d \in Channels, DeployStart(d) \/ DeployNamed(d)
          PROVE  \A c \in Channels : approved'[c] >= approved[c]
      <3>1. PICK v : approved' = [approved EXCEPT ![d] = IF v > @ THEN v ELSE @]
        BY <2>2 DEF DeployStart, DeployNamed, Run
      <3>2. approved \in [Channels -> Nat] /\ approved' \in [Channels -> Nat]
        BY <1>1 DEF IInv, TypeOK
      <3> QED BY <3>1, <3>2
    <2>3. \/ UNCHANGED approved
          \/ \E d \in Channels : DeployStart(d) \/ DeployNamed(d)
      BY WhatChanges
    <2> QED BY <2>1, <2>2, <2>3
  <1>3. \A c \in Channels, i \in Items : live'[c][i] <= approved'[c]
    BY <1>1 DEF IInv, NothingUnapproved
  <1> QED BY <1>2, <1>3 DEF Service!Next, Service!ByHand

LEMMA InitServes == Init => Service!Init
  BY DEF Init, Service!Init, FirstTree

\* If each version of a channel is deployed before the next one is started, the users
\* see what UpdateService promises: whole releases, one after the other, none before
\* somebody has enabled it, whatever fails on the way; and after a deployment by
\* hand still nothing that nobody asked for.
THEOREM ReleasesAreServed == ASSUME DeployFirst PROVE Spec => ServesReleases
  <1>1. ASSUME IInv, named = 0 => SInv, [Next]_vars
        PROVE  [Service!Next]_<<approved, live, named # 0>>
    <2>1. named' = 0 => named = 0
      BY <1>1, StaysNamed
    <2> QED BY <1>1, <2>1, StepsServe, StepsByHand
  <1> QED BY <1>1, AlwaysSInv, InitServes, PTL DEF Spec, ServesReleases, Service!Spec

-----------------------------------------------------------------------------
(* Channels do not block each other, if nothing has failed and no commit has *)
(* been named: each of them has at most one push that is not deployed, the    *)
(* pushes are in an order, and a script has what was pushed before its own    *)
(* and not what was pushed later.                                             *)

\* Runs that have pushed the channel and not sent its script.
Sending(c) == {m \in Managers : pc[m] = "scp" /\ chan[m] = c}

\* The tree of the channel's last push.
LastPush(c) == IF Sending(c) = {} THEN {script[c].tree} ELSE {clone[m].tree : m \in Sending(c)}

Undeployed(c) == head[c] # origin.tree[c]

\* A version's script is sent once.
SentOnce(c) ==
    /\ Sending(c) = {} => origin.tree[c] = script[c].tree[c]
    /\ script[c].ver = released[c] =>
         done[c] = released[c] \/ \E m \in Managers : pc[m] = "marker" /\ chan[m] = c

\* A run sends what it has not sent before, and has commits of its own channel only.
RunsOnce(m) ==
    /\ pc[m] \notin {"idle", "marker"} => script[chan[m]].ver < ver[m]
    /\ Ahead(m) /\ ~Behind(m) =>
         /\ pc[m] \in {"commit", "commitrest", "push"}
         /\ \A c \in ChannelsOf[m] \ {chan[m]} : clone[m].tree[c] = origin.tree[c]

\* A deployment that has been started is of the last script, and nothing else changes
\* what is served.
DeploysLast(c) ==
    /\ dpc[c] \in {"check", "checkout"} => run[c].tree = script[c].tree /\ head[c] # script[c].tree[c]
    /\ dpc[c] # "static" => live[c] = head[c]

\* The pushes that are not deployed are in an order: each has the other channels as
\* they are served or with their own push, and of two pushes one has the other.
PushesOf(c) ==
    Undeployed(c) => \A t \in LastPush(c) : \A d \in Channels : t[d] \in {head[d], origin.tree[d]}
OrderOf(c, d) ==
    c # d /\ Undeployed(c) /\ Undeployed(d) =>
        \A s \in LastPush(c), t \in LastPush(d) : s[d] = origin.tree[d] <=> t[c] # origin.tree[c]

Queued ==
    /\ \A c \in Channels : SentOnce(c) /\ DeploysLast(c) /\ PushesOf(c)
    /\ \A m \in Managers : RunsOnce(m)
    /\ \A c, d \in Channels : OrderOf(c, d)

QInv == IInv /\ (named = 0 => SInv /\ (failures = 0 => Queued))

-----------------------------------------------------------------------------
(* What the steps have in common.                                          *)

\* While a version has no script, what was sent for the channel before is served.
LEMMA NotSent ==
    ASSUME SInv, NEW c \in Channels, script[c].ver < released[c]
    PROVE  head[c] = script[c].tree[c] /\ live[c] = script[c].tree[c]
  <1>1. approved[c] = script[c].ver
    BY ServedOrNewest
  <1>2. Overlay(live[c], c, approved[c]) = live[c] /\ head[c] = live[c]
    BY <1>1, ServedOrNewest
  <1>3. script[c].tree[c] = Overlay(live[c], c, script[c].ver)
    BY DEF SInv, Deploys, DeployOf
  <1> QED BY <1>1, <1>2, <1>3

\* That is so while a run has not sent its script, and before its push it is what
\* origin has.
LEMMA RunNotSent ==
    ASSUME SInv, Queued, NEW m \in Managers, pc[m] \notin {"idle", "marker"}
    PROVE  /\ chan[m] \in Channels /\ chan[m] \in ChannelsOf[m]
           /\ script[chan[m]].ver < ver[m] /\ ver[m] = released[chan[m]]
           /\ head[chan[m]] = script[chan[m]].tree[chan[m]]
           /\ pc[m] # "scp" => /\ Sending(chan[m]) = {}
                               /\ origin.tree[chan[m]] = script[chan[m]].tree[chan[m]]
  <1>1. TypeOK /\ Running
    BY DEF SInv, WInv, FInv, IInv
  <1>2. chan[m] \in Channels /\ chan[m] \in ChannelsOf[m]
    BY <1>1, RunType DEF Running
  <1>3. script[chan[m]].ver < ver[m] /\ ver[m] = released[chan[m]]
    BY DEF Queued, RunsOnce, SInv, Runs, RunOf, Ahead
  <1>4. head[chan[m]] = script[chan[m]].tree[chan[m]]
    BY <1>2, <1>3, NotSent
  <1>5. ASSUME pc[m] # "scp" PROVE Sending(chan[m]) = {}
    BY <1>1, <1>5, OneRun DEF Sending
  <1>6. Sending(chan[m]) = {} => origin.tree[chan[m]] = script[chan[m]].tree[chan[m]]
    BY <1>2 DEF Queued, SentOnce
  <1> QED BY <1>2, <1>3, <1>4, <1>5, <1>6

\* The pushes, and what they are compared with.
LEMMA SamePushes ==
    ASSUME Queued, UNCHANGED <<origin, head>>, \A c \in Channels : LastPush(c)' = LastPush(c)
    PROVE  \A c \in Channels : /\ PushesOf(c)'
                               /\ \A d \in Channels : OrderOf(c, d)'
  <1>1. \A c \in Channels : Undeployed(c)' = Undeployed(c)
    BY DEF Undeployed
  <1> QED BY <1>1 DEF Queued, PushesOf, OrderOf

LEMMA SameDeploys ==
    ASSUME Queued, UNCHANGED <<script, server>>
    PROVE  \A c \in Channels : DeploysLast(c)'
  BY DEF Queued, DeploysLast, server

\* A run's step between the start and the push.
LEMMA QuietQueued ==
    ASSUME SInv, Queued, NEW m \in Managers, UNCHANGED <<done, origin, script, server>>,
           pc[m] \notin {"scp", "marker"}, pc'[m] \notin {"scp", "marker"}, released' = released,
           \A n \in Managers \ {m} : /\ pc'[n] = pc[n] /\ chan'[n] = chan[n]
                                     /\ ver'[n] = ver[n] /\ clone'[n] = clone[n],
           RunsOnce(m)'
    PROVE  Queued'
  <1>1. \A c \in Channels : Sending(c)' = Sending(c)
    BY DEF Sending
  <1>2. \A c \in Channels : \A n \in Sending(c) : clone'[n].tree = clone[n].tree
    BY DEF Sending
  <1>3. \A c \in Channels : LastPush(c)' = LastPush(c)
    BY <1>1, <1>2 DEF LastPush
  <1>4. \A c \in Channels : PushesOf(c)' /\ \A d \in Channels : OrderOf(c, d)'
    BY <1>3, SamePushes DEF server
  <1>5. \A c \in Channels : DeploysLast(c)'
    BY SameDeploys
  <1>6. \A c \in Channels : SentOnce(c)'
    <2>1. ASSUME NEW c \in Channels, NEW n \in Managers, pc[n] = "marker" /\ chan[n] = c
          PROVE  pc'[n] = "marker" /\ chan'[n] = c
      BY <2>1
    <2> QED BY <1>1, <2>1 DEF Queued, SentOnce
  <1>7. \A n \in Managers \ {m} : RunsOnce(n)'
    BY DEF Queued, RunsOnce, Behind, Ahead
  <1> QED BY <1>4, <1>5, <1>6, <1>7 DEF Queued

\* A run that ends, and has no commits that it could still push.
LEMMA StopQueued ==
    ASSUME SInv, Queued, NEW m \in Managers, Stop(m), pc[m] \notin {"scp", "marker"},
           ~(Ahead(m) /\ ~Behind(m)), UNCHANGED <<released, done, git, script, server>>
    PROVE  Queued'
  <1>1. /\ pc'[m] = "idle"
        /\ \A n \in Managers \ {m} : pc'[n] = pc[n] /\ chan'[n] = chan[n] /\ ver'[n] = ver[n]
    BY DEF SInv, WInv, FInv, IInv, TypeOK, Stop, Goto
  <1>2. RunsOnce(m)'
    BY <1>1 DEF RunsOnce, Behind, git, Ahead
  <1> QED BY <1>1, <1>2, QuietQueued DEF git

-----------------------------------------------------------------------------
(* The managers' steps.                                                    *)

LEMMA InitQueued == Init => Queued
  <1> SUFFICES ASSUME Init PROVE Queued
    OBVIOUS
  <1>1. \A c \in Channels : SentOnce(c) /\ DeploysLast(c)
    BY DEF Init, SentOnce, DeploysLast, Sending
  <1>2. \A c \in Channels : ~Undeployed(c)
    BY DEF Init, Undeployed
  <1>3. \A m \in Managers : RunsOnce(m)
    BY DEF Init, RunsOnce, Ahead
  <1> QED BY <1>1, <1>2, <1>3 DEF Queued, PushesOf, OrderOf

LEMMA NewVersionQueued ==
    ASSUME SInv, Queued, NEW c \in Channels, NewVersion(c)
    PROVE  Queued'
  <1> USE DEF NewVersion
  <1>1. TypeOK /\ Scripts
    BY DEF SInv, WInv, FInv, IInv
  <1>2. \A d \in Channels : script[d].ver <= released[d] /\ script[d].ver \in Nat
                            /\ released[d] \in Nat /\ released'[d] = IF d = c THEN released[d] + 1 ELSE released[d]
    BY <1>1 DEF Scripts, TypeOK
  <1>3. \A d \in Channels : Sending(d)' = Sending(d) /\ LastPush(d)' = LastPush(d)
    BY DEF Sending, LastPush, local, git
  <1>4. \A d \in Channels : PushesOf(d)' /\ \A e \in Channels : OrderOf(d, e)'
    BY <1>3, SamePushes DEF git, server
  <1>5. \A d \in Channels : DeploysLast(d)'
    BY SameDeploys
  <1>6. \A d \in Channels : script'[d].ver = released'[d] => d # c
    BY <1>2
  <1>7. \A d \in Channels : SentOnce(d)'
    BY <1>2, <1>3, <1>6 DEF Queued, SentOnce, git, local
  <1>8. \A m \in Managers : RunsOnce(m)'
    BY DEF Queued, RunsOnce, Behind, git, local, Ahead
  <1> QED BY <1>4, <1>5, <1>7, <1>8 DEF Queued

\* A run is not started once its script has been sent.
LEMMA StartQueued == ASSUME SInv, Queued, NEW m \in Managers, Start(m) PROVE Queued'
  <1> USE DEF Start
  <1>1. TypeOK /\ Running /\ Scripts
    BY DEF SInv, WInv, FInv, IInv
  <1>2. PICK c \in ChannelsOf[m] : /\ done[c] < released[c]
                                  /\ chan' = [chan EXCEPT ![m] = c]
                                  /\ ver' = [ver EXCEPT ![m] = released[c]]
    OBVIOUS
  <1>3. c \in Channels
    BY ChannelsAssumption
  <1>4. /\ pc'[m] = "pull" /\ chan'[m] = c /\ ver'[m] = released[c]
        /\ \A n \in Managers \ {m} : pc'[n] = pc[n] /\ chan'[n] = chan[n] /\ ver'[n] = ver[n]
    BY <1>1, <1>2 DEF TypeOK, Goto
  <1>5. ~\E n \in Managers : pc[n] = "marker" /\ chan[n] = c
    <2> SUFFICES ASSUME NEW n \in Managers, pc[n] = "marker", chan[n] = c PROVE FALSE
      OBVIOUS
    <2>1. c \in ChannelsOf[n]
      BY <1>1 DEF Running
    <2>2. n = m
      BY <2>1, OwnerAssumption
    <2> QED BY <2>2
  <1>6. script[c].ver < released[c]
    <2>1. script[c].ver <= released[c] /\ script[c].ver \in Nat /\ released[c] \in Nat /\ done[c] \in Nat
      BY <1>1, <1>3 DEF Scripts, TypeOK
    <2>2. script[c].ver # released[c]
      BY <1>2, <1>3, <1>5, <2>1 DEF Queued, SentOnce
    <2> QED BY <2>1, <2>2
  <1>7. RunsOnce(m)'
    BY <1>4, <1>6 DEF Queued, RunsOnce, Behind, git, Ahead
  <1> QED BY <1>4, <1>7, QuietQueued DEF git

LEMMA PullQueued == ASSUME SInv, Queued, NEW m \in Managers, Pull(m) PROVE Queued'
  <1> USE DEF Pull
  <1>1. TypeOK
    BY DEF SInv, WInv, FInv, IInv
  <1>2. pc'[m] = "status" /\ \A n \in Managers \ {m} : pc'[n] = pc[n] /\ clone'[n] = clone[n]
    BY <1>1 DEF TypeOK, Goto
  <1>3. CASE Behind(m)
    <2>1. clone'[m] = [base |-> origin.n, tree |-> origin.tree, made |-> {}]
      BY <1>1, <1>3 DEF TypeOK
    <2>2. ~Ahead(m)'
      BY <2>1 DEF Ahead
    <2>3. RunsOnce(m)'
      BY <1>2, <2>2 DEF Queued, RunsOnce
    <2> QED BY <1>2, <2>3, QuietQueued
  <1>4. CASE ~Behind(m)
    <2>1. RunsOnce(m)'
      BY <1>2, <1>4 DEF Queued, RunsOnce, Behind, Ahead
    <2> QED BY <1>2, <1>4, <2>1, QuietQueued
  <1> QED BY <1>3, <1>4

\* The actions that only change the working directory.
LEMMA FilesQueued ==
    ASSUME SInv, Queued, NEW m \in Managers, NEW l \in {"move", "extract", "keep", "commit"},
           pc[m] \in {"status", "move", "extract", "keep"}, Goto(m, l),
           UNCHANGED <<released, done, origin, clone, chan, ver, script, server>>
    PROVE  Queued'
  <1>1. pc'[m] = l /\ \A n \in Managers \ {m} : pc'[n] = pc[n]
    BY DEF SInv, WInv, FInv, IInv, TypeOK, Goto
  <1>2. RunsOnce(m)'
    BY <1>1 DEF Queued, RunsOnce, Behind, Ahead
  <1> QED BY <1>1, <1>2, QuietQueued

LEMMA CommitQueued ==
    ASSUME SInv, Queued, NEW m \in Managers, NEW items, NEW l \in {"commit", "commitrest", "push"},
           pc[m] \in {"commit", "commitrest"}, Commit(m, items), Goto(m, l),
           UNCHANGED <<released, done, origin, chan, ver, script, server>>
    PROVE  Queued'
  <1>1. TypeOK /\ CloneOf(m)
    BY DEF SInv, WInv, FInv, IInv, Cloned
  <1>2. pc'[m] = l /\ \A n \in Managers \ {m} : pc'[n] = pc[n]
    BY <1>1 DEF TypeOK, Goto
  <1>3. \A n \in Managers \ {m} : clone'[n] = clone[n]
    BY <1>1 DEF TypeOK, Commit
  <1>4. clone'[m].base = clone[m].base
    BY <1>1 DEF TypeOK, Commit
  <1>5. \A c \in Channels \ {chan[m]} : clone'[m].tree[c] = clone[m].tree[c]
    BY <1>1 DEF TypeOK, Tree, Commit
  <1>6. ChannelsOf[m] \subseteq Channels
    BY ChannelsAssumption
  <1>7. ~Behind(m) => \A c \in ChannelsOf[m] \ {chan[m]} : clone[m].tree[c] = origin.tree[c]
    BY <1>1, <1>6 DEF CloneOf, Queued, RunsOnce, Ahead
  <1>8. Behind(m)' = Behind(m)
    BY <1>4 DEF Behind
  <1>9. script[chan[m]].ver < ver[m]
    BY DEF Queued, RunsOnce, Ahead
  <1>10. RunsOnce(m)'
    BY <1>2, <1>5, <1>6, <1>7, <1>8, <1>9 DEF RunsOnce, Ahead
  <1> QED BY <1>2, <1>3, <1>10, QuietQueued

LEMMA RepairQueued == ASSUME SInv, Queued, NEW m \in Managers, Repair(m) PROVE Queued'
  <1>1. TypeOK
    BY DEF SInv, WInv, FInv, IInv
  <1>2. \/ clone' = clone
        \/ \E t : clone' = [clone EXCEPT ![m] = [base |-> origin.n, tree |-> t, made |-> {}]]
    BY DEF Repair
  <1>3. \A n \in Managers \ {m} : clone'[n] = clone[n]
    BY <1>1, <1>2 DEF TypeOK
  <1>4. clone' = clone \/ ~Ahead(m)'
    <2> SUFFICES ASSUME NEW t, clone' = [clone EXCEPT ![m] = [base |-> origin.n, tree |-> t, made |-> {}]]
                 PROVE  ~Ahead(m)'
      BY <1>2
    <2>1. clone'[m] = [base |-> origin.n, tree |-> t, made |-> {}]
      BY <1>1 DEF TypeOK
    <2> QED BY <2>1 DEF Ahead
  <1>5. pc[m] = "idle" /\ UNCHANGED <<released, done, origin, local, script, server>>
    BY DEF Repair
  <1>6. RunsOnce(m)'
    BY <1>4, <1>5 DEF Queued, RunsOnce, Behind, local, Ahead
  <1> QED BY <1>3, <1>5, <1>6, QuietQueued DEF local

\* A push has commits of its own channel only, and comes last in the order: nothing
\* else that is not deployed has it.
LEMMA PushQueued == ASSUME SInv, Queued, NEW m \in Managers, Push(m) PROVE Queued'
  <1>1. TypeOK /\ Running /\ Scripts /\ Cloned /\ pc[m] = "push" /\ ~Behind(m)
    BY DEF SInv, WInv, FInv, IInv, Push, PushRefused
  <1>c. PICK c \in Channels : c = chan[m]
    BY <1>1, RunType
  <1>2. /\ c = chan[m] /\ c \in ChannelsOf[m] /\ script[c].ver < ver[m] /\ ver[m] = released[c]
        /\ head[c] = script[c].tree[c] /\ Sending(c) = {} /\ origin.tree[c] = script[c].tree[c]
    BY <1>1, <1>c, RunNotSent
  <1>3. Ahead(m)
    <2> SUFFICES ASSUME ~Ahead(m) PROVE FALSE
      OBVIOUS
    <2>1. clone[m].tree[c] = script[c].tree[c]
      BY <1>1, <1>2 DEF Cloned, CloneOf, Ahead
    <2>2. Has(clone[m].tree[c], c, ver[m]) /\ AtMost(script[c].tree[c], script[c].ver)
      BY <1>1, <1>2 DEF SInv, WInv, Whole, WholeRun, Scripts
    <2>3. ver[m] \in Versions(c) /\ Included[c][ver[m]] \subseteq Items
      BY <1>1, <1>2, ChannelType, RunType
    <2>4. PICK i \in Included[c][ver[m]] : TRUE
      BY <1>2, <2>3, ReleaseAssumption
    <2>5. script[c].tree[c][i] = ver[m] /\ script[c].tree[c][i] <= script[c].ver
      BY <2>1, <2>2, <2>3, <2>4 DEF Has, AtMost
    <2>6. ver[m] \in Nat /\ script[c].ver \in Nat
      BY <1>1, <1>2, RunType DEF TypeOK
    <2> QED BY <1>2, <2>5, <2>6
  <1>4. /\ origin'.n = origin.n + 1 /\ origin'.tree = clone[m].tree
        /\ clone' = [clone EXCEPT ![m] = [base |-> origin.n + 1, tree |-> @.tree, made |-> {}]]
        /\ pc' = [pc EXCEPT ![m] = "scp"]
        /\ UNCHANGED <<released, done, work, chan, ver, script, server>>
    BY <1>1, <1>3 DEF Push, PushRefused, Goto
  <1>5. \A d \in Channels \ {c} : origin'.tree[d] = origin.tree[d]
    BY <1>1, <1>2, <1>3, <1>4 DEF Queued, RunsOnce, Cloned, CloneOf, Ahead
  <1>6. /\ pc'[m] = "scp" /\ clone'[m].tree = clone[m].tree /\ ~Ahead(m)'
        /\ \A n \in Managers \ {m} : pc'[n] = pc[n] /\ clone'[n] = clone[n]
    <2>1. clone'[m] = [base |-> origin.n + 1, tree |-> clone[m].tree, made |-> {}]
      BY <1>1, <1>4 DEF TypeOK
    <2>2. clone'[m].tree = clone[m].tree /\ ~Ahead(m)'
      BY <2>1 DEF Ahead
    <2> QED BY <1>1, <1>4, <2>2 DEF TypeOK
  <1>7. Sending(c)' = {m} /\ \A d \in Channels \ {c} : Sending(d)' = Sending(d)
    <2>1. \A n \in Managers \ {m} : ~(pc[n] = "scp" /\ chan[n] = c)
      BY <1>2 DEF Sending
    <2> QED BY <1>1, <1>2, <1>4, <1>6, <2>1 DEF Sending
  <1>8. LastPush(c)' = {origin'.tree}
    <2>1. LastPush(c)' = {clone'[n].tree : n \in Sending(c)'}
      BY <1>7 DEF LastPush
    <2> QED BY <1>4, <1>6, <1>7, <2>1
  <1>9. \A d \in Channels \ {c} : LastPush(d)' = LastPush(d)
    <2>1. \A n \in Managers : clone'[n].tree = clone[n].tree
      BY <1>6
    <2>2. ASSUME NEW d \in Channels \ {c} PROVE LastPush(d)' = LastPush(d)
      <3>1. Sending(d)' = Sending(d) /\ Sending(d) \subseteq Managers /\ script'[d] = script[d]
        BY <1>4, <1>7 DEF Sending
      <3>2. {clone'[n].tree : n \in Sending(d)} = {clone[n].tree : n \in Sending(d)}
        BY <2>1, <3>1
      <3> QED BY <3>1, <3>2 DEF LastPush
    <2> QED BY <2>2
  <1>10. head' = head
    BY <1>4 DEF server
  <1>11. \A d \in Channels \ {c} : Undeployed(d)' = Undeployed(d)
    BY <1>5, <1>10 DEF Undeployed
  <1>12. \A d \in Channels \ {c} : Undeployed(d) =>
            \A t \in LastPush(d) : t[c] = head[c] /\ \A e \in Channels : t[e] \in {head[e], origin.tree[e]}
    BY <1>2 DEF Queued, PushesOf
  <1>13. \A d \in Channels : PushesOf(d)'
    <2>1. PushesOf(c)'
      BY <1>8 DEF PushesOf
    <2>2. ASSUME NEW d \in Channels \ {c}, Undeployed(d), NEW t \in LastPush(d), NEW e \in Channels
          PROVE  t[e] \in {head'[e], origin'.tree[e]}
      BY <1>2, <1>5, <1>10, <1>12, <2>2
    <2>3. ASSUME NEW d \in Channels \ {c} PROVE PushesOf(d)'
      BY <1>9, <1>11, <2>2 DEF PushesOf
    <2> QED BY <2>1, <2>3
  <1>14. \A d, e \in Channels : OrderOf(d, e)'
    <2>1. ASSUME NEW e \in Channels \ {c}, Undeployed(c)', Undeployed(e), NEW t \in LastPush(e)
          PROVE  t[c] # origin'.tree[c] /\ origin'.tree[e] = origin'.tree[e]
      BY <1>2, <1>10, <1>12, <2>1 DEF Undeployed
    <2>2. ASSUME NEW e \in Channels \ {c} PROVE OrderOf(c, e)' /\ OrderOf(e, c)'
      BY <1>8, <1>9, <1>11, <2>1 DEF OrderOf
    <2>3. ASSUME NEW d \in Channels \ {c}, NEW e \in Channels \ {c} PROVE OrderOf(d, e)'
      BY <1>5, <1>9, <1>11 DEF Queued, OrderOf
    <2>4. OrderOf(c, c)'
      BY DEF OrderOf
    <2> QED BY <2>2, <2>3, <2>4
  <1>15. \A d \in Channels : DeploysLast(d)'
    BY <1>4, SameDeploys
  <1>16. \A d \in Channels : SentOnce(d)'
    <2>1. SentOnce(c)'
      <3>1. script[c].ver \in Nat /\ ver[m] \in Nat
        BY <1>1, <1>2, RunType DEF TypeOK
      <3> QED BY <1>2, <1>4, <1>7, <3>1 DEF SentOnce
    <2>2. ASSUME NEW d \in Channels \ {c} PROVE SentOnce(d)'
      <3>1. ASSUME NEW n \in Managers, pc[n] = "marker", chan[n] = d
            PROVE  pc'[n] = "marker" /\ chan'[n] = d
        BY <1>1, <1>4, <1>6, <3>1
      <3> QED BY <1>4, <1>5, <1>7, <3>1 DEF Queued, SentOnce
    <2> QED BY <2>1, <2>2
  <1>17. \A n \in Managers : RunsOnce(n)'
    <2>1. ASSUME NEW n \in Managers \ {m} PROVE Behind(n)'
      <3>1. clone[n].base \in Nat /\ origin.n \in Nat /\ clone[n].base <= origin.n
        BY <1>1 DEF TypeOK, Cloned, CloneOf, Ahead
      <3> QED BY <1>4, <1>6, <3>1 DEF Behind
    <2>2. ASSUME NEW n \in Managers PROVE pc'[n] \notin {"idle", "marker"} => script'[chan'[n]].ver < ver'[n]
      BY <1>1, <1>4, <1>6 DEF Queued, RunsOnce, Ahead
    <2> QED BY <1>6, <2>1, <2>2 DEF RunsOnce, Ahead
  <1> QED BY <1>13, <1>14, <1>15, <1>16, <1>17 DEF Queued

\* A script is of the channel's last push, and none of the channel's is being deployed.
LEMMA SendScriptQueued == ASSUME SInv, Queued, NEW m \in Managers, SendScript(m) PROVE Queued'
  <1>1. TypeOK /\ Running /\ Cloned /\ Replacing /\ pc[m] = "scp"
    BY DEF SInv, WInv, FInv, IInv, SendScript
  <1>c. PICK c \in Channels : c = chan[m]
    BY <1>1, RunType
  <1>2. /\ c = chan[m] /\ c \in ChannelsOf[m] /\ ver[m] = released[c] /\ head[c] = script[c].tree[c]
    BY <1>1, <1>c, RunNotSent
  <1>3. /\ script' = [script EXCEPT ![c] = [tree |-> clone[m].tree, ver |-> ver[m]]]
        /\ pc' = [pc EXCEPT ![m] = "marker"]
        /\ UNCHANGED <<released, done, origin, clone, chan, ver, server>>
    BY <1>2 DEF SendScript, Goto, UpdateResponsesCommit, git
  <1>4. /\ script'[c].tree = clone[m].tree /\ script'[c].ver = ver[m] /\ pc'[m] = "marker"
        /\ \A d \in Channels \ {c} : script'[d] = script[d]
        /\ \A n \in Managers \ {m} : pc'[n] = pc[n]
    BY <1>1, <1>2, <1>3 DEF TypeOK
  <1>5. \A n \in Managers \ {m} : pc[n] # "idle" => chan[n] # c
    BY <1>1, <1>2, OneRun
  <1>6. Sending(c) = {m} /\ Sending(c)' = {} /\ \A d \in Channels \ {c} : Sending(d)' = Sending(d)
    BY <1>1, <1>2, <1>3, <1>4, <1>5 DEF Sending
  <1>7. \A d \in Channels : LastPush(d)' = LastPush(d)
    <2>1. LastPush(c)' = {script'[c].tree}
      BY <1>6 DEF LastPush
    <2>2. LastPush(c) = {clone[n].tree : n \in Sending(c)}
      BY <1>6 DEF LastPush
    <2>3. LastPush(c) = {clone[m].tree}
      BY <1>6, <2>2
    <2>4. ASSUME NEW d \in Channels \ {c} PROVE LastPush(d)' = LastPush(d)
      BY <1>3, <1>4, <1>6 DEF LastPush
    <2> QED BY <1>4, <2>1, <2>3, <2>4
  <1>8. \A d \in Channels : PushesOf(d)' /\ \A e \in Channels : OrderOf(d, e)'
    BY <1>3, <1>7, SamePushes DEF server
  <1>9. ~Ahead(m)
    BY <1>1 DEF Replacing, ReplacingOf, Ahead
  <1>10. \A d \in Channels : SentOnce(d)'
    <2>1. origin.tree[c] = clone[m].tree[c]
      BY <1>1, <1>2, <1>9 DEF Cloned, CloneOf, Ahead
    <2>2. SentOnce(c)'
      BY <1>2, <1>3, <1>4, <2>1 DEF SentOnce
    <2>3. ASSUME NEW d \in Channels \ {c} PROVE SentOnce(d)'
      <3>1. ASSUME NEW n \in Managers, pc[n] = "marker", chan[n] = d
            PROVE  pc'[n] = "marker" /\ chan'[n] = d
        BY <1>1, <1>3, <1>4, <3>1
      <3> QED BY <1>3, <1>4, <1>6, <3>1 DEF Queued, SentOnce
    <2> QED BY <2>2, <2>3
  <1>11. \A d \in Channels : DeploysLast(d)'
    <2>1. dpc[c] \notin {"check", "checkout"}
      BY <1>2 DEF Queued, DeploysLast
    <2> QED BY <1>3, <1>4, <2>1 DEF Queued, DeploysLast, server
  <1>12. \A n \in Managers : RunsOnce(n)'
    <2>1. RunsOnce(m)'
      BY <1>3, <1>4, <1>9 DEF RunsOnce, Ahead
    <2>2. ASSUME NEW n \in Managers \ {m} PROVE RunsOnce(n)'
      <3>1. pc[n] # "idle" => script'[chan[n]] = script[chan[n]]
        BY <1>1, <1>4, <1>5, RunType
      <3> QED BY <1>3, <1>4, <3>1 DEF Queued, RunsOnce, Behind, Ahead
    <2> QED BY <2>1, <2>2
  <1> QED BY <1>8, <1>10, <1>11, <1>12 DEF Queued

LEMMA FinishQueued == ASSUME SInv, Queued, NEW m \in Managers, Finish(m) PROVE Queued'
  <1>1. TypeOK /\ Running /\ pc[m] = "marker"
    BY DEF SInv, WInv, FInv, IInv, Finish
  <1>c. PICK c \in Channels : c = chan[m]
    BY <1>1, RunType
  <1>2. c = chan[m] /\ ver[m] = released[c]
    BY <1>1, <1>c, RunType DEF SInv, Runs, RunOf
  <1>3. /\ pc' = [pc EXCEPT ![m] = "idle"] /\ done' = [done EXCEPT ![c] = ver[m]]
        /\ chan' = [chan EXCEPT ![m] = "none"] /\ ver' = [ver EXCEPT ![m] = 0]
        /\ UNCHANGED <<released, origin, clone, script, server>>
    BY <1>2 DEF Finish, Stop, Goto, git
  <1>4. /\ pc'[m] = "idle" /\ done'[c] = released[c]
        /\ \A d \in Channels \ {c} : done'[d] = done[d]
        /\ \A n \in Managers \ {m} : pc'[n] = pc[n] /\ chan'[n] = chan[n] /\ ver'[n] = ver[n]
    BY <1>1, <1>2, <1>3 DEF TypeOK
  <1>5. \A d \in Channels : Sending(d)' = Sending(d)
    BY <1>1, <1>4 DEF Sending
  <1>6. \A d \in Channels : LastPush(d)' = LastPush(d)
    BY <1>3, <1>5 DEF LastPush
  <1>7. \A d \in Channels : PushesOf(d)' /\ \A e \in Channels : OrderOf(d, e)'
    BY <1>3, <1>6, SamePushes DEF server
  <1>8. \A d \in Channels : DeploysLast(d)'
    BY <1>3, SameDeploys
  <1>9. \A d \in Channels : SentOnce(d)'
    <2>1. SentOnce(c)'
      BY <1>2, <1>3, <1>4, <1>5 DEF Queued, SentOnce
    <2>2. ASSUME NEW d \in Channels \ {c} PROVE SentOnce(d)'
      <3>1. ASSUME NEW n \in Managers, pc[n] = "marker", chan[n] = d
            PROVE  pc'[n] = "marker" /\ chan'[n] = d
        BY <1>1, <1>2, <1>4, <3>1
      <3> QED BY <1>3, <1>4, <1>5, <3>1 DEF Queued, SentOnce
    <2> QED BY <2>1, <2>2
  <1>10. \A n \in Managers : RunsOnce(n)'
    BY <1>1, <1>3, <1>4 DEF Queued, RunsOnce, Behind, Ahead
  <1> QED BY <1>7, <1>8, <1>9, <1>10 DEF Queued

LEMMA StepQueued == ASSUME SInv, Queued, NEW m \in Managers, Step(m) PROVE Queued'
  <1>1. pc[m] \in {"pull", "status"} => ~(Ahead(m) /\ ~Behind(m))
    BY DEF Queued, RunsOnce, Ahead
  <1>2. CASE PullFails(m) \/ PushFails(m)
    BY <1>1, <1>2, StopQueued DEF PullFails, PushFails, PushRefused
  <1>3. CASE Status(m)
    <2>1. CASE Modified(m)
      BY <1>1, <1>3, <2>1, StopQueued DEF Status
    <2>2. CASE ~Modified(m)
      BY <1>3, <2>2, FilesQueued DEF Status, git
    <2> QED BY <2>1, <2>2
  <1>4. CASE MoveOld(m) \/ Extract(m) \/ KeepOld(m)
    BY <1>4, FilesQueued DEF MoveOld, Extract, KeepOld
  <1>5. CASE CommitDirectory(m)
    <2>1. PICK d : Commit(m, {d})
      BY <1>5 DEF CommitDirectory
    <2>2. pc' = pc /\ Goto(m, "commit")
      BY <1>5 DEF CommitDirectory, Goto, SInv, WInv, FInv, IInv, TypeOK
    <2> QED BY <1>5, <2>1, <2>2, CommitQueued DEF CommitDirectory
  <1>6. CASE CommitAndroid(m) \/ CommitRest(m)
    BY <1>6, CommitQueued DEF CommitAndroid, CommitRest
  <1> QED BY <1>2, <1>3, <1>4, <1>5, <1>6, PullQueued, PushQueued, SendScriptQueued,
             FinishQueued DEF Step

-----------------------------------------------------------------------------
(* The server's steps.                                                     *)

LEMMA ServerQueued ==
    ASSUME SInv, Queued, UNCHANGED <<released, done, git, local, script, head>>,
           \A c \in Channels : DeploysLast(c)'
    PROVE  Queued'
  <1>1. \A c \in Channels : Sending(c)' = Sending(c) /\ LastPush(c)' = LastPush(c)
    BY DEF Sending, LastPush, local, git
  <1>2. \A c \in Channels : PushesOf(c)' /\ \A d \in Channels : OrderOf(c, d)'
    BY <1>1, SamePushes DEF git
  <1>3. \A c \in Channels : SentOnce(c)'
    BY <1>1 DEF Queued, SentOnce, git, local
  <1>4. \A m \in Managers : RunsOnce(m)'
    BY DEF Queued, RunsOnce, Behind, git, local, Ahead
  <1> QED BY <1>2, <1>3, <1>4 DEF Queued

\* All but the checkout.
LEMMA DeployQueued ==
    ASSUME SInv, Queued, NEW c \in Channels,
           DeployStart(c) \/ DeployCheck(c) \/ DeployRefused(c) \/ DeployStatic(c)
    PROVE  Queued'
  <1>1. TypeOK
    BY DEF SInv, WInv, FInv, IInv
  <1>2. UNCHANGED <<released, done, git, local, script, head>>
    BY DEF DeployStart, Run, DeployCheck, DeployRefused, DeployStatic
  <1>3. CASE DeployStart(c)
    <2>1. /\ dpc[c] = "idle" /\ live[c] # script[c].tree[c] /\ dpc'[c] = "check"
          /\ run'[c].tree = script[c].tree
          /\ \A d \in Channels \ {c} : dpc'[d] = dpc[d] /\ run'[d] = run[d]
          /\ live' = live
      BY <1>1, <1>3 DEF DeployStart, Run, TypeOK
    <2>2. \A d \in Channels : DeploysLast(d)'
      BY <1>2, <2>1 DEF Queued, DeploysLast
    <2> QED BY <1>2, <2>2, ServerQueued
  <1>4. CASE DeployCheck(c) \/ DeployRefused(c)
    <2>1. /\ dpc[c] # "static" /\ dpc'[c] # "static"
          /\ dpc'[c] \in {"check", "checkout"} => dpc[c] \in {"check", "checkout"}
          /\ \A d \in Channels \ {c} : dpc'[d] = dpc[d]
          /\ live' = live /\ run' = run
      BY <1>1, <1>4 DEF DeployCheck, DeployRefused, TypeOK
    <2>2. \A d \in Channels : DeploysLast(d)'
      BY <1>2, <2>1 DEF Queued, DeploysLast
    <2> QED BY <1>2, <2>2, ServerQueued
  <1>5. CASE DeployStatic(c)
    <2>1. /\ dpc'[c] = "idle" /\ \A d \in Channels \ {c} : dpc'[d] = dpc[d]
          /\ live' = head /\ run' = run
      BY <1>1, <1>5 DEF DeployStatic, TypeOK
    <2>2. \A d \in Channels : DeploysLast(d)'
      BY <1>2, <2>1 DEF Queued, DeploysLast
    <2> QED BY <1>2, <2>2, ServerQueued
  <1> QED BY <1>3, <1>4, <1>5

\* What is checked out is the channel's last push, and what is still to be deployed
\* was pushed later.
LEMMA DeployCheckoutQueued ==
    ASSUME SInv, Queued, named = 0, NEW c \in Channels, DeployCheckout(c)
    PROVE  Queued'
  <1>1. TypeOK /\ Scripts /\ FInv
    BY DEF SInv, WInv, FInv, IInv
  <1>2. /\ dpc[c] = "checkout" /\ head' = run[c].tree /\ dpc'[c] = "static"
        /\ \A d \in Channels \ {c} : dpc'[d] = dpc[d]
        /\ UNCHANGED <<released, done, git, local, script, run, live>>
    BY <1>1 DEF DeployCheckout, TypeOK
  <1>3. run[c].tree = script[c].tree /\ head[c] # script[c].tree[c]
    BY <1>2 DEF Queued, DeploysLast
  <1>4. \A d \in Channels \ {c} : head'[d] = head[d] /\ script[c].tree[d] = head[d]
    BY <1>1, <1>2, <1>3, CheckedForward
  <1>5. Sending(c) = {}
    <2> SUFFICES ASSUME NEW m \in Managers, pc[m] = "scp", chan[m] = c PROVE FALSE
      BY DEF Sending
    <2> QED BY <1>3, RunNotSent
  <1>6. LastPush(c) = {script[c].tree} /\ origin.tree[c] = script[c].tree[c] /\ Undeployed(c)
    BY <1>3, <1>5 DEF LastPush, Queued, SentOnce, Undeployed
  <1>7. origin' = origin /\ \A d \in Channels : LastPush(d)' = LastPush(d) /\ Sending(d)' = Sending(d)
    BY <1>2 DEF Sending, LastPush, git, local
  <1>8. ~Undeployed(c)' /\ \A d \in Channels \ {c} : Undeployed(d)' = Undeployed(d)
    BY <1>2, <1>3, <1>4, <1>6, <1>7 DEF Undeployed
  <1>9. \A d \in Channels : PushesOf(d)'
    <2>1. PushesOf(c)'
      BY <1>8 DEF PushesOf
    <2>2. ASSUME NEW d \in Channels \ {c}, Undeployed(d), NEW t \in LastPush(d)
          PROVE  \A e \in Channels : t[e] \in {head'[e], origin.tree[e]}
      <3>1. \A e \in Channels : t[e] \in {head[e], origin.tree[e]}
        BY <2>2 DEF Queued, PushesOf
      <3>2. script[c].tree[d] # origin.tree[d]
        BY <1>4, <2>2 DEF Undeployed
      <3>3. t[c] = origin.tree[c]
        BY <1>6, <2>2, <3>2 DEF Queued, OrderOf
      <3> QED BY <1>4, <3>1, <3>3
    <2> QED BY <1>7, <1>8, <2>1, <2>2 DEF PushesOf
  <1>10. \A d, e \in Channels : OrderOf(d, e)'
    BY <1>7, <1>8 DEF Queued, OrderOf
  <1>11. \A d \in Channels : DeploysLast(d)'
    BY <1>2, <1>4 DEF Queued, DeploysLast
  <1>12. \A d \in Channels : SentOnce(d)'
    BY <1>2, <1>7 DEF Queued, SentOnce, local
  <1>13. \A m \in Managers : RunsOnce(m)'
    BY <1>2 DEF Queued, RunsOnce, Behind, git, local, Ahead
  <1> QED BY <1>9, <1>10, <1>11, <1>12, <1>13 DEF Queued

LEMMA NextQueued ==
    ASSUME SInv, Queued, [Next]_vars, failures = 0, failures' = 0, named' = 0
    PROVE  Queued'
  <1>1. named = 0
    BY StaysNamed DEF SInv, WInv, FInv
  <1>2. CASE UNCHANGED vars \/ Terminated
    <2>1. UNCHANGED <<released, done, git, local, script, server>>
      BY <1>2 DEF vars, Terminated
    <2>2. \A c \in Channels : DeploysLast(c)'
      BY <2>1, SameDeploys
    <2> QED BY <2>1, <2>2, ServerQueued DEF server
  <1>3. /\ ~\E m \in Managers : Fail(m)
        /\ ~\E c \in Channels : DeployFails(c) \/ DeployNamed(c)
    BY <1>1 DEF Fail, DeployFails, DeployNamed
  <1>4. ASSUME NEW m \in Managers, Start(m) \/ Step(m) \/ Repair(m) PROVE Queued'
    BY <1>4, StartQueued, StepQueued, RepairQueued
  <1>5. ASSUME NEW c \in Channels, NewVersion(c) \/ DeployStep(c) PROVE Queued'
    BY <1>1, <1>5, NewVersionQueued, DeployQueued, DeployCheckoutQueued DEF DeployStep
  <1> QED BY <1>2, <1>3, <1>4, <1>5 DEF Next

LEMMA NextQInv == ASSUME QInv, DeployFirst, [Next]_vars PROVE QInv'
  <1>1. IInv'
    BY NextIInv DEF QInv
  <1>2. named' = 0 => named = 0
    BY StaysNamed DEF QInv
  <1>3. named' = 0 => SInv'
    BY <1>2, NextSInv DEF QInv
  <1>4. failures' = 0 => failures = 0
    <2>1. failures \in Nat
      BY DEF QInv, IInv, TypeOK
    <2>2. failures' = failures \/ failures' = failures + 1
      BY DEF Next, Step, DeployStep, vars, Terminated, Start, Fail, Repair, Pull, PullFails, Status,
             MoveOld, Extract, KeepOld, CommitDirectory, CommitAndroid, CommitRest, Push, PushFails,
             SendScript, Finish, NewVersion, DeployStart, DeployNamed, Run, DeployCheck,
             DeployRefused, DeployCheckout, DeployStatic, DeployFails
    <2> QED BY <2>1, <2>2
  <1>5. named' = 0 /\ failures' = 0 => Queued'
    BY <1>2, <1>4, NextQueued DEF QInv
  <1> QED BY <1>1, <1>3, <1>5 DEF QInv

-----------------------------------------------------------------------------
(* The push that comes first in the order has nothing but its channel's.    *)

\* Of the scripts that are not deployed, one has no more than any other.
LEMMA FirstPending ==
    ASSUME SInv, named = 0, Pending # {}
    PROVE  \E c \in Pending : \A d \in Pending : UpTo(script[c].tree, script[d].tree)
  <1> DEFINE Before(c) == {d \in Pending : UpTo(script[d].tree, script[c].tree)}
             Sizes == {Cardinality(Before(c)) : c \in Pending}
  <1>1. TypeOK /\ Branch
    BY DEF SInv, WInv, FInv, IInv
  <1>2. \A c \in Channels : script[c].tree \in Tree
    BY <1>1 DEF TypeOK
  <1>3. Pending \subseteq Channels /\ IsFiniteSet(Pending)
    BY FiniteAssumption, FS_Subset DEF Pending
  <1>4. \A c \in Pending : IsFiniteSet(Before(c)) /\ Cardinality(Before(c)) \in Nat
    BY <1>3, FS_Subset, FS_CardinalityType
  <1>5. Sizes \subseteq Nat /\ Sizes # {}
    BY <1>4
  <1>6. PICK k \in Sizes : \A j \in Sizes : ~(j < k)
    <2> HIDE DEF Sizes
    <2>1. PICK k \in Sizes : \A j \in Sizes : <<j, k>> \notin OpToRel(<, Nat)
      BY <1>5, WFMin, NatLessThanWellFounded
    <2> QED BY <1>5, <2>1 DEF OpToRel
  <1>7. PICK c \in Pending : k = Cardinality(Before(c))
    OBVIOUS
  <1>8. ASSUME NEW d \in Pending, ~UpTo(script[c].tree, script[d].tree) PROVE FALSE
    <2>1. UpTo(script[d].tree, script[c].tree)
      BY <1>1, <1>3, <1>8 DEF Branch, PushedTrees
    <2>2. Before(d) \subseteq Before(c)
      BY <1>2, <1>3, <2>1, UpToTrans
    <2>3. c \in Before(c) /\ c \notin Before(d)
      BY <1>2, <1>3, <1>8, UpToSelf
    <2> HIDE DEF Before
    <2>4. Cardinality(Before(d)) < Cardinality(Before(c))
      <3>1. Before(d) # Before(c)
        BY <2>3
      <3>2. Cardinality(Before(d)) <= Cardinality(Before(c))
        BY <1>4, <2>2, FS_Subset
      <3>3. Cardinality(Before(d)) # Cardinality(Before(c))
        BY <1>4, <2>2, <3>1, FS_Subset
      <3> QED BY <1>4, <3>2, <3>3
    <2>5. Cardinality(Before(d)) \in Sizes
      OBVIOUS
    <2> HIDE DEF Sizes
    <2> QED BY <1>6, <1>7, <2>4, <2>5
  <1> QED BY <1>8

LEMMA FirstIsFree ==
    ASSUME SInv, Queued, named = 0, \A m \in Managers : pc[m] # "scp"
    PROVE  ~Blocked
  <1> SUFFICES ASSUME Pending # {}
               PROVE  \E c \in Pending : ~HasOtherLine(c, script[c].tree)
    BY DEF Blocked
  <1>1. PICK c \in Pending : \A d \in Pending : UpTo(script[c].tree, script[d].tree)
    BY FirstPending
  <1>2. c \in Channels /\ head[c] # script[c].tree[c]
    BY DEF Pending
  <1>3. \A d \in Channels : /\ LastPush(d) = {script[d].tree}
                            /\ origin.tree[d] = script[d].tree[d]
                            /\ Undeployed(d) <=> d \in Pending
    <2>1. \A d \in Channels : Sending(d) = {}
      BY DEF Sending
    <2>2. \A d \in Channels : origin.tree[d] = script[d].tree[d]
      BY <2>1 DEF Queued, SentOnce
    <2> QED BY <2>1, <2>2 DEF LastPush, Undeployed, Pending
  <1>4. \A d \in Channels : script[c].tree[d] \in {head[d], script[d].tree[d]}
    BY <1>2, <1>3 DEF Queued, PushesOf
  <1>5. ASSUME NEW d \in Channels \ {c} PROVE script[c].tree[d] = head[d]
    <2> SUFFICES ASSUME script[c].tree[d] # head[d] PROVE FALSE
      OBVIOUS
    <2>1. script[c].tree[d] = script[d].tree[d] /\ d \in Pending
      BY <1>4 DEF Pending
    <2>2. script[d].tree[c] # origin.tree[c]
      BY <1>2, <1>3, <2>1 DEF Queued, OrderOf
    <2>3. script[d].tree[c] = head[c]
      BY <1>2, <1>3, <2>1, <2>2 DEF Queued, PushesOf
    <2>4. Upward(script[c].tree[c], head[c]) /\ Upward(head[c], script[c].tree[c])
      BY <1>1, <1>2, <2>1, <2>3 DEF UpTo, SInv, WInv, FInv, Forward, ForwardOf
    <2>5. head[c] \in [Items -> Nat] /\ script[c].tree[c] \in [Items -> Nat]
      BY <1>2, ChannelType DEF SInv, WInv, FInv, IInv
    <2>6. \A i \in Items : head[c][i] = script[c].tree[c][i]
      BY <2>4, <2>5 DEF Upward
    <2> QED BY <1>2, <2>5, <2>6
  <1>6. ChangedChannels(script[c].tree) = {c}
    BY <1>2, <1>5 DEF ChangedChannels
  <1> QED BY <1>6 DEF HasOtherLine

\* If each version of a channel is deployed before the next one is started, no run and
\* no deployment has failed and no commit has been named, the channels never keep
\* each other from being deployed: once the scripts are sent, one of them has no
\* changes but its own.
THEOREM NotBlocked == ASSUME DeployFirst PROVE Spec => []NotBlockedByItself
  <1>1. Init => QInv
    BY InitIInv, InitSInv, InitQueued DEF QInv
  <1>2. QInv /\ [Next]_vars => QInv'
    BY NextQInv
  <1>3. QInv => NotBlockedByItself
    BY FirstIsFree DEF QInv, NotBlockedByItself
  <1> QED BY <1>1, <1>2, <1>3, PTL DEF Spec
=============================================================================

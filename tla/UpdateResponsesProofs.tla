------------------------ MODULE UpdateResponsesProofs ------------------------
(***************************************************************************)
(* Theorems about UpdateResponses, for any platforms, targets, old and new *)
(* versions and mars.  Each platform's directory was made for the last     *)
(* version that has a mar for it; the rules of that directory say what a   *)
(* user of any version is answered, and the rules for old versions are     *)
(* compared with the watershed releases, version part by version part.     *)
(***************************************************************************)
EXTENDS UpdateResponses, FiniteSetTheorems, WellFoundedInduction, TLAPS

-----------------------------------------------------------------------------
(* First elements of sequences.                                             *)

LEMMA MinOf ==
    ASSUME NEW I, I \subseteq Nat, I # {}
    PROVE  Min(I) \in I /\ \A j \in I : Min(I) <= j
<1> DEFINE R == OpToRel(<, Nat)
<1>1. IsWellFoundedOn(R, Nat)
  BY NatLessThanWellFounded
<1> HIDE DEF R
<1>2. PICK i \in I : \A j \in I : ~ (<<j, i>> \in R)
  BY <1>1, WFMin
<1>3. \A j \in I : ~ (j < i)
  BY <1>2 DEF R, OpToRel
<1>4. \A j \in I : i <= j
  BY <1>3
<1> QED
  BY <1>4 DEF Min

\* The first of the indices of a sequence that are selected, 0 if there are none.
First(I) == IF I # {} THEN Min(I) ELSE 0

LEMMA FirstFacts ==
    ASSUME NEW n \in Nat, NEW I, I \subseteq 1 .. n
    PROVE  \/ I = {} /\ First(I) = 0
           \/ First(I) \in I /\ First(I) \in 1 .. n /\ \A j \in I : First(I) <= j
<1>1. CASE I = {}
  BY <1>1 DEF First
<1>2. CASE I # {}
  <2>1. I \subseteq Nat
    OBVIOUS
  <2>2. Min(I) \in I /\ \A j \in I : Min(I) <= j
    BY <1>2, <2>1, MinOf
  <2> QED
    BY <1>2, <2>2 DEF First
<1> QED
  BY <1>1, <1>2

\* The rule that redirects a version.
Matching(v) == {i \in 1 .. Len(RewriteRules) : v \in RewriteRules[i].match}

LEMMA RedirectFacts ==
    ASSUME NEW v
    PROVE  \/ Matching(v) = {} /\ Redirect(v) = "none"
           \/ \E i \in Matching(v) : Redirect(v) = RewriteRules[i].dir /\ \A j \in Matching(v) : i <= j
<1>1. Len(RewriteRules) \in Nat
  BY DEF RewriteRules, AlphaRules, ReleaseRules
<1>2. SelectInSeq(RewriteRules, LAMBDA r : v \in r.match) = First(Matching(v))
  BY DEF SelectInSeq, First, Matching
<1>3. Redirect(v) = IF First(Matching(v)) = 0 THEN "none" ELSE RewriteRules[First(Matching(v))].dir
  BY <1>2 DEF Redirect
<1>4. Matching(v) \subseteq 1 .. Len(RewriteRules)
  BY DEF Matching
<1>5. \/ Matching(v) = {} /\ First(Matching(v)) = 0
      \/ First(Matching(v)) \in Matching(v) /\ First(Matching(v)) \in 1 .. Len(RewriteRules)
         /\ \A j \in Matching(v) : First(Matching(v)) <= j
  BY <1>1, <1>4, FirstFacts
<1> QED
  BY <1>1, <1>3, <1>5

\* The rule of a directory that answers a request for a version.
Answering(rules, v) == {i \in 1 .. Len(rules) : rules[i].from \in {v, AnyVersion}}

LEMMA AnswerIs ==
    ASSUME NEW t, NEW v
    PROVE  LET dir == htdocs[OsOf[t]]
               i == First(Answering(dir.rules, v))
           IN  Answer(t, v) = IF i = 0 THEN NoOffer
                              ELSE IF dir.rules[i].name \in DOMAIN dir.responses
                                   THEN dir.responses[dir.rules[i].name] ELSE NoOffer
<1> DEFINE rules == htdocs[OsOf[t]].rules
<1>1. SelectInSeq(rules, LAMBDA r : r.from \in {v, AnyVersion}) = First(Answering(rules, v))
  BY DEF SelectInSeq, First, Answering
<1> QED
  BY <1>1 DEF Answer

\* The elements of a finite set, one after the other.
LEMMA SetToSeqFacts ==
    ASSUME NEW S, IsFiniteSet(S)
    PROVE  /\ SetToSeq(S) \in Seq(S)
           /\ \A x \in S : \E i \in 1 .. Len(SetToSeq(S)) : SetToSeq(S)[i] = x
<1> DEFINE n == Cardinality(S)
<1>1. n \in Nat
  BY FS_CardinalityType
<1>2. PICK f : f \in Bijection(1 .. n, S)
  BY FS_CardinalityType DEF ExistsBijection
<1>3. f \in [1 .. n -> S] /\ IsInjective(f)
  BY <1>2 DEF Bijection, Injection, IsInjective
<1> DEFINE s == SetToSeq(S)
<1>4. s \in [1 .. n -> S] /\ IsInjective(s)
  <2> HIDE DEF n
  <2> QED
    BY <1>3 DEF SetToSeq, n
<1>5. s \in Seq(S) /\ Len(s) = n
  <2> HIDE DEF n, s
  <2> QED
    BY <1>1, <1>4
<1>6. s \in Injection(1 .. n, S)
  BY <1>4 DEF Injection, IsInjective
<1>7. Cardinality(1 .. n) = n /\ IsFiniteSet(1 .. n)
  <2>1. 1 \in Int /\ n \in Int
    BY <1>1
  <2> HIDE DEF n
  <2> QED
    BY <1>1, <2>1, FS_Interval
<1>8. s \in Surjection(1 .. n, S)
  <2> HIDE DEF s
  <2> QED
    BY <1>6, <1>7, FS_Injection
<1> QED
  BY <1>5, <1>8 DEF Surjection

-----------------------------------------------------------------------------
(* What write_htaccess and write_responses make of a version's files.       *)

Rules(f, os) == {[from |-> from, name |-> UpdateFrom(from)] : from \in f[os].partial}

LEMMA RulesAreFinite ==
    ASSUME NEW f, NEW os, IsFiniteSet(f[os].partial)
    PROVE  IsFiniteSet(Rules(f, os))
<1> DEFINE g == [from \in f[os].partial |-> [from |-> from, name |-> UpdateFrom(from)]]
<1>1. g \in Surjection(f[os].partial, Rules(f, os))
  BY DEF Rules, Surjection
<1> HIDE DEF g
<1> QED
  BY <1>1, FS_Surjection

\* The file's first rule, those in the middle, and the last one.
LEMMA HtaccessFacts ==
    ASSUME NEW w, NEW f, NEW os, IsFiniteSet(f[os].partial)
    PROVE  \E n \in Nat : LET rules == WriteHtaccess(w, f, os) IN
              /\ Len(rules) = n + 2
              /\ rules[1] = [from |-> w, name |-> NoUpdate]
              /\ rules[n + 2] = [from |-> AnyVersion, name |-> Update]
              /\ \A i \in 2 .. n + 1 : rules[i] \in Rules(f, os)
              /\ \A r \in Rules(f, os) : \E i \in 2 .. n + 1 : rules[i] = r
<1> DEFINE s == SetToSeq(Rules(f, os))
           a == [from |-> w, name |-> NoUpdate]
           z == [from |-> AnyVersion, name |-> Update]
           rules == <<a>> \o s \o <<z>>
           T == Rules(f, os) \cup {a, z}
<1>1. s \in Seq(Rules(f, os)) /\ \A r \in Rules(f, os) : \E i \in 1 .. Len(s) : s[i] = r
  BY RulesAreFinite, SetToSeqFacts
<1>2. WriteHtaccess(w, f, os) = rules
  BY DEF WriteHtaccess, Rules
<1>3. Len(s) \in Nat /\ s \in Seq(T) /\ a \in T /\ z \in T
  BY <1>1
<1> HIDE DEF s, a, z, T
<1>4. /\ Len(rules) = Len(s) + 2 /\ rules[1] = a /\ rules[Len(s) + 2] = z
      /\ \A i \in 2 .. Len(s) + 1 : rules[i] = s[i - 1]
  BY <1>3
<1> HIDE DEF rules
<1>5. \A i \in 2 .. Len(s) + 1 : rules[i] \in Rules(f, os)
  <2> TAKE i \in 2 .. Len(s) + 1
  <2>1. i - 1 \in 1 .. Len(s) /\ rules[i] = s[i - 1]
    BY <1>3, <1>4
  <2> QED
    BY <1>1, <2>1
<1>6. ASSUME NEW r \in Rules(f, os) PROVE \E i \in 2 .. Len(s) + 1 : rules[i] = r
  <2>1. PICK k \in 1 .. Len(s) : s[k] = r
    BY <1>1
  <2>2. k + 1 \in 2 .. Len(s) + 1 /\ (k + 1) - 1 = k
    BY <1>3
  <2>3. rules[k + 1] = r
    BY <1>4, <2>1, <2>2
  <2> QED
    BY <2>2, <2>3
<1>7. rules[1] = [from |-> w, name |-> NoUpdate] /\ rules[Len(s) + 2] = [from |-> AnyVersion, name |-> Update]
  BY <1>4 DEF a, z
<1> QED
  BY <1>2, <1>3, <1>4, <1>5, <1>6, <1>7

LEMMA NamesDiffer ==
    /\ Update # NoUpdate
    /\ \A v : UpdateFrom(v) # NoUpdate /\ UpdateFrom(v) # Update /\ UpdateFrom(v)[2] = v
<1>1. Update # NoUpdate
  BY DEF Update, NoUpdate
<1>2. ASSUME NEW v PROVE UpdateFrom(v) # NoUpdate /\ UpdateFrom(v) # Update /\ UpdateFrom(v)[2] = v
  <2>1. Len(<<"update", v>>) = 2 /\ Len(<<"update">>) = 1 /\ Len(<<"no-update">>) = 1
    OBVIOUS
  <2>2. <<"update", v>>[2] = v
    OBVIOUS
  <2> QED
    BY <2>1, <2>2 DEF UpdateFrom, Update, NoUpdate
<1> QED
  BY <1>1, <1>2

LEMMA ResponsesFacts ==
    ASSUME NEW w, NEW f, NEW os
    PROVE  LET responses == WriteResponses(w, f, os) IN
           /\ NoUpdate \in DOMAIN responses /\ responses[NoUpdate] = NoOffer
           /\ Update \in DOMAIN responses /\ responses[Update] = GetResponse(w, f, os, NoVersion)
           /\ \A v \in f[os].partial :
                 /\ UpdateFrom(v) \in DOMAIN responses
                 /\ responses[UpdateFrom(v)] = GetResponse(w, f, os, v)
<1> DEFINE responses == WriteResponses(w, f, os)
           D == {Update, NoUpdate} \cup {UpdateFrom(from) : from \in f[os].partial}
<1>1. /\ DOMAIN responses = D
      /\ \A name \in D : responses[name] = IF name = NoUpdate THEN NoOffer
            ELSE GetResponse(w, f, os, IF name = Update THEN NoVersion ELSE name[2])
  BY DEF WriteResponses
<1> HIDE DEF responses
<1>2. NoUpdate \in D /\ Update \in D /\ \A v \in f[os].partial : UpdateFrom(v) \in D
  OBVIOUS
<1> HIDE DEF D
<1>3. responses[NoUpdate] = NoOffer
  BY <1>1, <1>2
<1>4. responses[Update] = GetResponse(w, f, os, NoVersion)
  BY <1>1, <1>2, NamesDiffer
<1>5. ASSUME NEW v \in f[os].partial PROVE responses[UpdateFrom(v)] = GetResponse(w, f, os, v)
  <2>1. UpdateFrom(v) # NoUpdate /\ UpdateFrom(v) # Update /\ UpdateFrom(v)[2] = v
    BY NamesDiffer
  <2> QED
    BY <1>1, <1>2, <2>1
<1> QED
  BY <1>1, <1>2, <1>3, <1>4, <1>5 DEF responses

\* What users of any version are answered in a directory that was made for version w.
LEMMA AnswerGenerated ==
    ASSUME NEW t, NEW v, NEW w, NEW f, NEW os,
           v # NoVersion, w # NoVersion, NoVersion \notin f[os].partial, IsFiniteSet(f[os].partial),
           os \in PlatformsOf(f), htdocs[OsOf[t]] = Generated(w, f)[os]
    PROVE  Answer(t, v) =
             IF v = w THEN NoOffer
             ELSE IF v \in f[os].partial THEN [to |-> w, partial |-> v]
             ELSE IF f[os].complete THEN [to |-> w, partial |-> NoVersion] ELSE NoOffer
<1> DEFINE rules == WriteHtaccess(w, f, os)
           responses == WriteResponses(w, f, os)
           A == Answering(rules, v)
           k == First(A)
<1>1. htdocs[OsOf[t]].rules = rules /\ htdocs[OsOf[t]].responses = responses
  BY DEF Generated
<1>2. Answer(t, v) = IF k = 0 THEN NoOffer
                     ELSE IF rules[k].name \in DOMAIN responses THEN responses[rules[k].name] ELSE NoOffer
  <2> HIDE DEF rules, responses
  <2>1. LET dir == htdocs[OsOf[t]]
            i == First(Answering(dir.rules, v))
        IN  Answer(t, v) = IF i = 0 THEN NoOffer
                           ELSE IF dir.rules[i].name \in DOMAIN dir.responses
                                THEN dir.responses[dir.rules[i].name] ELSE NoOffer
    BY AnswerIs
  <2> QED
    BY <1>1, <2>1
<1>3. PICK n \in Nat :
        /\ Len(rules) = n + 2
        /\ rules[1] = [from |-> w, name |-> NoUpdate]
        /\ rules[n + 2] = [from |-> AnyVersion, name |-> Update]
        /\ \A i \in 2 .. n + 1 : rules[i] \in Rules(f, os)
        /\ \A r \in Rules(f, os) : \E i \in 2 .. n + 1 : rules[i] = r
  BY HtaccessFacts
<1>4. /\ NoUpdate \in DOMAIN responses /\ responses[NoUpdate] = NoOffer
      /\ Update \in DOMAIN responses /\ responses[Update] = GetResponse(w, f, os, NoVersion)
      /\ \A x \in f[os].partial :
            /\ UpdateFrom(x) \in DOMAIN responses
            /\ responses[UpdateFrom(x)] = GetResponse(w, f, os, x)
  BY ResponsesFacts
<1> HIDE DEF rules, responses
<1>5. A = {i \in 1 .. n + 2 : rules[i].from = v \/ rules[i].from = AnyVersion}
  BY <1>3 DEF Answering
<1>6. n + 2 \in A /\ A \subseteq 1 .. n + 2
  BY <1>3, <1>5
<1> HIDE DEF A
<1>7. k \in A /\ k \in 1 .. n + 2 /\ (\A j \in A : k <= j) /\ k # 0
  <2>1. n + 2 \in Nat
    OBVIOUS
  <2> QED
    BY <1>6, <2>1, FirstFacts
<1>8. Answer(t, v) = IF rules[k].name \in DOMAIN responses THEN responses[rules[k].name] ELSE NoOffer
  BY <1>2, <1>7
<1> HIDE DEF k
<1>9. \A i \in 2 .. n + 1 : rules[i].from \in f[os].partial /\ rules[i].name = UpdateFrom(rules[i].from)
  BY <1>3 DEF Rules
<1>10. CASE v = w
  <2>1. 1 \in A
    BY <1>3, <1>5, <1>10
  <2>2. k = 1
    BY <1>7, <2>1
  <2> QED
    BY <1>3, <1>4, <1>8, <1>10, <2>2
<1>11. CASE v # w /\ v \in f[os].partial
  <2>1. PICK i \in 2 .. n + 1 : rules[i] = [from |-> v, name |-> UpdateFrom(v)]
    BY <1>3, <1>11 DEF Rules
  <2>2. i \in A
    BY <1>5, <2>1
  <2>3. 1 \notin A
    BY <1>3, <1>5, <1>11 DEF AnyVersion
  <2>4. k \in 2 .. n + 1
    BY <1>7, <2>2, <2>3
  <2>5. rules[k].from = v
    <3>1. rules[k].from \in f[os].partial
      BY <1>9, <2>4
    <3> QED
      BY <1>5, <1>7, <3>1 DEF AnyVersion
  <2>6. rules[k].name = UpdateFrom(v)
    BY <1>9, <2>4, <2>5
  <2>7. GetResponse(w, f, os, v) = [to |-> w, partial |-> v]
    BY <1>11 DEF GetResponse
  <2> QED
    BY <1>4, <1>8, <1>11, <2>6, <2>7
<1>12. CASE v # w /\ v \notin f[os].partial
  <2>1. 1 \notin A
    BY <1>3, <1>5, <1>12 DEF AnyVersion
  <2>2. ASSUME NEW i \in 2 .. n + 1 PROVE i \notin A
    BY <1>5, <1>9, <1>12 DEF AnyVersion
  <2>3. k = n + 2
    BY <1>7, <2>1, <2>2
  <2>4. GetResponse(w, f, os, NoVersion) = IF f[os].complete THEN [to |-> w, partial |-> NoVersion] ELSE NoOffer
    BY DEF GetResponse
  <2> QED
    BY <1>3, <1>4, <1>8, <1>12, <2>3, <2>4
<1> QED
  BY <1>10, <1>11, <1>12

-----------------------------------------------------------------------------
(* The rules for old versions.                                              *)

LEMMA FourParts ==
    ASSUME NEW A, NEW B, NEW C, NEW D, NEW v \in A \X B \X C \X D
    PROVE  v # <<>> /\ v[1] \in A /\ v[2] \in B /\ v[3] \in C /\ v[4] \in D
  OBVIOUS

LEMMA NumberedFacts ==
    ASSUME NEW c, NEW v \in Numbered(c)
    PROVE  /\ v # NoVersion
           /\ v[1] \in Nat /\ v[1] > 3 /\ v[2] \in {0, 5} /\ v[4] \in Nat
           /\ c = "alpha" => v[3] = "a" /\ v[4] > 0
           /\ c # "alpha" => v[3] \in {"", "."} /\ (v[3] = "." <=> v[4] > 0)
<1>1. v \in Nat \X {0, 5} \X {"a", "", "."} \X Nat
  BY DEF Numbered
<1>2. /\ v[1] > 3
      /\ IF c = "alpha" THEN v[3] = "a" /\ v[4] > 0 ELSE v[3] # "a" /\ (v[3] = "." <=> v[4] > 0)
  BY DEF Numbered
<1>3. v[1] \in Nat /\ v[2] \in {0, 5} /\ v[3] \in {"a", "", "."} /\ v[4] \in Nat
  BY <1>1
<1>4. v # <<>>
  <2> DEFINE A == Nat
             B == {0, 5}
             C == {"a", "", "."}
  <2>1. v \in A \X B \X C \X A
    BY <1>1
  <2> HIDE DEF A, B, C
  <2> QED
    BY <2>1, FourParts
<1> QED
  BY <1>2, <1>3, <1>4 DEF NoVersion

\* The order of versions, by their parts.
LEMMA BeforeFacts ==
    ASSUME NEW v, NEW w
    PROVE  Before(v, w) <=>
             \/ v[1] < w[1]
             \/ v[1] = w[1] /\ v[2] < w[2]
             \/ v[1] = w[1] /\ v[2] = w[2] /\ Rank(v) < Rank(w)
             \/ v[1] = w[1] /\ v[2] = w[2] /\ Rank(v) = Rank(w) /\ v[4] < w[4]
<1> DEFINE x == <<v[1], v[2], Rank(v), v[4]>>
           y == <<w[1], w[2], Rank(w), w[4]>>
<1>1. /\ x[1] = v[1] /\ x[2] = v[2] /\ x[3] = Rank(v) /\ x[4] = v[4]
      /\ y[1] = w[1] /\ y[2] = w[2] /\ y[3] = Rank(w) /\ y[4] = w[4]
  OBVIOUS
<1>2. Before(v, w) <=> \E i \in 1 .. 4 : x[i] < y[i] /\ \A j \in 1 .. i - 1 : x[j] = y[j]
  BY DEF Before
<1> HIDE DEF x, y
<1>3. \A j : /\ j \in 1 .. 1 - 1 <=> FALSE
             /\ j \in 1 .. 2 - 1 <=> j = 1
             /\ j \in 1 .. 3 - 1 <=> j = 1 \/ j = 2
             /\ j \in 1 .. 4 - 1 <=> j = 1 \/ j = 2 \/ j = 3
  OBVIOUS
<1>4. Before(v, w) <=>
             \/ x[1] < y[1]
             \/ x[1] = y[1] /\ x[2] < y[2]
             \/ x[1] = y[1] /\ x[2] = y[2] /\ x[3] < y[3]
             \/ x[1] = y[1] /\ x[2] = y[2] /\ x[3] = y[3] /\ x[4] < y[4]
  <2>1. \A i : i \in 1 .. 4 <=> i = 1 \/ i = 2 \/ i = 3 \/ i = 4
    OBVIOUS
  <2> QED
    BY <1>2, <1>3, <2>1
<1> QED
  BY <1>1, <1>4

Ours == OldVersions[channel] \cup ToSet(Series)

LEMMA OursFacts ==
    ASSUME channel \in Channels
    PROVE  /\ Ours \subseteq Versions /\ Ours \subseteq Numbered(channel)
           /\ Len(Series) \in Nat
           /\ \A i \in 1 .. Len(Series) : Series[i] \in Ours
           /\ \A i, j \in 1 .. Len(Series) : Series[i] = Series[j] => i = j
<1>1. /\ Series \in Seq(Numbered(channel)) /\ IsInjective(Series)
      /\ OldVersions[channel] \subseteq Numbered(channel)
  BY SeriesAssumption DEF Series
<1>2. DOMAIN Series = 1 .. Len(Series) /\ Len(Series) \in Nat
      /\ \A i \in 1 .. Len(Series) : Series[i] \in Numbered(channel)
  BY <1>1
<1>3. ToSet(Series) = {Series[i] : i \in 1 .. Len(Series)}
  BY <1>2 DEF ToSet
<1>4. Ours \subseteq Versions
  BY DEF Ours, Versions, Series
<1>5. \A i, j \in 1 .. Len(Series) : Series[i] = Series[j] => i = j
  BY <1>1, <1>2 DEF IsInjective
<1> QED
  BY <1>1, <1>2, <1>3, <1>4, <1>5 DEF Ours

LEMMA AlphaFacts ==
    ASSUME channel = "alpha", NEW v \in Versions \cap Numbered("alpha")
    PROVE  /\ Before(v, <<8, 0, "a", 9>>) => Matching(v) \cap {1, 2} # {}
           /\ Before(v, <<13, 5, "a", 10>>) => Matching(v) \cap (1 .. 6) # {}
           /\ Before(v, <<14, 0, "a", 4>>) => v \in LateAlphas \/ Matching(v) \cap (1 .. 7) # {}
<1> DEFINE M == v[1]
           m == v[2]
           n == v[4]
<1>1. /\ M \in Nat /\ M > 3 /\ m \in {0, 5} /\ n \in Nat /\ n > 0
      /\ v[3] = "a" /\ Rank(v) = 0
  BY NumberedFacts DEF Rank
<1>2. RewriteRules = AlphaRules
  BY DEF RewriteRules
<1>3. /\ Len(AlphaRules) = 7
      /\ AlphaRules[1].match = Exact(8, 0, "a", 1 .. 8)
      /\ AlphaRules[2].match = Major(4 .. 7)
      /\ AlphaRules[3].match = Major(0 .. 9)
      /\ AlphaRules[4].match = Major(10 .. 12)
      /\ AlphaRules[5].match = Minor({13}, {0})
      /\ AlphaRules[6].match = Exact(13, 5, "a", 0 .. 9)
      /\ AlphaRules[7].match = Exact(14, 0, "a", 1 .. 3)
  BY DEF AlphaRules, Rule
<1>4. \A i \in 1 .. 7 : i \in Matching(v) <=> v \in AlphaRules[i].match
  BY <1>2, <1>3 DEF Matching
<1>5. /\ 1 \in Matching(v) <=> M = 8 /\ m = 0 /\ n \in 1 .. 8
      /\ 2 \in Matching(v) <=> M \in 4 .. 7
      /\ 3 \in Matching(v) <=> M \in 0 .. 9
      /\ 4 \in Matching(v) <=> M \in 10 .. 12
      /\ 5 \in Matching(v) <=> M = 13 /\ m = 0
      /\ 6 \in Matching(v) <=> M = 13 /\ m = 5 /\ n \in 0 .. 9
      /\ 7 \in Matching(v) <=> M = 14 /\ m = 0 /\ n \in 1 .. 3
  BY <1>1, <1>3, <1>4 DEF Exact, Major, Minor
<1>6. /\ Before(v, <<8, 0, "a", 9>>) => M < 8 \/ (M = 8 /\ (m < 0 \/ (m = 0 /\ n < 9)))
      /\ Before(v, <<13, 5, "a", 10>>) => M < 13 \/ (M = 13 /\ (m < 5 \/ (m = 5 /\ n < 10)))
      /\ Before(v, <<14, 0, "a", 4>>) => M < 14 \/ (M = 14 /\ (m < 0 \/ (m = 0 /\ n < 4)))
  <2> DEFINE x == <<8, 0, "a", 9>>
             y == <<13, 5, "a", 10>>
             z == <<14, 0, "a", 4>>
  <2>1. x[1] = 8 /\ x[2] = 0 /\ x[4] = 9 /\ Rank(x) = 0
    BY DEF Rank
  <2>2. y[1] = 13 /\ y[2] = 5 /\ y[4] = 10 /\ Rank(y) = 0
    BY DEF Rank
  <2>3. z[1] = 14 /\ z[2] = 0 /\ z[4] = 4 /\ Rank(z) = 0
    BY DEF Rank
  <2>4. Rank(v) = 0
    BY <1>1
  <2> HIDE DEF x, y, z
  <2>5. ~ (0 < 0)
    OBVIOUS
  <2>6. Before(v, x) => M < 8 \/ (M = 8 /\ (m < 0 \/ (m = 0 /\ n < 9)))
    BY <2>1, <2>4, <2>5, BeforeFacts
  <2>7. Before(v, y) => M < 13 \/ (M = 13 /\ (m < 5 \/ (m = 5 /\ n < 10)))
    BY <2>2, <2>4, <2>5, BeforeFacts
  <2>8. Before(v, z) => M < 14 \/ (M = 14 /\ (m < 0 \/ (m = 0 /\ n < 4)))
    BY <2>3, <2>4, <2>5, BeforeFacts
  <2> QED
    BY <2>6, <2>7, <2>8 DEF x, y, z
<1>7. M \in Nat /\ M > 3 /\ m \in {0, 5} /\ n \in Nat /\ n > 0
  BY <1>1
<1> HIDE DEF M, m, n
<1>8. Before(v, <<8, 0, "a", 9>>) => 1 \in Matching(v) \/ 2 \in Matching(v)
  BY <1>5, <1>6, <1>7
<1>9. Before(v, <<13, 5, "a", 10>>) => \E i \in 1 .. 6 : i \in Matching(v)
  BY <1>5, <1>6, <1>7
<1>10. Before(v, <<14, 0, "a", 4>>) =>
          (M = 13 /\ m = 5 /\ n > 9) \/ \E i \in 1 .. 7 : i \in Matching(v)
  BY <1>5, <1>6, <1>7
<1>11. M = 13 /\ m = 5 /\ n > 9 => v \in LateAlphas
  BY <1>1 DEF LateAlphas, M, m, n
<1> QED
  BY <1>8, <1>9, <1>10, <1>11

LEMMA ReleaseFacts ==
    ASSUME channel = "release", NEW v \in Versions \cap Numbered("release")
    PROVE  /\ Before(v, <<8, 0, "", 0>>) => 1 \in Matching(v)
           /\ Before(v, <<11, 5, ".", 8>>) => Matching(v) \cap (1 .. 6) # {}
           /\ Before(v, <<13, 5, ".", 7>>) => Matching(v) \cap (1 .. 10) # {}
<1> DEFINE M == v[1]
           m == v[2]
           n == v[4]
           dot == v[3] = "."
<1>0. /\ v[1] \in Nat /\ v[1] > 3 /\ v[2] \in {0, 5} /\ v[4] \in Nat
      /\ v[3] \in {"", "."} /\ (v[3] = "." <=> v[4] > 0)
  <2>1. "release" # "alpha"
    OBVIOUS
  <2> QED
    BY <2>1, NumberedFacts
<1>1. M \in Nat /\ M > 3 /\ m \in {0, 5} /\ n \in Nat
  BY <1>0
<1>2. Rank(v) = IF dot THEN 2 ELSE 1
  BY <1>0 DEF Rank
<1>dot. dot <=> n > 0
  BY <1>0
<1>3. RewriteRules = ReleaseRules
  BY DEF RewriteRules
<1>4. /\ Len(ReleaseRules) = 13
      /\ ReleaseRules[1].match = Major(4 .. 7)
      /\ ReleaseRules[2].match = Major(8 .. 9)
      /\ ReleaseRules[3].match = Major({10})
      /\ ReleaseRules[4].match = Minor({11}, {0})
      /\ ReleaseRules[5].match = Exact(11, 5, "", {0})
      /\ ReleaseRules[6].match = Exact(11, 5, ".", 0 .. 7)
      /\ ReleaseRules[7].match = Minor({11, 12}, {0, 5})
      /\ ReleaseRules[8].match = Minor({13}, {0})
      /\ ReleaseRules[9].match = Exact(13, 5, "", {0})
      /\ ReleaseRules[10].match = Exact(13, 5, ".", 0 .. 6)
  BY DEF ReleaseRules, Rule
<1>5. \A i \in 1 .. 10 : i \in Matching(v) <=> v \in ReleaseRules[i].match
  <2>1. \A i \in 1 .. 10 : i \in 1 .. 13
    OBVIOUS
  <2>2. Matching(v) = {i \in 1 .. 13 : v \in ReleaseRules[i].match}
    BY <1>3, <1>4 DEF Matching
  <2> QED
    BY <2>1, <2>2
<1>6. /\ 1 \in Matching(v) <=> v \in Major(4 .. 7)
      /\ 2 \in Matching(v) <=> v \in Major(8 .. 9)
      /\ 3 \in Matching(v) <=> v \in Major({10})
      /\ 4 \in Matching(v) <=> v \in Minor({11}, {0})
      /\ 5 \in Matching(v) <=> v \in Exact(11, 5, "", {0})
      /\ 6 \in Matching(v) <=> v \in Exact(11, 5, ".", 0 .. 7)
      /\ 7 \in Matching(v) <=> v \in Minor({11, 12}, {0, 5})
      /\ 8 \in Matching(v) <=> v \in Minor({13}, {0})
      /\ 9 \in Matching(v) <=> v \in Exact(13, 5, "", {0})
      /\ 10 \in Matching(v) <=> v \in Exact(13, 5, ".", 0 .. 6)
  <2>1. 1 \in 1 .. 10 /\ 2 \in 1 .. 10 /\ 3 \in 1 .. 10 /\ 4 \in 1 .. 10 /\ 5 \in 1 .. 10
    OBVIOUS
  <2>2. 6 \in 1 .. 10 /\ 7 \in 1 .. 10 /\ 8 \in 1 .. 10 /\ 9 \in 1 .. 10 /\ 10 \in 1 .. 10
    OBVIOUS
  <2> HIDE DEF M, m, n, dot
  <2> QED
    BY <1>4, <1>5, <2>1, <2>2, Zenon
<1>7. /\ 1 \in Matching(v) <=> M \in 4 .. 7
      /\ 2 \in Matching(v) <=> M \in 8 .. 9
      /\ 3 \in Matching(v) <=> M \in {10}
      /\ 4 \in Matching(v) <=> M \in {11} /\ m \in {0}
      /\ 7 \in Matching(v) <=> M \in {11, 12} /\ m \in {0, 5}
      /\ 8 \in Matching(v) <=> M \in {13} /\ m \in {0}
  BY <1>6 DEF Major, Minor
<1>8. /\ 5 \in Matching(v) <=> M = 11 /\ m = 5 /\ n = 0
      /\ 6 \in Matching(v) <=> M = 11 /\ m = 5 /\ n > 0 /\ n \in 0 .. 7
      /\ 9 \in Matching(v) <=> M = 13 /\ m = 5 /\ n = 0
      /\ 10 \in Matching(v) <=> M = 13 /\ m = 5 /\ n > 0 /\ n \in 0 .. 6
  <2>1. /\ 5 \in Matching(v) <=> M = 11 /\ m = 5 /\ v[3] = "" /\ n \in {0}
        /\ 6 \in Matching(v) <=> M = 11 /\ m = 5 /\ dot /\ n \in 0 .. 7
        /\ 9 \in Matching(v) <=> M = 13 /\ m = 5 /\ v[3] = "" /\ n \in {0}
        /\ 10 \in Matching(v) <=> M = 13 /\ m = 5 /\ dot /\ n \in 0 .. 6
    BY <1>6 DEF Exact
  <2>2. v[3] = "" <=> ~dot
    BY <1>0
  <2>3. n = 0 <=> n \in {0} /\ ~ (n > 0)
    BY <1>1
  <2> HIDE DEF M, m, n
  <2> QED
    BY <1>dot, <2>1, <2>2, <2>3, Zenon
<1>9. /\ Before(v, <<8, 0, "", 0>>) => M < 8 \/ (M = 8 /\ (m < 0 \/ (m = 0 /\ (Rank(v) < 1 \/ (Rank(v) = 1 /\ n < 0)))))
      /\ Before(v, <<11, 5, ".", 8>>) => M < 11 \/ (M = 11 /\ (m < 5 \/ (m = 5 /\ (Rank(v) < 2 \/ (Rank(v) = 2 /\ n < 8)))))
      /\ Before(v, <<13, 5, ".", 7>>) => M < 13 \/ (M = 13 /\ (m < 5 \/ (m = 5 /\ (Rank(v) < 2 \/ (Rank(v) = 2 /\ n < 7)))))
  <2> DEFINE x == <<8, 0, "", 0>>
             y == <<11, 5, ".", 8>>
             z == <<13, 5, ".", 7>>
  <2>1. x[1] = 8 /\ x[2] = 0 /\ x[4] = 0 /\ Rank(x) = 1
    BY DEF Rank
  <2>2. y[1] = 11 /\ y[2] = 5 /\ y[4] = 8 /\ Rank(y) = 2
    BY DEF Rank
  <2>3. z[1] = 13 /\ z[2] = 5 /\ z[4] = 7 /\ Rank(z) = 2
    BY DEF Rank
  <2> HIDE DEF x, y, z
  <2>4. Before(v, x) => M < 8 \/ (M = 8 /\ (m < 0 \/ (m = 0 /\ (Rank(v) < 1 \/ (Rank(v) = 1 /\ n < 0)))))
    BY <2>1, BeforeFacts
  <2>5. Before(v, y) => M < 11 \/ (M = 11 /\ (m < 5 \/ (m = 5 /\ (Rank(v) < 2 \/ (Rank(v) = 2 /\ n < 8)))))
    BY <2>2, BeforeFacts
  <2>6. Before(v, z) => M < 13 \/ (M = 13 /\ (m < 5 \/ (m = 5 /\ (Rank(v) < 2 \/ (Rank(v) = 2 /\ n < 7)))))
    BY <2>3, BeforeFacts
  <2> QED
    BY <2>4, <2>5, <2>6 DEF x, y, z
<1>10. Rank(v) = IF n > 0 THEN 2 ELSE 1
  BY <1>2, <1>dot, Zenon
<1> DEFINE k == Rank(v)
<1>rank. k \in Nat /\ k = IF n > 0 THEN 2 ELSE 1
  BY <1>10
<1>ord. /\ Before(v, <<8, 0, "", 0>>) => M < 8 \/ (M = 8 /\ (m < 0 \/ (m = 0 /\ (k < 1 \/ (k = 1 /\ n < 0)))))
        /\ Before(v, <<11, 5, ".", 8>>) => M < 11 \/ (M = 11 /\ (m < 5 \/ (m = 5 /\ (k < 2 \/ (k = 2 /\ n < 8)))))
        /\ Before(v, <<13, 5, ".", 7>>) => M < 13 \/ (M = 13 /\ (m < 5 \/ (m = 5 /\ (k < 2 \/ (k = 2 /\ n < 7)))))
  BY <1>9
<1> HIDE DEF M, m, n, dot, k
<1>11. M < 8 \/ (M = 8 /\ (m < 0 \/ (m = 0 /\ (k < 1 \/ (k = 1 /\ n < 0))))) => M \in 4 .. 7
  BY <1>1, <1>rank
<1>12. M < 11 \/ (M = 11 /\ (m < 5 \/ (m = 5 /\ (k < 2 \/ (k = 2 /\ n < 8)))))
         => \/ M \in 4 .. 7
            \/ M \in 8 .. 9
            \/ M \in {10}
            \/ M \in {11} /\ m \in {0}
            \/ M = 11 /\ m = 5 /\ n = 0
            \/ M = 11 /\ m = 5 /\ n > 0 /\ n \in 0 .. 7
  BY <1>1, <1>rank
<1>13. M < 13 \/ (M = 13 /\ (m < 5 \/ (m = 5 /\ (k < 2 \/ (k = 2 /\ n < 7)))))
         => \/ M \in 4 .. 7
            \/ M \in 8 .. 9
            \/ M \in {10}
            \/ M \in {11, 12} /\ m \in {0, 5}
            \/ M \in {13} /\ m \in {0}
            \/ M = 13 /\ m = 5 /\ n = 0
            \/ M = 13 /\ m = 5 /\ n > 0 /\ n \in 0 .. 6
  BY <1>1, <1>rank
<1>14. Before(v, <<8, 0, "", 0>>) => 1 \in Matching(v)
  BY <1>7, <1>ord, <1>11, Zenon
<1>15. Before(v, <<11, 5, ".", 8>>) => \E i \in {1, 2, 3, 4, 5, 6} : i \in Matching(v)
  BY <1>7, <1>8, <1>ord, <1>12, Zenon
<1>16. Before(v, <<13, 5, ".", 7>>) => \E i \in {1, 2, 3, 7, 8, 9, 10} : i \in Matching(v)
  BY <1>7, <1>8, <1>ord, <1>13, Zenon
<1>17. {1, 2, 3, 4, 5, 6} \subseteq 1 .. 6 /\ {1, 2, 3, 7, 8, 9, 10} \subseteq 1 .. 10
  OBVIOUS
<1> QED
  BY <1>14, <1>15, <1>16, <1>17, Zenon

\* The releases users are sent to, in the order of their versions.
LEMMA AlphaReleases ==
    LET a8 == <<8, 0, "a", 9>>
        a13 == <<13, 5, "a", 10>>
        a14 == <<14, 0, "a", 4>>
    IN  /\ ~Before(a8, a8)
        /\ ~Before(a13, a8) /\ ~Before(a13, a13)
        /\ ~Before(a14, a8) /\ ~Before(a14, a13) /\ ~Before(a14, a14)
<1> DEFINE a8 == <<8, 0, "a", 9>>
           a13 == <<13, 5, "a", 10>>
           a14 == <<14, 0, "a", 4>>
<1>1. a8[1] = 8 /\ a8[2] = 0 /\ a8[4] = 9 /\ Rank(a8) = 0
  BY DEF Rank
<1>2. a13[1] = 13 /\ a13[2] = 5 /\ a13[4] = 10 /\ Rank(a13) = 0
  BY DEF Rank
<1>3. a14[1] = 14 /\ a14[2] = 0 /\ a14[4] = 4 /\ Rank(a14) = 0
  BY DEF Rank
<1> HIDE DEF a8, a13, a14
<1>4. ~Before(a8, a8)
  BY <1>1, BeforeFacts
<1>5. ~Before(a13, a8) /\ ~Before(a13, a13)
  BY <1>1, <1>2, BeforeFacts
<1>6. ~Before(a14, a8) /\ ~Before(a14, a13) /\ ~Before(a14, a14)
  BY <1>1, <1>2, <1>3, BeforeFacts
<1> QED
  BY <1>4, <1>5, <1>6 DEF a8, a13, a14

LEMMA ReleaseReleases ==
    LET r8 == <<8, 0, "", 0>>
        r11 == <<11, 5, ".", 8>>
        r13 == <<13, 5, ".", 7>>
    IN  /\ ~Before(r8, r8)
        /\ ~Before(r11, r8) /\ ~Before(r11, r11)
        /\ ~Before(r13, r8) /\ ~Before(r13, r11) /\ ~Before(r13, r13)
<1> DEFINE r8 == <<8, 0, "", 0>>
           r11 == <<11, 5, ".", 8>>
           r13 == <<13, 5, ".", 7>>
<1>1. r8[1] = 8 /\ r8[2] = 0 /\ r8[4] = 0 /\ Rank(r8) = 1
  BY DEF Rank
<1>2. r11[1] = 11 /\ r11[2] = 5 /\ r11[4] = 8 /\ Rank(r11) = 2
  BY DEF Rank
<1>3. r13[1] = 13 /\ r13[2] = 5 /\ r13[4] = 7 /\ Rank(r13) = 2
  BY DEF Rank
<1> HIDE DEF r8, r11, r13
<1>4. ~Before(r8, r8)
  BY <1>1, BeforeFacts
<1>5. ~Before(r11, r8) /\ ~Before(r11, r11)
  BY <1>1, <1>2, BeforeFacts
<1>6. ~Before(r13, r8) /\ ~Before(r13, r11) /\ ~Before(r13, r13)
  BY <1>1, <1>2, <1>3, BeforeFacts
<1> QED
  BY <1>4, <1>5, <1>6 DEF r8, r11, r13

\* Where the first rules send users.
LEMMA AlphaDirectories ==
    ASSUME channel = "alpha"
    PROVE  /\ \A i \in 1 .. 2 : RewriteRules[i].dir = "update_pre8.0a9"
           /\ \A i \in 1 .. 6 : RewriteRules[i].dir \in {"update_pre8.0a9", "update_pre13.5a10"}
           /\ \A i \in 1 .. 7 :
                 RewriteRules[i].dir \in {"update_pre8.0a9", "update_pre13.5a10", "update_pre14.0a4"}
           /\ Len(RewriteRules) = 7
<1>1. /\ RewriteRules[1].dir = "update_pre8.0a9" /\ RewriteRules[2].dir = "update_pre8.0a9"
      /\ RewriteRules[3].dir = "update_pre13.5a10" /\ RewriteRules[4].dir = "update_pre13.5a10"
      /\ RewriteRules[5].dir = "update_pre13.5a10" /\ RewriteRules[6].dir = "update_pre13.5a10"
      /\ RewriteRules[7].dir = "update_pre14.0a4"
      /\ Len(RewriteRules) = 7
  BY DEF RewriteRules, AlphaRules, Rule
<1>2. /\ \A i \in 1 .. 2 : i = 1 \/ i = 2
      /\ \A i \in 1 .. 6 : i = 1 \/ i = 2 \/ i = 3 \/ i = 4 \/ i = 5 \/ i = 6
      /\ \A i \in 1 .. 7 : i = 1 \/ i = 2 \/ i = 3 \/ i = 4 \/ i = 5 \/ i = 6 \/ i = 7
  OBVIOUS
<1> QED
  BY <1>1, <1>2, Zenon

LEMMA ReleaseDirectories ==
    ASSUME channel = "release"
    PROVE  /\ RewriteRules[1].dir = "update_pre8.0"
           /\ \A i \in 1 .. 6 : RewriteRules[i].dir \in {"update_pre8.0", "update_pre12.0"}
           /\ \A i \in 1 .. 10 :
                 RewriteRules[i].dir \in {"update_pre8.0", "update_pre12.0", "update_pre14.0"}
           /\ \A i \in 1 .. 13 :
                 RewriteRules[i].dir \in {"update_pre8.0", "update_pre12.0", "update_pre14.0", "update_legacy13.5"}
           /\ Len(RewriteRules) = 13
<1>1. /\ RewriteRules[1].dir = "update_pre8.0" /\ RewriteRules[2].dir = "update_pre12.0"
      /\ RewriteRules[3].dir = "update_pre12.0" /\ RewriteRules[4].dir = "update_pre12.0"
      /\ RewriteRules[5].dir = "update_pre12.0" /\ RewriteRules[6].dir = "update_pre12.0"
      /\ RewriteRules[7].dir = "update_pre14.0" /\ RewriteRules[8].dir = "update_pre14.0"
      /\ RewriteRules[9].dir = "update_pre14.0" /\ RewriteRules[10].dir = "update_pre14.0"
      /\ RewriteRules[11].dir = "update_legacy13.5" /\ RewriteRules[12].dir = "update_legacy13.5"
      /\ RewriteRules[13].dir = "update_legacy13.5"
      /\ Len(RewriteRules) = 13
  BY "release" # "alpha" DEF RewriteRules, ReleaseRules, Rule
<1>2. /\ \A i \in 1 .. 6 : i = 1 \/ i = 2 \/ i = 3 \/ i = 4 \/ i = 5 \/ i = 6
      /\ \A i \in 1 .. 10 : i = 1 \/ i = 2 \/ i = 3 \/ i = 4 \/ i = 5 \/ i = 6
                            \/ i = 7 \/ i = 8 \/ i = 9 \/ i = 10
      /\ \A i \in 1 .. 13 : i = 1 \/ i = 2 \/ i = 3 \/ i = 4 \/ i = 5 \/ i = 6
                            \/ i = 7 \/ i = 8 \/ i = 9 \/ i = 10 \/ i = 11 \/ i = 12 \/ i = 13
  OBVIOUS
<1> QED
  BY <1>1, <1>2, Zenon

\* The first rule that matches is one of the first k, if one of them matches.
LEMMA RedirectAmong ==
    ASSUME NEW v, NEW k \in Nat, Matching(v) \cap (1 .. k) # {}, Matching(v) \subseteq Nat \ {0}
    PROVE  \E i \in 1 .. k : Redirect(v) = RewriteRules[i].dir
<1>1. PICK j \in 1 .. k : j \in Matching(v)
  OBVIOUS
<1>2. PICK i \in Matching(v) : Redirect(v) = RewriteRules[i].dir /\ \A l \in Matching(v) : i <= l
  BY <1>1, RedirectFacts
<1>3. i <= j /\ i \in Nat /\ i > 0
  BY <1>1, <1>2
<1>4. i \in 1 .. k
  BY <1>3
<1> QED
  BY <1>2, <1>4

LEMMA MatchingFacts ==
    ASSUME NEW v
    PROVE  Matching(v) \subseteq Nat \ {0} /\ Matching(v) \subseteq 1 .. Len(RewriteRules)
<1>1. Len(RewriteRules) \in Nat
  BY DEF RewriteRules, AlphaRules, ReleaseRules
<1> QED
  BY <1>1 DEF Matching

\* Users of the versions a watershed is for are sent to it, or to one before it.
LEMMA WatershedFacts ==
    ASSUME channel \in Channels, NEW v \in Ours, NEW w \in Watersheds, v \in UsersOf(w)
    PROVE  Redirect(v) # "none" /\ ~Before(w, WatershedOf(Redirect(v)))
<1>1. v \in Versions \cap Numbered(channel)
  BY OursFacts
<1>2. Matching(v) \subseteq Nat \ {0} /\ Matching(v) \subseteq 1 .. Len(RewriteRules)
  BY MatchingFacts
<1>3. CASE channel = "alpha"
  <2> DEFINE a8 == <<8, 0, "a", 9>>
             a13 == <<13, 5, "a", 10>>
             a14 == <<14, 0, "a", 4>>
  <2>1. /\ Before(v, a8) => Matching(v) \cap {1, 2} # {}
        /\ Before(v, a13) => Matching(v) \cap (1 .. 6) # {}
        /\ Before(v, a14) => v \in LateAlphas \/ Matching(v) \cap (1 .. 7) # {}
    BY <1>1, <1>3, AlphaFacts
  <2>2. \/ w = a8 /\ Before(v, a8)
        \/ w = a13 /\ Before(v, a13)
        \/ w = a14 /\ v \notin LateAlphas /\ Before(v, a14)
    BY <1>3 DEF Watersheds, UsersOf
  <2>3. /\ WatershedOf("update_pre8.0a9") = a8
        /\ WatershedOf("update_pre13.5a10") = a13
        /\ WatershedOf("update_pre14.0a4") = a14
    BY DEF WatershedOf
  <2>4. /\ ~Before(a8, a8)
        /\ ~Before(a13, a8) /\ ~Before(a13, a13)
        /\ ~Before(a14, a8) /\ ~Before(a14, a13) /\ ~Before(a14, a14)
    BY AlphaReleases
  <2> HIDE DEF a8, a13, a14
  <2>5. {1, 2} \subseteq 1 .. 2 /\ 7 \in 1 .. 7 /\ 2 \in Nat /\ 6 \in Nat /\ 7 \in Nat
    OBVIOUS
  <2>6. CASE w = a8 /\ Before(v, a8)
    <3>1. Matching(v) \cap (1 .. 2) # {}
      BY <2>1, <2>5, <2>6
    <3>2. Redirect(v) = "update_pre8.0a9"
      BY <1>2, <1>3, <2>5, <3>1, RedirectAmong, AlphaDirectories
    <3> QED
      BY <2>3, <2>4, <2>6, <3>2
  <2>7. CASE w = a13 /\ Before(v, a13)
    <3>1. Redirect(v) \in {"update_pre8.0a9", "update_pre13.5a10"}
      BY <1>2, <1>3, <2>1, <2>5, <2>7, RedirectAmong, AlphaDirectories
    <3> QED
      BY <2>3, <2>4, <2>7, <3>1
  <2>8. CASE w = a14 /\ v \notin LateAlphas /\ Before(v, a14)
    <3>1. Matching(v) \cap (1 .. 7) # {}
      BY <2>1, <2>8
    <3>2. Redirect(v) \in {"update_pre8.0a9", "update_pre13.5a10", "update_pre14.0a4"}
      BY <1>2, <1>3, <2>5, <3>1, RedirectAmong, AlphaDirectories
    <3> QED
      BY <2>3, <2>4, <2>8, <3>2
  <2> QED
    BY <2>2, <2>6, <2>7, <2>8
<1>4. CASE channel = "release"
  <2> DEFINE r8 == <<8, 0, "", 0>>
             r11 == <<11, 5, ".", 8>>
             r13 == <<13, 5, ".", 7>>
  <2>1. /\ Before(v, r8) => 1 \in Matching(v)
        /\ Before(v, r11) => Matching(v) \cap (1 .. 6) # {}
        /\ Before(v, r13) => Matching(v) \cap (1 .. 10) # {}
    BY <1>1, <1>4, ReleaseFacts
  <2>2. \/ w = r8 /\ Before(v, r8)
        \/ w = r11 /\ Before(v, r11)
        \/ w = r13 /\ Before(v, r13)
    BY <1>4 DEF Watersheds, UsersOf
  <2>3. /\ WatershedOf("update_pre8.0") = r8
        /\ WatershedOf("update_pre12.0") = r11
        /\ WatershedOf("update_pre14.0") = r13
    BY DEF WatershedOf
  <2>4. /\ ~Before(r8, r8)
        /\ ~Before(r11, r8) /\ ~Before(r11, r11)
        /\ ~Before(r13, r8) /\ ~Before(r13, r11) /\ ~Before(r13, r13)
    BY ReleaseReleases
  <2> HIDE DEF r8, r11, r13
  <2>5. 1 \in 1 .. 1 /\ 1 \in Nat /\ 6 \in Nat /\ 10 \in Nat /\ \A i \in 1 .. 1 : i = 1
    OBVIOUS
  <2>6. CASE w = r8 /\ Before(v, r8)
    <3>1. Matching(v) \cap (1 .. 1) # {}
      BY <2>1, <2>5, <2>6
    <3>2. Redirect(v) = "update_pre8.0"
      BY <1>2, <1>4, <2>5, <3>1, RedirectAmong, ReleaseDirectories
    <3> QED
      BY <2>3, <2>4, <2>6, <3>2
  <2>7. CASE w = r11 /\ Before(v, r11)
    <3>1. Redirect(v) \in {"update_pre8.0", "update_pre12.0"}
      BY <1>2, <1>4, <2>1, <2>5, <2>7, RedirectAmong, ReleaseDirectories
    <3> QED
      BY <2>3, <2>4, <2>7, <3>1
  <2>8. CASE w = r13 /\ Before(v, r13)
    <3>1. PICK i \in 1 .. 10 : Redirect(v) = RewriteRules[i].dir
      BY <1>2, <2>1, <2>5, <2>8, RedirectAmong
    <3>2. Redirect(v) \in {"update_pre8.0", "update_pre12.0", "update_pre14.0"}
      BY <1>4, <3>1, ReleaseDirectories
    <3> QED
      BY <2>3, <2>4, <2>8, <3>2
  <2> QED
    BY <2>2, <2>6, <2>7, <2>8
<1> QED
  BY <1>3, <1>4, ChannelsAssumption

\* Users who are sent elsewhere get one of our versions there.
LEMMA RedirectedToOurs ==
    ASSUME channel \in Channels, NEW v, Redirect(v) # "none"
    PROVE  WatershedOf(Redirect(v)) \in Ours
<1>1. PICK i \in Matching(v) : Redirect(v) = RewriteRules[i].dir
  BY RedirectFacts
<1>2. i \in 1 .. Len(RewriteRules)
  BY MatchingFacts
<1>3. RewriteRules[i] \in ToSet(RewriteRules)
  <2>1. DOMAIN AlphaRules = 1 .. Len(AlphaRules)
    BY DEF AlphaRules
  <2>2. DOMAIN ReleaseRules = 1 .. Len(ReleaseRules)
    BY DEF ReleaseRules
  <2>3. DOMAIN RewriteRules = 1 .. Len(RewriteRules)
    BY <2>1, <2>2 DEF RewriteRules
  <2> QED
    BY <1>2, <2>3 DEF ToSet
<1>4. WatershedOf(RewriteRules[i].dir) \in OldVersions[channel]
  BY <1>3, WatershedsAssumption DEF RewriteRules
<1> QED
  BY <1>1, <1>4 DEF Ours

-----------------------------------------------------------------------------
(* The invariant: a platform's directory was made for the last version that *)
(* has a mar for it, and an offer stays right while it waits.               *)

Types ==
    /\ channel \in Channels /\ published \in 0 .. Len(Series)
    /\ files \in [Versions -> [Oses -> [complete : BOOLEAN, partial : SUBSET Versions]]]
    /\ DOMAIN htdocs = Oses
    /\ target \in Targets /\ version \in Ours
    /\ offer \in [to : Versions \cup {NoVersion}, partial : Versions \cup {NoVersion}]

\* Incremental mars are from versions published before, and come with a full one.
FilesAreOf(i, os) ==
    LET f == files[Series[i]][os]
    IN  /\ f.partial \subseteq {Series[j] : j \in 1 .. i - 1}
        /\ f.partial # {} => f.complete
FilesAreRight == \A i \in 1 .. published : \A os \in Oses : FilesAreOf(i, os)

With(os) == {i \in 1 .. published : os \in PlatformsOf(files[Series[i]])}

DirectoryIsOfTheLast(os) ==
    \/ With(os) = {} /\ htdocs[os] = NoDirectory
    \/ \E n \in With(os) :
          /\ \A j \in With(os) : j <= n
          /\ htdocs[os] = Generated(Series[n], files[Series[n]])[os]
DirectoriesAreOfTheLast == \A os \in Oses : DirectoryIsOfTheLast(os)

OfferIsRight ==
    offer # NoOffer =>
        /\ offer.to \in Ours
        /\ offer.partial # NoVersion =>
              /\ offer.partial = version
              /\ \E i \in 1 .. published :
                    offer.to = Series[i] /\ version \in files[Series[i]][OsOf[target]].partial
        /\ \A w \in Watersheds : version \in UsersOf(w) => ~Before(w, offer.to)

IInv == Types /\ FilesAreRight /\ DirectoriesAreOfTheLast /\ OfferIsRight

LEMMA OursAreVersions ==
    ASSUME channel \in Channels, NEW v \in Ours
    PROVE  v # NoVersion /\ v \in Versions
  BY OursFacts, NumberedFacts

LEMMA PartialsAreFinite ==
    ASSUME IInv, NEW i \in 1 .. published, NEW os \in Oses
    PROVE  /\ IsFiniteSet(files[Series[i]][os].partial)
           /\ NoVersion \notin files[Series[i]][os].partial
           /\ files[Series[i]][os].partial \subseteq Ours
           /\ os \in PlatformsOf(files[Series[i]]) <=> files[Series[i]][os].complete
<1> DEFINE P == files[Series[i]][os].partial
<1>0. P \subseteq {Series[j] : j \in 1 .. i - 1} /\ (P # {} => files[Series[i]][os].complete)
  BY DEF IInv, FilesAreRight, FilesAreOf
<1>1. i - 1 \in Nat /\ 1 .. i - 1 \subseteq 1 .. Len(Series) /\ channel \in Channels
  BY OursFacts DEF IInv, Types
<1>2. IsFiniteSet(1 .. i - 1)
  <2>1. 1 \in Int /\ i - 1 \in Int
    BY <1>1
  <2> QED
    BY <2>1, FS_Interval
<1>3. IsFiniteSet({Series[j] : j \in 1 .. i - 1})
  <2> DEFINE I == 1 .. i - 1
             g == [j \in I |-> Series[j]]
             S == {Series[j] : j \in I}
  <2>1. g \in Surjection(I, S)
    BY DEF Surjection
  <2> HIDE DEF g, S, I
  <2>2. IsFiniteSet(S)
    BY <1>2, <2>1, FS_Surjection DEF I
  <2> QED
    BY <2>2 DEF S, I
<1>4. IsFiniteSet(P)
  BY <1>0, <1>3, FS_Subset
<1>5. P \subseteq Ours
  BY <1>0, <1>1, OursFacts
<1>6. NoVersion \notin P
  BY <1>1, <1>5, OursAreVersions
<1>7. os \in PlatformsOf(files[Series[i]]) <=> files[Series[i]][os].complete
  BY <1>0 DEF PlatformsOf
<1> QED
  BY <1>4, <1>5, <1>6, <1>7

\* What a user of any version is answered: nothing if there is no version for the
\* platform, and what the last one's responses have for it otherwise.
LEMMA AnswerOfTheLast ==
    ASSUME IInv, NEW v \in Ours
    PROVE  LET os == OsOf[target] IN
           \/ With(os) = {} /\ Answer(target, v) = NoOffer
           \/ \E n \in With(os) :
                 /\ n \in 1 .. published /\ \A j \in With(os) : j <= n
                 /\ files[Series[n]][os].complete
                 /\ Answer(target, v) =
                      IF v = Series[n] THEN NoOffer
                      ELSE IF v \in files[Series[n]][os].partial THEN [to |-> Series[n], partial |-> v]
                      ELSE [to |-> Series[n], partial |-> NoVersion]
<1> DEFINE os == OsOf[target]
<1>1. os \in Oses /\ channel \in Channels /\ v # NoVersion
  BY TargetsAssumption, OursAreVersions DEF IInv, Types
<1> HIDE DEF os
<1>2. DirectoryIsOfTheLast(os)
  BY <1>1 DEF IInv, DirectoriesAreOfTheLast
<1>3. CASE With(os) = {} /\ htdocs[os] = NoDirectory
  <2>1. htdocs[OsOf[target]].rules = <<>>
    BY <1>3 DEF os, NoDirectory
  <2>2. Answering(<<>>, v) = {}
    BY DEF Answering
  <2>3. First(Answering(htdocs[OsOf[target]].rules, v)) = 0
    BY <2>1, <2>2 DEF First
  <2>4. Answer(target, v) = NoOffer
    BY <2>3, AnswerIs
  <2> QED
    BY <1>3, <2>4 DEF os
<1>4. CASE \E n \in With(os) :
              /\ \A j \in With(os) : j <= n
              /\ htdocs[os] = Generated(Series[n], files[Series[n]])[os]
  <2>1. PICK n \in With(os) :
              /\ \A j \in With(os) : j <= n
              /\ htdocs[os] = Generated(Series[n], files[Series[n]])[os]
    BY <1>4
  <2>2. n \in 1 .. published /\ os \in PlatformsOf(files[Series[n]])
    BY DEF With
  <2> DEFINE w == Series[n]
             f == files[Series[n]]
  <2>3. /\ IsFiniteSet(f[os].partial) /\ NoVersion \notin f[os].partial /\ f[os].complete
    BY <1>1, <2>2, PartialsAreFinite
  <2>4. w # NoVersion
    <3>1. n \in 1 .. Len(Series)
      BY <1>1, <2>2, OursFacts DEF IInv, Types
    <3> QED
      BY <1>1, <3>1, OursFacts, OursAreVersions
  <2>5. os \in PlatformsOf(f) /\ htdocs[OsOf[target]] = Generated(w, f)[os]
    BY <2>1, <2>2 DEF os
  <2> HIDE DEF w, f
  <2>6. Answer(target, v) =
             IF v = w THEN NoOffer
             ELSE IF v \in f[os].partial THEN [to |-> w, partial |-> v]
             ELSE IF f[os].complete THEN [to |-> w, partial |-> NoVersion] ELSE NoOffer
    BY <1>1, <2>3, <2>4, <2>5, AnswerGenerated
  <2> QED
    BY <2>1, <2>2, <2>3, <2>6 DEF os, w, f
<1> QED
  BY <1>2, <1>3, <1>4 DEF DirectoryIsOfTheLast

-----------------------------------------------------------------------------
(* The steps.                                                               *)

LEMMA InitIsRight == Init => IInv
<1> SUFFICES ASSUME Init PROVE IInv
  OBVIOUS
<1>1. Types
  <2>1. channel \in Channels /\ published = 0 /\ target \in Targets /\ version \in Ours
    BY DEF Init, Ours
  <2>2. 0 \in 0 .. Len(Series)
    BY <2>1, OursFacts
  <2>3. files \in [Versions -> [Oses -> [complete : BOOLEAN, partial : SUBSET Versions]]]
    BY DEF Init, NoFiles
  <2>4. DOMAIN htdocs = Oses
    BY DEF Init
  <2>5. offer \in [to : Versions \cup {NoVersion}, partial : Versions \cup {NoVersion}]
    BY DEF Init, NoOffer
  <2> QED
    BY <2>1, <2>2, <2>3, <2>4, <2>5 DEF Types
<1>2. 1 .. published = {}
  BY DEF Init
<1>3. FilesAreRight
  BY <1>2 DEF FilesAreRight
<1>4. DirectoriesAreOfTheLast
  BY <1>2 DEF Init, DirectoriesAreOfTheLast, DirectoryIsOfTheLast, With
<1>5. OfferIsRight
  BY DEF Init, OfferIsRight
<1> QED
  BY <1>1, <1>3, <1>4, <1>5 DEF IInv

\* Publishing a version does not touch the files of those before it.
LEMMA PublishEffect ==
    ASSUME IInv, Publish
    PROVE  \E f \in PossibleFiles(published + 1) :
              /\ published + 1 \in 1 .. Len(Series) /\ published \in Nat /\ published' = published + 1
              /\ Series' = Series /\ UNCHANGED <<channel, target, version, offer>>
              /\ files' = [files EXCEPT ![Series[published + 1]] = f]
              /\ files'[Series[published + 1]] = f
              /\ \A i \in 1 .. published : Series'[i] = Series[i] /\ files'[Series[i]] = files[Series[i]]
              /\ htdocs' = [os \in Oses |->
                    IF os \in PlatformsOf(f) THEN Generated(Series[published + 1], f)[os] ELSE htdocs[os]]
<1> DEFINE v == Series[published + 1]
<1>1. PICK f \in PossibleFiles(published + 1) :
        /\ files' = [files EXCEPT ![v] = f]
        /\ htdocs' = [os \in Oses |->
               IF os \in PlatformsOf(f) THEN Generated(v, f)[os] ELSE htdocs[os]]
  BY DEF Publish
<1>2. published < Len(Series) /\ published' = published + 1 /\ UNCHANGED <<channel, target, version, offer>>
  BY DEF Publish
<1>3. Len(Series) \in Nat /\ published \in 0 .. Len(Series) /\ channel \in Channels
  BY OursFacts DEF IInv, Types
<1>4. published + 1 \in 1 .. Len(Series) /\ published \in Nat
  BY <1>2, <1>3
<1>5. Series' = Series
  BY <1>2 DEF Series
<1>6. v \in Versions /\ DOMAIN files = Versions
  BY <1>3, <1>4, OursFacts DEF IInv, Types
<1>7. ASSUME NEW i \in 1 .. published
      PROVE  Series'[i] = Series[i] /\ files'[Series[i]] = files[Series[i]]
  <2>1. i \in 1 .. Len(Series) /\ i # published + 1
    BY <1>3, <1>4
  <2>2. Series[i] # v /\ Series[i] \in Versions
    BY <1>3, <1>4, <2>1, OursFacts
  <2> HIDE DEF v
  <2> QED
    BY <1>1, <1>5, <1>6, <2>2
<1>8. files'[v] = f
  <2> HIDE DEF v
  <2> QED
    BY <1>1, <1>6
<1> QED
  BY <1>1, <1>2, <1>4, <1>5, <1>7, <1>8

LEMMA PossibleFilesFacts ==
    ASSUME IInv, published + 1 \in 1 .. Len(Series), NEW f \in PossibleFiles(published + 1)
    PROVE  /\ f \in [Oses -> [complete : BOOLEAN, partial : SUBSET Versions]]
           /\ \A os \in Oses : /\ f[os].partial \subseteq {Series[j] : j \in 1 .. published}
                               /\ f[os].partial # {} => f[os].complete
<1> DEFINE n == published + 1
<1>1. /\ f \in [Oses -> [complete : BOOLEAN, partial : SUBSET IncrementalFrom(n)]]
      /\ \A os \in Oses : \A from \in f[os].partial : f[os].complete
  BY DEF PossibleFiles
<1>2. published \in Nat /\ Len(Series) \in Nat /\ channel \in Channels
  BY OursFacts DEF IInv, Types
<1>3. IncrementalFrom(n) \subseteq {Series[j] : j \in 1 .. published}
  <2>1. 1 .. n - 1 = 1 .. published
    BY <1>2
  <2> QED
    BY <2>1 DEF IncrementalFrom
<1>4. {Series[j] : j \in 1 .. published} \subseteq Versions
  <2>1. 1 .. published \subseteq 1 .. Len(Series)
    BY <1>2
  <2> QED
    BY <1>2, <2>1, OursFacts
<1> HIDE DEF n
<1>5. SUBSET IncrementalFrom(n) \subseteq SUBSET Versions
  BY <1>3, <1>4
<1> DEFINE A == SUBSET IncrementalFrom(n)
           B == SUBSET Versions
<1>6. \A os \in Oses : f[os] \in [complete : BOOLEAN, partial : A] /\ f[os].partial \in A
  BY <1>1
<1>7. f \in [Oses -> [complete : BOOLEAN, partial : B]]
  <2>1. A \subseteq B
    BY <1>5
  <2>2. f \in [Oses -> [complete : BOOLEAN, partial : A]]
    BY <1>1
  <2> HIDE DEF A, B
  <2> QED
    BY <2>1, <2>2
<1> QED
  BY <1>1, <1>3, <1>6, <1>7

LEMMA PublishStep ==
    ASSUME IInv, Publish
    PROVE  IInv'
<1> DEFINE p == published + 1
           v == Series[published + 1]
<1>1. PICK f \in PossibleFiles(published + 1) :
              /\ published + 1 \in 1 .. Len(Series) /\ published \in Nat /\ published' = published + 1
              /\ Series' = Series /\ UNCHANGED <<channel, target, version, offer>>
              /\ files' = [files EXCEPT ![v] = f]
              /\ files'[v] = f
              /\ \A i \in 1 .. published : Series'[i] = Series[i] /\ files'[Series[i]] = files[Series[i]]
              /\ htdocs' = [os \in Oses |->
                    IF os \in PlatformsOf(f) THEN Generated(v, f)[os] ELSE htdocs[os]]
  BY PublishEffect
<1>2. /\ f \in [Oses -> [complete : BOOLEAN, partial : SUBSET Versions]]
      /\ \A os \in Oses : /\ f[os].partial \subseteq {Series[j] : j \in 1 .. published}
                          /\ f[os].partial # {} => f[os].complete
  BY <1>1, PossibleFilesFacts
<1>3. channel \in Channels /\ Len(Series) \in Nat
  BY OursFacts DEF IInv, Types
<1>4. \A i : i \in 1 .. published' <=> i \in 1 .. published \/ i = p
  BY <1>1
<1>5. 1 .. p - 1 = 1 .. published /\ Ours' = Ours
  BY <1>1 DEF Ours
<1>6. Types'
  <2>1. files' \in [Versions -> [Oses -> [complete : BOOLEAN, partial : SUBSET Versions]]]
    <3> DEFINE F == [Oses -> [complete : BOOLEAN, partial : SUBSET Versions]]
    <3>1. f \in F /\ files \in [Versions -> F]
      BY <1>2 DEF IInv, Types
    <3>2. files' = [files EXCEPT ![v] = f]
      BY <1>1
    <3> HIDE DEF F, v
    <3>3. files' \in [Versions -> F]
      BY <3>1, <3>2
    <3> QED
      BY <3>3 DEF F
  <2>2. DOMAIN htdocs' = Oses
    BY <1>1
  <2>3. published' \in 0 .. Len(Series)'
    BY <1>1, <1>3
  <2> QED
    BY <1>1, <1>5, <2>1, <2>2, <2>3 DEF IInv, Types
<1>7. FilesAreRight'
  <2> SUFFICES ASSUME NEW i \in 1 .. published', NEW os \in Oses PROVE FilesAreOf(i, os)'
    BY DEF FilesAreRight
  <2>1. CASE i \in 1 .. published
    <3>1. FilesAreOf(i, os)
      BY <2>1 DEF IInv, FilesAreRight
    <3>2. files'[Series'[i]] = files[Series[i]]
      BY <1>1, <2>1
    <3> QED
      BY <1>1, <3>1, <3>2 DEF FilesAreOf
  <2>2. CASE i = p
    <3>1. files'[Series'[i]] = f
      BY <1>1, <2>2
    <3>2. {Series'[j] : j \in 1 .. i - 1} = {Series[j] : j \in 1 .. published}
      BY <1>1, <1>5, <2>2
    <3> QED
      BY <1>2, <3>1, <3>2 DEF FilesAreOf
  <2> QED
    BY <1>4, <2>1, <2>2
<1>8. DirectoriesAreOfTheLast'
  <2> SUFFICES ASSUME NEW os \in Oses PROVE DirectoryIsOfTheLast(os)'
    BY DEF DirectoriesAreOfTheLast
  <2>1. \A i \in 1 .. published : i \in With(os)' <=> i \in With(os)
    BY <1>1, <1>4 DEF With
  <2>2. p \in With(os)' <=> os \in PlatformsOf(f)
    BY <1>1, <1>4 DEF With
  <2>3. With(os)' \subseteq 1 .. published' /\ With(os) \subseteq 1 .. published
    BY DEF With
  <2>4. DirectoryIsOfTheLast(os)
    BY DEF IInv, DirectoriesAreOfTheLast
  <2>5. CASE os \in PlatformsOf(f)
    <3>1. \A j \in With(os)' : j <= p
      BY <1>1, <2>3
    <3>2. htdocs'[os] = Generated(Series'[p], files'[Series'[p]])[os]
      BY <1>1, <2>5
    <3>3. p \in With(os)'
      BY <2>2, <2>5
    <3> QED
      BY <3>1, <3>2, <3>3 DEF DirectoryIsOfTheLast
  <2>6. CASE os \notin PlatformsOf(f)
    <3>1. With(os)' = With(os)
      BY <1>4, <2>1, <2>2, <2>3, <2>6
    <3>2. htdocs'[os] = htdocs[os]
      BY <1>1, <2>6
    <3>3. \A n \in With(os) : Series'[n] = Series[n] /\ files'[Series'[n]] = files[Series[n]]
      BY <1>1, <2>3
    <3> QED
      BY <2>4, <3>1, <3>2, <3>3 DEF DirectoryIsOfTheLast
  <2> QED
    BY <2>5, <2>6
<1>9. OfferIsRight'
  <2> SUFFICES ASSUME offer' # NoOffer PROVE OfferIsRight'
    BY DEF OfferIsRight
  <2>1. offer # NoOffer /\ offer' = offer /\ version' = version /\ target' = target
    BY <1>1
  <2>2. /\ offer.to \in Ours
        /\ offer.partial # NoVersion =>
              /\ offer.partial = version
              /\ \E i \in 1 .. published :
                    offer.to = Series[i] /\ version \in files[Series[i]][OsOf[target]].partial
        /\ \A w \in Watersheds : version \in UsersOf(w) => ~Before(w, offer.to)
    BY <2>1 DEF IInv, OfferIsRight
  <2>3. ASSUME offer.partial # NoVersion
        PROVE  \E i \in 1 .. published' :
                    offer.to = Series'[i] /\ version \in files'[Series'[i]][OsOf[target]].partial
    <3>1. PICK i \in 1 .. published :
                    offer.to = Series[i] /\ version \in files[Series[i]][OsOf[target]].partial
      BY <2>2, <2>3
    <3>2. i \in 1 .. published' /\ Series'[i] = Series[i] /\ files'[Series'[i]] = files[Series[i]]
      BY <1>1, <1>4
    <3> QED
      BY <3>1, <3>2
  <2>4. Watersheds' = Watersheds
    BY <1>1 DEF Watersheds
  <2> QED
    BY <1>5, <2>1, <2>2, <2>3, <2>4 DEF OfferIsRight
<1> QED
  BY <1>6, <1>7, <1>8, <1>9 DEF IInv

\* What an updater can be offered.
LEMMA ResponseIsRight ==
    ASSUME IInv, Response # NoOffer
    PROVE  /\ Response \in [to : Versions \cup {NoVersion}, partial : Versions \cup {NoVersion}]
           /\ Response.to \in Ours
           /\ Response.partial # NoVersion =>
                 /\ Response.partial = version
                 /\ \E i \in 1 .. published :
                       Response.to = Series[i] /\ version \in files[Series[i]][OsOf[target]].partial
           /\ \A w \in Watersheds : version \in UsersOf(w) => ~Before(w, Response.to)
<1>1. channel \in Channels /\ version \in Ours /\ version \in Versions /\ Ours \subseteq Versions
  BY OursFacts DEF IInv, Types
<1>2. CASE Redirect(version) # "none"
  <2>1. Response = [to |-> WatershedOf(Redirect(version)), partial |-> NoVersion]
    BY <1>2 DEF Response
  <2>2. WatershedOf(Redirect(version)) \in Ours
    BY <1>1, <1>2, RedirectedToOurs
  <2>3. \A w \in Watersheds : version \in UsersOf(w) => ~Before(w, WatershedOf(Redirect(version)))
    BY <1>1, WatershedFacts
  <2> QED
    BY <1>1, <2>1, <2>2, <2>3
<1>3. CASE Redirect(version) = "none"
  <2>1. Response = Answer(target, version)
    BY <1>3 DEF Response
  <2> DEFINE os == OsOf[target]
  <2>2. PICK n \in With(os) :
                 /\ n \in 1 .. published /\ \A j \in With(os) : j <= n
                 /\ files[Series[n]][os].complete
                 /\ Answer(target, version) =
                      IF version = Series[n] THEN NoOffer
                      ELSE IF version \in files[Series[n]][os].partial
                           THEN [to |-> Series[n], partial |-> version]
                      ELSE [to |-> Series[n], partial |-> NoVersion]
    BY <1>1, <2>1, AnswerOfTheLast
  <2>3. n \in 1 .. Len(Series)
    BY <1>1, <2>2, OursFacts DEF IInv, Types
  <2>4. Series[n] \in Ours
    BY <1>1, <2>3, OursFacts
  <2>5. \A w \in Watersheds : version \notin UsersOf(w)
    BY <1>1, <1>3, WatershedFacts
  <2>6. \/ Response = [to |-> Series[n], partial |-> NoVersion]
        \/ Response = [to |-> Series[n], partial |-> version] /\ version \in files[Series[n]][os].partial
    BY <2>1, <2>2
  <2> QED
    BY <1>1, <2>2, <2>4, <2>5, <2>6
<1> QED
  BY <1>2, <1>3

LEMMA AskStep ==
    ASSUME IInv, Ask
    PROVE  IInv'
<1>1. /\ offer' = Response /\ Response # NoOffer
      /\ UNCHANGED <<channel, published, files, htdocs, target, version>>
  BY DEF Ask, CanUpdate
<1>2. /\ Response \in [to : Versions \cup {NoVersion}, partial : Versions \cup {NoVersion}]
      /\ Response.to \in Ours
      /\ Response.partial # NoVersion =>
            /\ Response.partial = version
            /\ \E i \in 1 .. published :
                  Response.to = Series[i] /\ version \in files[Series[i]][OsOf[target]].partial
      /\ \A w \in Watersheds : version \in UsersOf(w) => ~Before(w, Response.to)
  BY <1>1, ResponseIsRight
<1>3. Series' = Series /\ Ours' = Ours /\ Watersheds' = Watersheds
  BY <1>1 DEF Series, Ours, Watersheds
<1>4. Types'
  BY <1>1, <1>2, <1>3 DEF IInv, Types
<1>5. FilesAreRight'
  BY <1>1, <1>3 DEF IInv, FilesAreRight, FilesAreOf
<1>6. DirectoriesAreOfTheLast'
  <2> SUFFICES ASSUME NEW os \in Oses PROVE DirectoryIsOfTheLast(os)'
    BY DEF DirectoriesAreOfTheLast
  <2>1. DirectoryIsOfTheLast(os)
    BY DEF IInv, DirectoriesAreOfTheLast
  <2>2. With(os)' = With(os)
    BY <1>1, <1>3 DEF With
  <2> QED
    BY <1>1, <1>3, <2>1, <2>2 DEF DirectoryIsOfTheLast
<1>7. OfferIsRight'
  BY <1>1, <1>2, <1>3 DEF OfferIsRight
<1> QED
  BY <1>4, <1>5, <1>6, <1>7 DEF IInv

LEMMA InstallStep ==
    ASSUME IInv, Install
    PROVE  IInv'
<1>1. /\ offer # NoOffer /\ version' = offer.to /\ offer' = NoOffer
      /\ UNCHANGED <<channel, published, files, htdocs, target>>
  BY DEF Install
<1>2. Series' = Series /\ Ours' = Ours
  BY <1>1 DEF Series, Ours
<1>3. Types'
  <2>1. offer.to \in Ours
    BY <1>1 DEF IInv, OfferIsRight
  <2> QED
    BY <1>1, <1>2, <2>1 DEF IInv, Types, NoOffer
<1>4. FilesAreRight'
  BY <1>1, <1>2 DEF IInv, FilesAreRight, FilesAreOf
<1>5. DirectoriesAreOfTheLast'
  <2> SUFFICES ASSUME NEW os \in Oses PROVE DirectoryIsOfTheLast(os)'
    BY DEF DirectoriesAreOfTheLast
  <2>1. DirectoryIsOfTheLast(os)
    BY DEF IInv, DirectoriesAreOfTheLast
  <2>2. With(os)' = With(os)
    BY <1>1, <1>2 DEF With
  <2> QED
    BY <1>1, <1>2, <2>1, <2>2 DEF DirectoryIsOfTheLast
<1>6. OfferIsRight'
  BY <1>1 DEF OfferIsRight
<1> QED
  BY <1>3, <1>4, <1>5, <1>6 DEF IInv

LEMMA UnchangedStep ==
    ASSUME IInv, UNCHANGED vars
    PROVE  IInv'
<1>1. UNCHANGED <<channel, published, files, htdocs, target, version, offer>>
  BY DEF vars
<1>2. Series' = Series /\ Ours' = Ours /\ Watersheds' = Watersheds
  BY <1>1 DEF Series, Ours, Watersheds
<1>3. Types'
  BY <1>1, <1>2 DEF IInv, Types
<1>4. FilesAreRight'
  BY <1>1, <1>2 DEF IInv, FilesAreRight, FilesAreOf
<1>5. DirectoriesAreOfTheLast'
  <2> SUFFICES ASSUME NEW os \in Oses PROVE DirectoryIsOfTheLast(os)'
    BY DEF DirectoriesAreOfTheLast
  <2>1. DirectoryIsOfTheLast(os)
    BY DEF IInv, DirectoriesAreOfTheLast
  <2>2. With(os)' = With(os)
    BY <1>1, <1>2 DEF With
  <2> QED
    BY <1>1, <1>2, <2>1, <2>2 DEF DirectoryIsOfTheLast
<1>6. OfferIsRight'
  BY <1>1, <1>2 DEF IInv, OfferIsRight
<1> QED
  BY <1>3, <1>4, <1>5, <1>6 DEF IInv

LEMMA Inductive == Spec => []IInv
<1>1. IInv /\ [Next]_vars => IInv'
  BY PublishStep, AskStep, InstallStep, UnchangedStep DEF Next, Terminated
<1> QED
  BY InitIsRight, <1>1, PTL DEF Spec

-----------------------------------------------------------------------------
(* The theorems.                                                            *)

\* Every rule that write_htaccess writes names a response that write_responses wrote,
\* in the directories of all platforms and whatever has been published.
THEOREM TypeCorrect == Spec => []TypeOK
<1>1. IInv => TypeOK
  <2> SUFFICES ASSUME IInv PROVE TypeOK
    OBVIOUS
  <2>1. channel \in Channels /\ Ours \subseteq Versions
    BY OursFacts DEF IInv, Types
  <2>2. ASSUME NEW os \in Oses, NEW r \in ToSet(htdocs[os].rules)
        PROVE  r.from \in Versions \cup {AnyVersion} /\ r.name \in DOMAIN htdocs[os].responses
    <3>1. DirectoryIsOfTheLast(os)
      BY DEF IInv, DirectoriesAreOfTheLast
    <3>2. CASE htdocs[os] = NoDirectory
      <4>1. htdocs[os].rules = <<>>
        BY <3>2 DEF NoDirectory
      <4>2. ToSet(<<>>) = {}
        BY DEF ToSet
      <4> QED
        BY <4>1, <4>2
    <3>3. CASE \E n \in With(os) : htdocs[os] = Generated(Series[n], files[Series[n]])[os]
      <4>1. PICK n \in With(os) : htdocs[os] = Generated(Series[n], files[Series[n]])[os]
        BY <3>3
      <4>2. n \in 1 .. published /\ os \in PlatformsOf(files[Series[n]])
        BY DEF With
      <4> DEFINE w == Series[n]
                 f == files[Series[n]]
                 rules == WriteHtaccess(w, f, os)
      <4>3. IsFiniteSet(f[os].partial) /\ f[os].partial \subseteq Ours
        BY <4>2, PartialsAreFinite
      <4>4. w \in Versions
        <5>1. n \in 1 .. Len(Series)
          BY <2>1, <4>2, OursFacts DEF IInv, Types
        <5> QED
          BY <2>1, <5>1, OursFacts
      <4>5. htdocs[os].rules = rules /\ htdocs[os].responses = WriteResponses(w, f, os)
        BY <4>1, <4>2 DEF Generated
      <4> HIDE DEF w, f
      <4>6. PICK k \in Nat :
              /\ Len(rules) = k + 2
              /\ rules[1] = [from |-> w, name |-> NoUpdate]
              /\ rules[k + 2] = [from |-> AnyVersion, name |-> Update]
              /\ \A i \in 2 .. k + 1 : rules[i] \in Rules(f, os)
              /\ \A x \in Rules(f, os) : \E i \in 2 .. k + 1 : rules[i] = x
        BY <4>3, HtaccessFacts
      <4>7. /\ NoUpdate \in DOMAIN WriteResponses(w, f, os) /\ Update \in DOMAIN WriteResponses(w, f, os)
            /\ \A v \in f[os].partial : UpdateFrom(v) \in DOMAIN WriteResponses(w, f, os)
        BY ResponsesFacts
      <4>8. DOMAIN rules = 1 .. Len(rules)
        <5>1. SetToSeq(Rules(f, os)) \in Seq(Rules(f, os))
          BY <4>3, RulesAreFinite, SetToSeqFacts
        <5> DEFINE s == SetToSeq(Rules(f, os))
                   a == [from |-> w, name |-> NoUpdate]
                   z == [from |-> AnyVersion, name |-> Update]
                   T == Rules(f, os) \cup {a, z}
        <5>2. rules = <<a>> \o s \o <<z>>
          BY DEF WriteHtaccess, Rules
        <5>3. s \in Seq(T) /\ a \in T /\ z \in T
          BY <5>1
        <5> HIDE DEF s, a, z, T
        <5>4. <<a>> \o s \o <<z>> \in Seq(T)
          BY <5>3
        <5> QED
          BY <5>2, <5>4
      <4> HIDE DEF rules
      <4>9. PICK i \in 1 .. k + 2 : r = rules[i]
        BY <4>5, <4>6, <4>8 DEF ToSet
      <4>10. \/ r = [from |-> w, name |-> NoUpdate]
             \/ r = [from |-> AnyVersion, name |-> Update]
             \/ r \in Rules(f, os)
        <5>1. i = 1 \/ i = k + 2 \/ i \in 2 .. k + 1
          OBVIOUS
        <5> QED
          BY <4>6, <4>9, <5>1
      <4>11. r \in Rules(f, os) => r.from \in f[os].partial /\ r.name = UpdateFrom(r.from)
        BY DEF Rules
      <4> QED
        BY <2>1, <4>3, <4>4, <4>5, <4>7, <4>10, <4>11
    <3> QED
      BY <3>1, <3>2, <3>3 DEF DirectoryIsOfTheLast
  <2> QED
    BY <2>1, <2>2 DEF IInv, Types, TypeOK
<1> QED
  BY Inductive, <1>1, PTL

\* A partial update that the updater has been offered starts from the version it
\* runs and is one of its platform's, also when other versions have been published
\* since (get_response, write_responses and the order of write_htaccess's rules).
THEOREM PartialsFit == Spec => []PartialFits
<1>1. IInv => PartialFits
  <2> SUFFICES ASSUME IInv, offer.partial # NoVersion
               PROVE  offer.partial = version /\ version \in Incremental(offer.to)
    BY DEF PartialFits
  <2>1. offer # NoOffer
    BY DEF NoOffer
  <2> QED
    BY <2>1 DEF IInv, OfferIsRight, Incremental
<1> QED
  BY Inductive, <1>1, PTL

\* Whoever has the last version is not sent it again, and whoever can have an
\* incremental update to it gets that one, whatever platforms earlier versions were
\* built for and whichever directories are left from them.
THEOREM UpdatesAreSmallest == Spec => []SmallestUpdate
<1>1. IInv => SmallestUpdate
  <2> DEFINE os == OsOf[target]
             with == {i \in 1 .. published : files[Series[i]][os].complete}
             last == LastOf(os)
  <2> SUFFICES ASSUME IInv, last # NoVersion, Redirect(version) = "none"
               PROVE  /\ version = last => Response = NoOffer
                      /\ version \in Incremental(last) => Response.partial = version
    BY DEF SmallestUpdate
  <2>1. version \in Ours /\ os \in Oses /\ published \in Int
    BY TargetsAssumption, OursFacts DEF IInv, Types
  <2>2. With(os) = with
    BY <2>1, PartialsAreFinite DEF With
  <2>3. with # {}
    BY DEF LastOf
  <2>4. Response = Answer(target, version)
    BY DEF Response
  <2>5. PICK n \in With(os) :
                 /\ n \in 1 .. published /\ \A j \in With(os) : j <= n
                 /\ Answer(target, version) =
                      IF version = Series[n] THEN NoOffer
                      ELSE IF version \in files[Series[n]][os].partial
                           THEN [to |-> Series[n], partial |-> version]
                      ELSE [to |-> Series[n], partial |-> NoVersion]
    BY <2>1, <2>2, <2>3, AnswerOfTheLast
  <2>6. last = Series[n]
    <3> DEFINE c == CHOOSE i \in with : \A j \in with : j <= i
    <3>1. last = Series[c]
      BY <2>3 DEF LastOf
    <3>2. n \in with /\ \A j \in with : j <= n
      BY <2>2, <2>5
    <3>3. c \in with /\ \A j \in with : j <= c
      BY <3>2
    <3>4. c \in 1 .. published
      BY <3>3
    <3> HIDE DEF with, c
    <3>5. n <= c /\ c <= n
      BY <3>2, <3>3
    <3>6. n = c
      BY <2>5, <3>4, <3>5
    <3> QED
      BY <3>1, <3>6
  <2>7. version \in Incremental(last) => version # Series[n]
    <3> SUFFICES ASSUME version \in files[Series[n]][os].partial, version = Series[n] PROVE FALSE
      BY <2>6 DEF Incremental
    <3>1. FilesAreOf(n, os)
      BY <2>1, <2>5 DEF IInv, FilesAreRight
    <3>2. PICK j \in 1 .. n - 1 : Series[n] = Series[j]
      BY <3>1 DEF FilesAreOf
    <3>3. n \in 1 .. Len(Series) /\ j \in 1 .. Len(Series) /\ j # n /\ channel \in Channels
      BY <2>5, OursFacts DEF IInv, Types
    <3> QED
      BY <3>2, <3>3, OursFacts
  <2> HIDE DEF with, last
  <2> QED
    BY <2>4, <2>5, <2>6, <2>7 DEF Incremental
<1> QED
  BY Inductive, <1>1, PTL

\* The order of versions is one.
LEMMA NotBothBefore ==
    ASSUME NEW v, NEW w, Before(v, w), Before(w, v),
           v[1] \in Int, v[2] \in Int, v[4] \in Int, w[1] \in Int, w[2] \in Int, w[4] \in Int,
           Rank(v) \in Int, Rank(w) \in Int
    PROVE  FALSE
<1> DEFINE a == v[1]
           b == v[2]
           c == Rank(v)
           d == v[4]
           e == w[1]
           f == w[2]
           g == Rank(w)
           h == w[4]
<1>1. /\ a \in Int /\ b \in Int /\ c \in Int /\ d \in Int
      /\ e \in Int /\ f \in Int /\ g \in Int /\ h \in Int
  OBVIOUS
<1>2. \/ a < e
      \/ a = e /\ b < f
      \/ a = e /\ b = f /\ c < g
      \/ a = e /\ b = f /\ c = g /\ d < h
  BY BeforeFacts
<1>3. \/ e < a
      \/ e = a /\ f < b
      \/ e = a /\ f = b /\ g < c
      \/ e = a /\ f = b /\ g = c /\ h < d
  BY BeforeFacts
<1> HIDE DEF a, b, c, d, e, f, g, h
<1> QED
  BY <1>1, <1>2, <1>3

WatershedReleases ==
    {<<8, 0, "a", 9>>, <<13, 5, "a", 10>>, <<14, 0, "a", 4>>,
     <<8, 0, "", 0>>, <<11, 5, ".", 8>>, <<13, 5, ".", 7>>}

LEMMA ReleasesAreNumbered ==
    ASSUME NEW x \in WatershedReleases
    PROVE  x[1] \in Int /\ x[2] \in Int /\ x[4] \in Int /\ Rank(x) \in Int
<1>1. /\ <<8, 0, "a", 9>>[1] = 8 /\ <<8, 0, "a", 9>>[2] = 0 /\ <<8, 0, "a", 9>>[4] = 9
      /\ Rank(<<8, 0, "a", 9>>) = 0
  BY DEF Rank
<1>2. /\ <<13, 5, "a", 10>>[1] = 13 /\ <<13, 5, "a", 10>>[2] = 5 /\ <<13, 5, "a", 10>>[4] = 10
      /\ Rank(<<13, 5, "a", 10>>) = 0
  BY DEF Rank
<1>3. /\ <<14, 0, "a", 4>>[1] = 14 /\ <<14, 0, "a", 4>>[2] = 0 /\ <<14, 0, "a", 4>>[4] = 4
      /\ Rank(<<14, 0, "a", 4>>) = 0
  BY DEF Rank
<1>4. /\ <<8, 0, "", 0>>[1] = 8 /\ <<8, 0, "", 0>>[2] = 0 /\ <<8, 0, "", 0>>[4] = 0
      /\ Rank(<<8, 0, "", 0>>) = 1
  BY DEF Rank
<1>5. /\ <<11, 5, ".", 8>>[1] = 11 /\ <<11, 5, ".", 8>>[2] = 5 /\ <<11, 5, ".", 8>>[4] = 8
      /\ Rank(<<11, 5, ".", 8>>) = 2
  BY DEF Rank
<1>6. /\ <<13, 5, ".", 7>>[1] = 13 /\ <<13, 5, ".", 7>>[2] = 5 /\ <<13, 5, ".", 7>>[4] = 7
      /\ Rank(<<13, 5, ".", 7>>) = 2
  BY DEF Rank
<1>7. \/ x = <<8, 0, "a", 9>>
      \/ x = <<13, 5, "a", 10>>
      \/ x = <<14, 0, "a", 4>>
      \/ x = <<8, 0, "", 0>>
      \/ x = <<11, 5, ".", 8>>
      \/ x = <<13, 5, ".", 7>>
  BY DEF WatershedReleases
<1>8. 0 \in Int /\ 1 \in Int /\ 2 \in Int /\ 4 \in Int /\ 5 \in Int /\ 7 \in Int /\ 8 \in Int
      /\ 9 \in Int /\ 10 \in Int /\ 11 \in Int /\ 13 \in Int /\ 14 \in Int
  OBVIOUS
<1> QED
  BY <1>1, <1>2, <1>3, <1>4, <1>5, <1>6, <1>7, <1>8, Zenon

LEMMA WatershedsAre == channel \in Channels => Watersheds \subseteq WatershedReleases
  BY DEF Watersheds, WatershedReleases

\* No user gets past a release that must be run first: an updater is only ever sent
\* past it by the responses of a later version, and the rules of the channel keep
\* those from users of every version before the watershed, but for users of 13.5a10 and
\* later alphas of 13.5, who go past 14.0a4.
THEOREM WatershedsAreNotSkipped == Spec => NoWatershedSkipped
<1>1. IInv /\ [Next]_vars =>
        [\A w \in Watersheds : version \in UsersOf(w) => ~Before(w, version')]_vars
  <2> SUFFICES ASSUME IInv, [Next]_vars, NEW w \in Watersheds, version \in UsersOf(w)
               PROVE  ~Before(w, version')
    OBVIOUS
  <2>1. CASE Install
    <3>1. offer # NoOffer /\ version' = offer.to
      BY <2>1 DEF Install
    <3> QED
      BY <3>1 DEF IInv, OfferIsRight
  <2>2. CASE version' = version
    <3>1. version \in Numbered(channel) /\ channel \in Channels
      BY OursFacts DEF IInv, Types
    <3>2. version[1] \in Int /\ version[2] \in Int /\ version[4] \in Int
      <4>1. version[1] \in Nat /\ version[2] \in {0, 5} /\ version[4] \in Nat
        BY <3>1, NumberedFacts
      <4> DEFINE a == version[1]
                 b == version[2]
                 d == version[4]
      <4>2. a \in Nat /\ b \in {0, 5} /\ d \in Nat
        BY <4>1
      <4> HIDE DEF a, b, d
      <4>3. a \in Int /\ b \in Int /\ d \in Int
        BY <4>2
      <4> QED
        BY <4>3 DEF a, b, d
    <3>3. Rank(version) \in Int
      <4>1. version[3] = "a" \/ version[3] = "" \/ version[3] = "."
        BY <3>1, NumberedFacts
      <4>2. Rank(version) = 0 \/ Rank(version) = 1 \/ Rank(version) = 2
        BY <4>1 DEF Rank
      <4> QED
        BY <4>2
    <3>4. w \in WatershedReleases
      BY <3>1, WatershedsAre
    <3>5. Before(version, w)
      BY DEF UsersOf
    <3>6. w[1] \in Int /\ w[2] \in Int /\ w[4] \in Int /\ Rank(w) \in Int
      BY <3>4, ReleasesAreNumbered
    <3> QED
      BY <2>2, <3>2, <3>3, <3>5, <3>6, NotBothBefore
  <2> QED
    BY <2>1, <2>2 DEF Next, Publish, Ask, Terminated, vars
<1> QED
  BY Inductive, <1>1, PTL DEF Spec, NoWatershedSkipped
=============================================================================

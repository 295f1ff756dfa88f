---------------------------- MODULE UpdateProofs ----------------------------
(***************************************************************************)
(* For any versions, releases and schedules: what runs is genuine and no   *)
(* step back (Update!UpdatesAreGenuine), and an update does not leave the  *)
(* service down (Update!NotLeftDown).                                      *)
(*                                                                         *)
(* Neither is inductive.  A call verifies what it downloaded, and unpacks  *)
(* and installs it from files any other call could replace: what saves it  *)
(* is that no other call is at work (OneJob), and that each stage of it    *)
(* knows what is in the file it is going to use (Stage).  A check compares *)
(* with the version that runs, and what it found is used later: nothing    *)
(* that was found survives the process it was compared with (Forgotten).   *)
(***************************************************************************)
EXTENDS Update, WellFoundedInduction, TLAPS

(* Versions: "newer" is a strict order, whatever the versions: a chain of   *)
(* updates never comes back to a version it has left.                      *)

\* The place where two suffixes differ is before, at or after another such place.
LEMMA SuffixTransitive ==
  ASSUME NEW a \in Seq(Run), NEW b \in Seq(Run), NEW c \in Seq(Run),
         SuffixBefore(a, b), SuffixBefore(b, c)
  PROVE  SuffixBefore(a, c)
<1>1. a # <<>> /\ b # <<>>
  BY DEF SuffixBefore
<1>2. CASE c = <<>>
  BY <1>1, <1>2 DEF SuffixBefore
<1>3. CASE c # <<>>
  <2>1. PICK k \in 1 .. Len(b) : FirstDiffers(a, b, k)
    BY <1>1 DEF SuffixBefore
  <2>2. PICK l \in 1 .. Len(c) : FirstDiffers(b, c, l)
    BY <1>3 DEF SuffixBefore
  <2>3. \A i \in 1 .. Len(a) : a[i] \in Run
    OBVIOUS
  <2>4. \A i \in 1 .. Len(b) : b[i] \in Run
    OBVIOUS
  <2>5. \A i \in 1 .. Len(c) : c[i] \in Run
    OBVIOUS
  <2>6. Len(a) \in Nat /\ Len(b) \in Nat /\ Len(c) \in Nat
    OBVIOUS
  <2>7. \A p \in Run, q \in Run, r \in Run :
          RunBefore(p, q) /\ RunBefore(q, r) => RunBefore(p, r)
    BY SMT DEF Run, RunBefore
  <2>8. CASE k < l
    <3>1. a # <<>> /\ k \in 1 .. Len(c) /\ k <= Len(b) /\ b[k] = c[k]
      BY <1>1, <2>2, <2>6, <2>8 DEF FirstDiffers
    <3>2. \A j \in 1 .. (k - 1) : j <= Len(a) /\ a[j] = c[j]
      BY <2>1, <2>2, <2>6, <2>8 DEF FirstDiffers
    <3>3. k = Len(a) + 1 \/ (k <= Len(a) /\ RunBefore(a[k], c[k]))
      BY <2>1, <3>1 DEF FirstDiffers
    <3> QED BY <3>1, <3>2, <3>3 DEF FirstDiffers, SuffixBefore
  <2>9. CASE k = l
    <3>1. k \in 1 .. Len(c) /\ k <= Len(b)
      BY <2>2, <2>6, <2>9
    <3>2. \A j \in 1 .. (k - 1) : j <= Len(a) /\ a[j] = c[j]
      BY <2>1, <2>2, <2>6, <2>9 DEF FirstDiffers
    <3>3. RunBefore(b[k], c[k])
      BY <2>2, <2>6, <2>9, <3>1 DEF FirstDiffers
    <3>4. k = Len(a) + 1 \/ (k <= Len(a) /\ RunBefore(a[k], c[k]))
      BY <2>1, <2>3, <2>4, <2>5, <2>6, <2>7, <3>1, <3>3 DEF FirstDiffers
    <3> QED BY <1>1, <3>1, <3>2, <3>4 DEF FirstDiffers, SuffixBefore
  <2>10. CASE l < k
    <3>1. \A j \in 1 .. (l - 1) : j <= Len(a) /\ a[j] = c[j]
      BY <2>1, <2>2, <2>6, <2>10 DEF FirstDiffers
    <3>2. l <= Len(a) /\ a[l] = b[l]
      BY <2>1, <2>2, <2>6, <2>10 DEF FirstDiffers
    <3>3. l # Len(b) + 1
      BY <2>1, <2>6, <2>10
    <3>4. RunBefore(a[l], c[l])
      BY <2>2, <3>2, <3>3 DEF FirstDiffers
    <3> QED BY <1>1, <3>1, <3>2, <3>4 DEF FirstDiffers, SuffixBefore
  <2> QED BY <2>1, <2>2, <2>6, <2>8, <2>9, <2>10
<1> QED BY <1>2, <1>3

\* Nor does a suffix differ from itself.
LEMMA SuffixIrreflexive ==
  ASSUME NEW a \in Seq(Run)
  PROVE  ~SuffixBefore(a, a)
<1>1. SUFFICES ASSUME a # <<>>, NEW k \in 1 .. Len(a), FirstDiffers(a, a, k) PROVE FALSE
  BY DEF SuffixBefore
<1>2. a[k] \in Run
  BY <1>1
<1>3. k <= Len(a) /\ Len(a) \in Nat
  BY <1>1
<1>4. RunBefore(a[k], a[k])
  BY <1>1, <1>3 DEF FirstDiffers
<1> QED BY <1>2, <1>4, SMT DEF Run, RunBefore

\* Of two places where numbers differ the first decides.
LEMMA NumbersTransitive ==
  ASSUME NEW x \in [1 .. 3 -> Nat], NEW y \in [1 .. 3 -> Nat],
         NEW z \in [1 .. 3 -> Nat],
         \E i \in 1 .. 3 : Lower(x, y, i), \E i \in 1 .. 3 : Lower(y, z, i)
  PROVE  \E i \in 1 .. 3 : Lower(x, z, i)
<1>1. PICK i \in 1 .. 3 : Lower(x, y, i)
  OBVIOUS
<1>2. PICK j \in 1 .. 3 : Lower(y, z, j)
  OBVIOUS
<1>3. CASE i <= j
  <2>1. Lower(x, z, i)
    BY <1>1, <1>2, <1>3, SMT DEF Lower
  <2> QED BY <2>1
<1>4. CASE j < i
  <2>1. Lower(x, z, j)
    BY <1>1, <1>2, <1>4, SMT DEF Lower
  <2> QED BY <2>1
<1> QED BY <1>3, <1>4

\* No version is newer than itself: an update is never to the version that runs.
THEOREM NewerIrreflexive ==
  ASSUME NEW v \in Version \cup {Unparsed}
  PROVE  ~Newer(v, v)
<1>1. CASE v = Unparsed
  BY <1>1 DEF Newer
<1>2. CASE v # Unparsed
  BY <1>2, SuffixIrreflexive DEF Newer, Version
<1> QED BY <1>1, <1>2

\* What is newer than a newer version is newer (Newer, update.go).
THEOREM NewerTransitive ==
  ASSUME NEW u \in Version \cup {Unparsed}, NEW v \in Version \cup {Unparsed},
         NEW w \in Version \cup {Unparsed}, Newer(u, v), Newer(v, w)
  PROVE  Newer(u, w)
<1>1. /\ u # Unparsed /\ v # Unparsed /\ w # Unparsed
      /\ u \in Version /\ v \in Version /\ w \in Version
  BY DEF Newer
<1>2. CASE u.numbers = v.numbers /\ v.numbers = w.numbers
  BY <1>1, <1>2, SuffixTransitive DEF Newer, Version
<1>3. CASE u.numbers = v.numbers /\ v.numbers # w.numbers
  BY <1>1, <1>3 DEF Newer
<1>4. CASE u.numbers # v.numbers /\ v.numbers = w.numbers
  BY <1>1, <1>4 DEF Newer
<1>5. CASE u.numbers # v.numbers /\ v.numbers # w.numbers
  <2>1. /\ \E i \in 1 .. 3 : Lower(v.numbers, u.numbers, i)
        /\ \E i \in 1 .. 3 : Lower(w.numbers, v.numbers, i)
    BY <1>5 DEF Newer
  <2>2. \E i \in 1 .. 3 : Lower(w.numbers, u.numbers, i)
    BY <1>1, <2>1, NumbersTransitive DEF Version
  <2>3. u.numbers # w.numbers
    <3>1. PICK i \in 1 .. 3 : Lower(w.numbers, u.numbers, i)
      BY <2>2
    <3>2. w.numbers[i] \in Nat
      BY <1>1 DEF Version
    <3> QED BY <3>1, <3>2, SMT DEF Lower
  <2> QED BY <1>1, <2>2, <2>3 DEF Newer
<1> QED BY <1>2, <1>3, <1>4, <1>5

\* Two versions are never each newer than the other.
THEOREM NewerAsymmetric ==
  ASSUME NEW u \in Version \cup {Unparsed}, NEW v \in Version \cup {Unparsed},
         Newer(u, v)
  PROVE  ~Newer(v, u)
BY NewerIrreflexive, NewerTransitive

-----------------------------------------------------------------------------
(* Update: the state, and what each stage of a call knows.                 *)

Busy(j) == jobs[j].pc # "idle"

\* What was signed stays signed, and a signature is that of what was signed.
SignaturesHold ==
  \A i \in DOMAIN releases :
    releases[i].sig # 0 => <<releases[i].version, releases[i].sig>> \in signed

OneJob ==
  /\ \A j \in Jobs : Busy(j) => updating
  /\ \A j, k \in Jobs : Busy(j) /\ Busy(k) => j = k

\* Only a timed check has stamps to remember.
Stamped == \A c \in Checkers :
  checks[c].pc = "idle" \/ checks[c].manual => checks[c].stamp = 0 /\ checks[c].prev = 0

Ahead(rel) == rel = NoRelease \/ Newer(rel.version, serving)

Compared ==
  /\ Ahead(release)
  /\ \A c \in Checkers : Ahead(checks[c].found)
  /\ \A j \in Jobs : Busy(j) => Newer(jobs[j].rel.version, serving)

Forgotten == ~Serves =>
  /\ release = NoRelease
  /\ \A c \in Checkers : checks[c] = NoCheck
  /\ \A j \in Jobs : jobs[j] = NoJob

Got(j) == File(jobs[j].rel.version, jobs[j].got, TRUE)
Verified(j) == <<jobs[j].rel.version, jobs[j].got>> \in signed

\* Nothing is recorded as downloaded before the download.
NotYet(j) == jobs[j].pc \in {"clear", "get"} => jobs[j].got = 0

\* What a call knows at each of its stages.
Stage(j) ==
  /\ NotYet(j)
  /\ jobs[j].pc = "sum" /\ jobs[j].got # 0 => archive = Got(j)
  /\ jobs[j].pc = "sig" => archive = Got(j) /\ jobs[j].sums = jobs[j].got /\ jobs[j].got # 0
  /\ jobs[j].pc = "extract" => archive = Got(j) /\ Verified(j)
  /\ jobs[j].pc = "swap" => staged = Got(j) /\ Verified(j)

Genuine(file) == file = File(FirstVersion, 0, TRUE) \/ <<file.version, file.build>> \in signed

UpInv ==
  /\ UpdTypeOK
  /\ SignaturesHold
  /\ OneJob
  /\ Stamped
  /\ Compared
  /\ Forgotten
  /\ \A j \in Jobs : Stage(j)
  /\ program.whole /\ Genuine(program)
  /\ Serves => program.version = serving \/ Newer(program.version, serving)
  /\ NotLeftDown

Counters == {"uploads", "checks", "updates", "faults", "ends", "unknowns"}
ChancesOK == chances \in [Counters -> Nat]
ReleaseRecs == [version : UpdVersions, package : Builds, sums : Builds, sig : Builds]

(***************************************************************************)
(* Lemmas on the operators                                                 *)
(***************************************************************************)
\* A bound that is used stays a count.
LEMMA TakesKeeps ==
  ASSUME ChancesOK, NEW what \in Counters, Takes(what)
  PROVE  ChancesOK'
BY DEF ChancesOK, Takes, Counters

\* A fault that is used up leaves a count as well.
LEMMA FailsKeeps == ASSUME ChancesOK, Fails PROVE ChancesOK'
BY TakesKeeps DEF Fails, Counters

\* A set of naturals that is not empty has a least element.
LEMMA LeastOf ==
  ASSUME NEW S \in SUBSET Nat, S # {}
  PROVE  \E i \in S : \A j \in S : i <= j
<1> DEFINE R == {p \in Nat \X Nat : p[1] < p[2]}
<1>1. IsWellFoundedOn(R, Nat)
  BY NatLessThanWellFounded, Zenon DEF OpToRel
<1>2. \E i \in S : \A j \in S : ~(<<j, i>> \in R)
  BY <1>1, WFMin, Zenon
<1>3. \A i, j \in Nat : ~(<<j, i>> \in R) => i <= j
  OBVIOUS
<1> QED BY <1>2, <1>3

\* Releases are recorded with every file they have.
LEMMA ReleasesTyped ==
  ASSUME UpdTypeOK
  PROVE  /\ releases \in Seq(ReleaseRecs) /\ DOMAIN releases = 1 .. Len(releases)
         /\ \A i \in DOMAIN releases : releases[i] \in ReleaseRecs
<1>1. releases \in Seq(ReleaseRecs)
  BY Zenon DEF UpdTypeOK, ReleaseRecs
<1> QED BY <1>1

\* What is found is newer than what runs, or it is nothing.
LEMMA FirstOfIsNewer ==
  ASSUME UpdTypeOK, NEW P \in SUBSET DOMAIN releases
  PROVE  FirstOf(P) \in ReleaseSet /\ Ahead(FirstOf(P))
<1> DEFINE fit == {i \in P : Newer(releases[i].version, serving)}
<1>1. CASE fit = {}
  BY <1>1 DEF FirstOf, Ahead, NoRelease, ReleaseSet, UpdKnown
<1>2. CASE fit # {}
  <2>1. \E i \in fit : \A j \in fit : i <= j
    <3>1. fit \in SUBSET Nat
      BY ReleasesTyped
    <3> QED BY <3>1, <1>2, LeastOf
  <2>2. PICK i \in fit : i = CHOOSE k \in fit : \A j \in fit : k <= j
    BY <2>1
  <2>3. releases[i] \in ReleaseRecs
    BY <2>2, ReleasesTyped
  <2>4. FirstOf(P) = [version |-> releases[i].version, sums |-> releases[i].sums # 0, sig |-> releases[i].sig # 0]
    BY <1>2, <2>2 DEF FirstOf
  <2> QED BY <2>2, <2>3, <2>4 DEF Ahead, ReleaseSet, UpdKnown, ReleaseRecs
<1> QED BY <1>1, <1>2

\* A stamp is left for a check that begins: the other one and the clock have three at most.
LEMMA FreeStampFits ==
  ASSUME UpdTypeOK, Stamped, NEW c \in Checkers, checks[c].pc = "idle" \/ checks[c].manual
  PROVE  FreeStamp \in Stamps
<1> DEFINE Free(s) == s # lastCheck /\ \A d \in Checkers :
              checks[d].pc = "idle" \/ s \notin {checks[d].stamp, checks[d].prev}
<1>1. PICK d \in Checkers : Checkers = {c, d}
  BY DEF Checkers
<1>2. checks[c].stamp = 0 /\ checks[c].prev = 0
  BY DEF Stamped
<1>3. \E s \in Stamps : s # lastCheck /\ s # checks[d].stamp /\ s # checks[d].prev
  BY DEF Stamps
<1>4. \E s \in Stamps : Free(s)
  BY <1>1, <1>2, <1>3 DEF Stamps
<1>5. FreeStamp = CHOOSE s \in Stamps : Free(s)
  BY DEF FreeStamp
<1> HIDE DEF Free
<1> QED BY <1>4, <1>5

\* What the publisher has of a version is of that version, and its signature is genuine.
LEMMA PublishedFits ==
  ASSUME UpdTypeOK, SignaturesHold, NEW v \in UpdKnown
  PROVE  /\ Published(v).package \in Builds /\ Published(v).sums \in Builds /\ Published(v).sig \in Builds
         /\ Published(v).sig # 0 => <<v, Published(v).sig>> \in signed
<1> DEFINE at == {i \in DOMAIN releases : releases[i].version = v}
<1>1. CASE at = {}
  BY <1>1 DEF Published, Builds
<1>2. CASE at # {}
  <2>1. PICK i \in at : i = CHOOSE k \in at : TRUE
    BY <1>2
  <2>2. Published(v) = releases[i]
    BY <1>2, <2>1 DEF Published
  <2>3. releases[i] \in ReleaseRecs /\ releases[i].version = v
    BY <2>1, ReleasesTyped
  <2> QED BY <2>1, <2>2, <2>3 DEF ReleaseRecs, SignaturesHold
<1> QED BY <1>1, <1>2

(***************************************************************************)
(* Every step keeps the invariant                                          *)
(***************************************************************************)
\* The parts of it that depend on what the publisher does.
LEMMA PublisherKeeps ==
  ASSUME UpInv, Announce \/ Upload
  PROVE  UpInv'
<1> USE DEF UpInv
<1>1. ChancesOK'
  BY TakesKeeps DEF UpdTypeOK, ChancesOK, Counters, Announce, Upload
<1>2. CASE Announce
  <2>1. PICK v \in UpdVersions : releases' = <<[version |-> v, package |-> 0, sums |-> 0, sig |-> 0]>> \o releases
    BY <1>2 DEF Announce
  <2> DEFINE r == [version |-> v, package |-> 0, sums |-> 0, sig |-> 0]
  <2>2. r \in ReleaseRecs
    BY DEF ReleaseRecs, Builds
  <2>3. releases' = <<r>> \o releases
    BY <2>1
  <2> HIDE DEF r
  <2>4. releases' \in Seq(ReleaseRecs)
    BY <2>2, <2>3, ReleasesTyped
  <2>5. \A i \in DOMAIN releases' : releases'[i] = r \/ \E k \in DOMAIN releases : releases'[i] = releases[k]
    BY <2>2, <2>3, ReleasesTyped
  <2>6. SignaturesHold'
    BY <1>2, <2>5 DEF SignaturesHold, Announce, r
  <2>7. UpdTypeOK'
    BY <1>1, <1>2, <2>4 DEF UpdTypeOK, ReleaseRecs, ChancesOK, Counters, Announce, fileVars, memoryVars
  <2> QED BY <1>2, <2>6, <2>7 DEF Announce, fileVars, memoryVars, OneJob, Busy, Stamped, Compared, Ahead,
                                  Forgotten, Serves, Stage, NotYet, Got, Verified, Genuine, NotLeftDown
<1>3. CASE Upload
  <2>1. signed \subseteq signed' /\ SignaturesHold' /\ releases' \in Seq(ReleaseRecs) /\ signed' \subseteq UpdVersions \X Builds
    <3>1. PICK i \in DOMAIN releases :
            LET r == releases[i] IN
            \/ /\ r.package = r.sig /\ r.package + 1 \in Builds
               /\ releases' = [releases EXCEPT ![i].package = @ + 1] /\ UNCHANGED signed
            \/ /\ r.package > r.sums
               /\ releases' = [releases EXCEPT ![i].sums = r.package] /\ UNCHANGED signed
            \/ /\ r.sums > r.sig
               /\ releases' = [releases EXCEPT ![i].sig = r.sums]
               /\ signed' = signed \cup {<<r.version, r.sums>>}
      BY <1>3 DEF Upload
    <3>2. releases[i] \in ReleaseRecs /\ releases \in Seq(ReleaseRecs)
      BY ReleasesTyped
    <3>3. PICK s \in ReleaseRecs : releases' = [releases EXCEPT ![i] = s]
                                   /\ s.version = releases[i].version
                                   /\ (s.sig = releases[i].sig \/ <<s.version, s.sig>> \in signed')
      <4> DEFINE r == releases[i]
      <4>1. CASE r.package + 1 \in Builds /\ releases' = [releases EXCEPT ![i].package = @ + 1] /\ signed' = signed
        <5>1. [r EXCEPT !.package = @ + 1] \in ReleaseRecs
          BY <3>2, <4>1 DEF ReleaseRecs
        <5> QED BY <3>2, <4>1, <5>1 DEF ReleaseRecs
      <4>2. CASE releases' = [releases EXCEPT ![i].sums = r.package] /\ signed' = signed
        <5>1. [r EXCEPT !.sums = r.package] \in ReleaseRecs
          BY <3>2 DEF ReleaseRecs
        <5> QED BY <3>2, <4>2, <5>1 DEF ReleaseRecs
      <4>3. CASE releases' = [releases EXCEPT ![i].sig = r.sums] /\ signed' = signed \cup {<<r.version, r.sums>>}
        <5>1. [r EXCEPT !.sig = r.sums] \in ReleaseRecs
          BY <3>2 DEF ReleaseRecs
        <5> QED BY <3>2, <4>3, <5>1 DEF ReleaseRecs
      <4> QED BY <3>1, <4>1, <4>2, <4>3
    <3>4. releases' \in Seq(ReleaseRecs)
      BY <3>2, <3>3
    <3>5. signed \subseteq signed' /\ signed' \subseteq UpdVersions \X Builds
      BY <3>1, <3>2 DEF UpdTypeOK, ReleaseRecs
    <3>6. SignaturesHold'
      BY <3>2, <3>3, <3>5, ReleasesTyped DEF SignaturesHold
    <3> QED BY <3>4, <3>5, <3>6
  <2>2. UpdTypeOK'
    BY <1>1, <1>3, <2>1 DEF UpdTypeOK, ReleaseRecs, ChancesOK, Counters, Upload, fileVars, memoryVars
  <2> QED BY <1>3, <2>1, <2>2 DEF Upload, fileVars, memoryVars, OneJob, Busy, Stamped, Compared, Ahead,
                                  Forgotten, Serves, Stage, NotYet, Got, Verified, Genuine, NotLeftDown
<1> QED BY <1>2, <1>3

\* A step of a check touches the checks, their clock and what they store.
LEMMA ChecksMove ==
  ASSUME UpInv, Serves, UNCHANGED <<manager, publisherVars, fileVars, serving, jobs, updating, restart, stopped>>,
         ChancesOK', lastCheck' \in 0 .. 4, release' \in ReleaseSet, Ahead(release)',
         NEW c \in Checkers, NEW n \in CheckSet, checks' = [checks EXCEPT ![c] = n], Ahead(n.found),
         n.pc = "idle" \/ n.manual => n.stamp = 0 /\ n.prev = 0
  PROVE  UpInv'
<1> USE DEF UpInv, publisherVars, fileVars
<1>1. UpdTypeOK'
  BY DEF UpdTypeOK, ChancesOK, Counters
<1>2. Stamped'
  BY DEF Stamped, UpdTypeOK
<1>3. Compared'
  BY DEF Compared, Ahead, Busy, UpdTypeOK
<1> QED BY <1>1, <1>2, <1>3 DEF SignaturesHold, OneJob, Busy, Forgotten, Serves, Stage, NotYet, Got, Verified, Genuine, NotLeftDown

\* What a check finds is newer than what runs, and still is when it is stored.
LEMMA CheckingKeeps ==
  ASSUME UpInv, NEW c \in Checkers, Checking(c)
  PROVE  UpInv'
<1>0. UpdTypeOK /\ checks[c] \in CheckSet /\ release \in ReleaseSet /\ lastCheck \in 0 .. 4 /\ ChancesOK
      /\ Ahead(release) /\ Ahead(checks[c].found) /\ NoCheck \in CheckSet /\ Stamped /\ Ahead(NoRelease)
  <2>1. UpdTypeOK /\ Stamped /\ Ahead(release) /\ Ahead(checks[c].found) /\ Ahead(NoRelease)
    BY DEF UpInv, Compared, Ahead
  <2>2. checks[c] \in CheckSet /\ release \in ReleaseSet /\ lastCheck \in 0 .. 4 /\ ChancesOK
    BY <2>1 DEF UpdTypeOK, ChancesOK, Counters
  <2>3. NoRelease \in ReleaseSet
    BY DEF NoRelease, ReleaseSet, UpdKnown
  <2>4. NoCheck \in CheckSet
    BY <2>3 DEF NoCheck, CheckSet
  <2> QED BY <2>1, <2>2, <2>3, <2>4
<1>1. checks[c].pc # "idle" => Serves
  BY DEF UpInv, Forgotten, NoCheck
<1>2. ASSUME UNCHANGED <<serving, release>> PROVE Ahead(release)'
  BY <1>0, <1>2 DEF Ahead
<1>3. CASE PokeUpdate(c)
  <2>1. FreeStamp \in Stamps
    BY <1>0, <1>3, FreeStampFits DEF PokeUpdate
  <2> DEFINE n == [NoCheck EXCEPT !.pc = "asks", !.stamp = FreeStamp, !.prev = lastCheck]
  <2>2. n \in CheckSet /\ Ahead(n.found) /\ ~(n.pc = "idle" \/ n.manual)
    <3>1. \A s, p \in 0 .. 4 : LET m == [NoCheck EXCEPT !.pc = "asks", !.stamp = s, !.prev = p] IN
            m \in CheckSet /\ m.found = NoRelease /\ m.pc = "asks" /\ m.manual = FALSE
      BY <1>0 DEF NoCheck, CheckSet
    <3>2. FreeStamp \in 0 .. 4
      BY <2>1 DEF Stamps
    <3> QED BY <1>0, <3>1, <3>2, Zenon
  <2>3. ChancesOK'
    BY <1>0, <1>3, TakesKeeps DEF PokeUpdate, Counters
  <2>4. checks' = [checks EXCEPT ![c] = n] /\ lastCheck' = FreeStamp
    BY <1>3 DEF PokeUpdate
  <2>5. /\ Serves /\ UNCHANGED <<manager, publisherVars, fileVars, serving, jobs, updating, restart, stopped>>
        /\ UNCHANGED release
    BY <1>3 DEF PokeUpdate
  <2>6. Ahead(release)' /\ release' \in ReleaseSet /\ lastCheck' \in 0 .. 4
    BY <1>0, <1>2, <2>1, <2>4, <2>5 DEF Stamps
  <2> HIDE DEF n
  <2> QED BY <2>2, <2>3, <2>4, <2>5, <2>6, ChecksMove
<1>4. CASE CheckUpdate(c)
  <2> DEFINE n == [NoCheck EXCEPT !.pc = "asks", !.manual = TRUE]
  <2>1. n \in CheckSet /\ Ahead(n.found) /\ n.stamp = 0 /\ n.prev = 0
    BY <1>0 DEF NoCheck, CheckSet
  <2>2. ChancesOK'
    BY <1>0, <1>4, TakesKeeps DEF CheckUpdate, Counters
  <2> QED BY <1>0, <1>2, <1>4, <2>1, <2>2, ChecksMove DEF CheckUpdate
<1>5. CASE NotNow(c)
  <2>1. ChancesOK'
    BY <1>0, <1>5, FailsKeeps DEF NotNow
  <2>2. lastCheck' \in 0 .. 4
    BY <1>0, <1>5 DEF NotNow, CheckSet
  <2> QED BY <1>0, <1>1, <1>2, <1>5, <2>1, <2>2, ChecksMove DEF NotNow, NoCheck
<1>6. CASE Check(c)
  <2>1. ChancesOK'
    BY <1>0, <1>6, FailsKeeps DEF Check, ChancesOK
  <2>2. \E r \in ReleaseSet : Ahead(r) /\ checks' \in
          {[checks EXCEPT ![c].pc = "found", ![c].found = r], [checks EXCEPT ![c] = NoCheck]}
    <3> DEFINE named == {i \in DOMAIN releases : releases[i].package # 0}
               asked(answered) == {i \in DOMAIN releases : releases[i].package # 0 \/ ~answered}
    <3>1. checkAPI \in ReleaseSet /\ Ahead(checkAPI)
      BY <1>0, FirstOfIsNewer DEF checkAPI
    <3>2. ASSUME NEW answered \in BOOLEAN PROVE checkAtom(answered) \in ReleaseSet /\ Ahead(checkAtom(answered))
      <4> DEFINE r == FirstOf(asked(answered))
      <4>1. r \in ReleaseSet /\ Ahead(r)
        BY <1>0, FirstOfIsNewer
      <4>2. checkAtom(answered) = IF r = NoRelease THEN r ELSE [r EXCEPT !.sums = TRUE, !.sig = TRUE]
        BY DEF checkAtom
      <4> HIDE DEF r
      <4> QED BY <4>1, <4>2 DEF ReleaseSet, Ahead
    <3> QED BY <1>0, <1>6, <3>1, <3>2 DEF Check
  <2>3. PICK r \in ReleaseSet : Ahead(r) /\ checks' \in
          {[checks EXCEPT ![c].pc = "found", ![c].found = r], [checks EXCEPT ![c] = NoCheck]}
    BY <2>2
  <2> DEFINE n == [checks[c] EXCEPT !.pc = "found", !.found = r]
  <2>4. n \in CheckSet /\ Ahead(n.found) /\ (n.manual => n.stamp = 0 /\ n.prev = 0) /\ n.pc # "idle"
    BY <1>0, <2>3 DEF CheckSet, Stamped
  <2>5. CASE checks' = [checks EXCEPT ![c].pc = "found", ![c].found = r]
    <3>1. checks' = [checks EXCEPT ![c] = n]
      BY <1>0, <2>5 DEF UpdTypeOK
    <3> QED BY <1>0, <1>1, <1>2, <1>6, <2>1, <2>4, <3>1, ChecksMove DEF Check
  <2>6. CASE checks' = [checks EXCEPT ![c] = NoCheck]
    BY <1>0, <1>1, <1>2, <1>6, <2>1, <2>6, ChecksMove DEF Check, NoCheck
  <2> QED BY <2>3, <2>5, <2>6
<1>7. CASE StoreRelease(c)
  <2>1. lastCheck' \in 0 .. 4
    BY <1>0, <1>7, FreeStampFits DEF StoreRelease, Stamps
  <2>2. release' \in ReleaseSet /\ Ahead(release)'
    BY <1>0, <1>7 DEF StoreRelease, CheckSet, Ahead
  <2>3. ChancesOK'
    BY <1>0, <1>7 DEF StoreRelease, ChancesOK
  <2> QED BY <1>0, <1>1, <1>7, <2>1, <2>2, <2>3, ChecksMove DEF StoreRelease, NoCheck
<1> QED BY <1>3, <1>4, <1>5, <1>6, <1>7 DEF Checking

\* A step of the call at work: it ends, or goes on with the release it was begun for.
LEMMA CallMoves ==
  ASSUME UpInv, UNCHANGED <<manager, publisherVars, serving, release, lastCheck, checks, stopped>>,
         ChancesOK', NEW j \in Jobs, Busy(j), NEW n \in JobSet, jobs' = [jobs EXCEPT ![j] = n],
         IF n.pc = "idle" THEN updating' = FALSE ELSE updating' = updating /\ n.rel = jobs[j].rel,
         archive' \in FileSet, staged' \in FileSet, program' \in FileSet, Stage(j)',
         program' = program
           \/ (program'.whole /\ Genuine(program') /\ Newer(program'.version, serving)),
         restart' = restart \/ (restart = "none" /\ restart' = "waits")
  PROVE  UpInv'
<1> USE DEF UpInv, publisherVars
<1>1. UpdTypeOK'
  BY DEF UpdTypeOK, ChancesOK, Counters
<1>2. \A k \in Jobs \ {j} : jobs'[k] = jobs[k] /\ ~Busy(k)
  BY DEF UpdTypeOK, OneJob
<1>3. jobs'[j] = n
  BY DEF UpdTypeOK
<1>4. OneJob'
  BY <1>2, <1>3 DEF OneJob, Busy, UpdTypeOK
<1>5. Compared'
  BY <1>2, <1>3 DEF Compared, Ahead, Busy
<1>6. Forgotten' /\ NotLeftDown'
  BY DEF Forgotten, Busy, NoJob, NotLeftDown, Serves
<1>7. \A k \in Jobs : Stage(k)'
  BY <1>2 DEF Stage, NotYet, Busy
<1>8. program'.whole /\ Genuine(program)' /\ (Serves' => program'.version = serving' \/ Newer(program'.version, serving'))
  BY DEF Genuine, Serves
<1> QED BY <1>1, <1>4, <1>5, <1>6, <1>7, <1>8 DEF SignaturesHold, Stamped

\* Which call is at work, and on what, when it makes a step.
LEMMA WhileBusy ==
  ASSUME UpInv, NEW j \in Jobs
  PROVE  /\ UpdTypeOK /\ jobs[j] \in JobSet /\ ChancesOK /\ NoJob \in JobSet /\ NoFile \in FileSet /\ Stage(j)
         /\ archive \in FileSet /\ staged \in FileSet /\ program \in FileSet
         /\ jobs[j].rel.version \in UpdKnown /\ jobs[j].got \in Builds /\ SignaturesHold
<1> USE DEF UpInv
<1>1. NoRelease \in ReleaseSet /\ NoFile \in FileSet
  BY DEF NoRelease, ReleaseSet, UpdKnown, NoFile, FileSet, Builds
<1>2. NoJob \in JobSet
  BY <1>1 DEF NoJob, JobSet, Builds
<1>3. jobs[j] \in JobSet /\ ChancesOK
  BY DEF UpdTypeOK, ChancesOK, Counters
<1>4. jobs[j].rel.version \in UpdKnown /\ jobs[j].got \in Builds
  BY <1>3 DEF JobSet, ReleaseSet
<1> QED BY <1>1, <1>2, <1>3, <1>4 DEF UpdTypeOK

\* A call begins only while no other is at work, with a release that is newer.
LEMMA ApplyKeeps ==
  ASSUME UpInv, NEW j \in Jobs, ApplyUpdate(j)
  PROVE  UpInv'
<1> USE DEF UpInv
<1> DEFINE n == [NoJob EXCEPT !.pc = "clear", !.rel = release]
<1>1. n \in JobSet /\ n.pc = "clear" /\ n.rel = release /\ n.got = 0
  BY WhileBusy DEF NoJob, JobSet, UpdTypeOK
<1>2. ChancesOK'
  BY WhileBusy, TakesKeeps DEF ApplyUpdate, Counters
<1>3. jobs' = [jobs EXCEPT ![j] = n] /\ updating' = TRUE /\ Serves /\ ~updating /\ release # NoRelease
      /\ UNCHANGED <<manager, publisherVars, fileVars, serving, release, lastCheck, checks, restart, stopped>>
  BY DEF ApplyUpdate, installVars
<1> HIDE DEF n
<1>4. \A k \in Jobs : ~Busy(k)
  BY <1>3 DEF OneJob
<1>5. \A k \in Jobs \ {j} : jobs'[k] = jobs[k]
  BY <1>3 DEF UpdTypeOK
<1>6. jobs'[j] = n
  BY <1>3 DEF UpdTypeOK
<1>7. UpdTypeOK'
  BY <1>1, <1>2, <1>3 DEF UpdTypeOK, ChancesOK, Counters, publisherVars, fileVars
<1>8. OneJob'
  BY <1>3, <1>4, <1>5 DEF OneJob, Busy
<1>9. Compared'
  BY <1>1, <1>3, <1>4, <1>5, <1>6 DEF Compared, Ahead, Busy
<1>10. \A k \in Jobs : Stage(k)'
  BY <1>1, <1>4, <1>5, <1>6 DEF Stage, NotYet, Busy
<1> QED BY <1>3, <1>7, <1>8, <1>9, <1>10
        DEF SignaturesHold, Stamped, Forgotten, Serves, Genuine, NotLeftDown, publisherVars, fileVars

\* The call ends, the program's file as it was.
LEMMA CallEnds ==
  ASSUME UpInv, UNCHANGED <<installVars, program>>, ChancesOK', NEW j \in Jobs, Busy(j), Over(j),
         archive' \in FileSet, staged' \in FileSet
  PROVE  UpInv'
<1>1. jobs' = [jobs EXCEPT ![j] = NoJob] /\ updating' = FALSE
  BY DEF Over
<1>2. jobs'[j] = NoJob
  BY <1>1, WhileBusy DEF UpdTypeOK
<1>3. Stage(j)'
  BY <1>2 DEF Stage, NotYet, NoJob
<1>4. NoJob.pc = "idle"
  BY DEF NoJob
<1>5. UNCHANGED <<manager, publisherVars, serving, release, lastCheck, checks, stopped>> /\ restart' = restart
  BY DEF installVars
<1>6. NoJob \in JobSet /\ program' \in FileSet
  BY WhileBusy
<1>7. IF NoJob.pc = "idle" THEN updating' = FALSE ELSE updating' = updating /\ NoJob.rel = jobs[j].rel
  BY <1>1, <1>4
<1>8. jobs' = [jobs EXCEPT ![j] = NoJob] /\ program' = program
  BY <1>1
<1> QED BY <1>3, <1>5, <1>6, <1>7, <1>8, CallMoves, Zenon

\* The call goes on, the program's file as it was.
LEMMA CallGoesOn ==
  ASSUME UpInv, UNCHANGED <<installVars, program, updating>>, ChancesOK', NEW j \in Jobs, Busy(j),
         NEW n \in JobSet, jobs' = [jobs EXCEPT ![j] = n], n.pc # "idle", n.rel = jobs[j].rel,
         archive' \in FileSet, staged' \in FileSet, Stage(j)'
  PROVE  UpInv'
<1>1. UNCHANGED <<manager, publisherVars, serving, release, lastCheck, checks, stopped>> /\ restart' = restart
  BY DEF installVars
<1>2. program' \in FileSet
  BY WhileBusy
<1>3. IF n.pc = "idle" THEN updating' = FALSE ELSE updating' = updating /\ n.rel = jobs[j].rel
  OBVIOUS
<1> QED BY <1>1, <1>2, <1>3, CallMoves, Zenon

\* A call that goes on keeps what it is about.
LEMMA GoesMoves ==
  ASSUME UpInv, NEW j \in Jobs, NEW pc \in {"get", "sum", "sig", "extract", "swap", "clean"}, Goes(j, pc)
  PROVE  LET n == [jobs[j] EXCEPT !.pc = pc] IN
         /\ n \in JobSet /\ jobs' = [jobs EXCEPT ![j] = n] /\ n.pc # "idle" /\ n.rel = jobs[j].rel
         /\ UNCHANGED updating
         /\ jobs'[j] \in JobSet
         /\ jobs'[j].pc = pc /\ jobs'[j].rel = jobs[j].rel /\ jobs'[j].got = jobs[j].got /\ jobs'[j].sums = jobs[j].sums
<1> DEFINE n == [jobs[j] EXCEPT !.pc = pc]
<1>1. jobs[j] \in JobSet /\ jobs \in [Jobs -> JobSet]
  BY WhileBusy DEF UpdTypeOK
<1>2. n \in JobSet /\ n.pc = pc /\ n.rel = jobs[j].rel /\ n.got = jobs[j].got /\ n.sums = jobs[j].sums
  BY <1>1 DEF JobSet
<1>3. jobs' = [jobs EXCEPT ![j] = n] /\ UNCHANGED updating
  BY <1>1 DEF Goes
<1> QED BY <1>1, <1>2, <1>3

\* The directory is emptied by the only call at work.
LEMMA ClearDirKeeps ==
  ASSUME UpInv, NEW j \in Jobs, ClearDir(j)
  PROVE  UpInv'
<1>1. Busy(j) /\ ChancesOK' /\ archive' \in FileSet /\ staged' \in FileSet /\ UNCHANGED <<installVars, program>>
  BY WhileBusy DEF ClearDir, Busy, ChancesOK
<1>2. CASE Over(j)
  BY <1>1, <1>2, CallEnds
<1>3. CASE Goes(j, "get")
  <2>1. Stage(j)'
    BY <1>3, GoesMoves, WhileBusy DEF Stage, NotYet, ClearDir
  <2> QED BY <1>1, <1>3, <2>1, GoesMoves, CallGoesOn
<1> QED BY <1>2, <1>3 DEF ClearDir

\* What is recorded as downloaded is whole.
LEMMA GetPackageKeeps ==
  ASSUME UpInv, NEW j \in Jobs, GetPackage(j)
  PROVE  UpInv'
<1> DEFINE v == jobs[j].rel.version
           build == Published(v).package
<1>1. Busy(j) /\ staged' \in FileSet /\ UNCHANGED <<installVars, program>> /\ jobs[j] \in JobSet
      /\ jobs \in [Jobs -> JobSet]
  BY WhileBusy DEF GetPackage, Busy, UpdTypeOK
<1>2. ChancesOK'
  BY WhileBusy, FailsKeeps DEF GetPackage, ChancesOK
<1>3. build \in Builds /\ v \in UpdKnown
  BY WhileBusy, PublishedFits
<1>4. File(v, build, TRUE) \in FileSet /\ File(v, build, FALSE) \in FileSet
  BY <1>3 DEF File, FileSet
<1>5. archive' \in FileSet
  BY <1>4, WhileBusy DEF GetPackage
<1>6. CASE Over(j)
  BY <1>1, <1>2, <1>5, <1>6, CallEnds
<1>7. CASE /\ build # 0 /\ archive' = File(v, build, TRUE) /\ UNCHANGED updating
           /\ jobs' = [jobs EXCEPT ![j].pc = "sum", ![j].got = build]
  <2> DEFINE n == [jobs[j] EXCEPT !.pc = "sum", !.got = build]
  <2>1. n \in JobSet /\ n.pc = "sum" /\ n.rel = jobs[j].rel /\ n.got = build
    BY <1>1, <1>3 DEF JobSet
  <2>2. jobs' = [jobs EXCEPT ![j] = n] /\ jobs'[j] = n
    BY <1>1, <1>7
  <2> HIDE DEF n
  <2>3. Stage(j)'
    BY <1>7, <2>1, <2>2 DEF Stage, NotYet, Got
  <2> QED BY <1>1, <1>2, <1>5, <1>7, <2>1, <2>2, <2>3, CallGoesOn
<1>8. CASE archive' = File(v, build, FALSE) /\ Goes(j, "sum") /\ jobs[j].got = 0
  <2>1. Stage(j)'
    BY <1>8, GoesMoves DEF Stage, NotYet
  <2> QED BY <1>1, <1>2, <1>5, <1>8, <2>1, GoesMoves, CallGoesOn
<1>9. jobs[j].pc = "get" => jobs[j].got = 0
  BY WhileBusy DEF Stage, NotYet
<1> QED BY <1>6, <1>7, <1>8, <1>9 DEF GetPackage

\* Only what was downloaded whole has a sum to agree with.
LEMMA FetchSumKeeps ==
  ASSUME UpInv, NEW j \in Jobs, FetchSum(j)
  PROVE  UpInv'
<1> DEFINE sums == Published(jobs[j].rel.version).sums
<1>1. Busy(j) /\ staged' \in FileSet /\ UNCHANGED <<installVars, program>> /\ jobs[j] \in JobSet
      /\ jobs \in [Jobs -> JobSet] /\ archive' \in FileSet
  BY WhileBusy DEF FetchSum, Busy, UpdTypeOK
<1>2. ChancesOK'
  BY WhileBusy, FailsKeeps DEF FetchSum, ChancesOK
<1>3. sums \in Builds
  BY WhileBusy, PublishedFits
<1>4. CASE Over(j)
  BY <1>1, <1>2, <1>4, CallEnds
<1>5. CASE /\ sums # 0 /\ sums = jobs[j].got /\ UNCHANGED <<archive, updating>>
           /\ jobs' = [jobs EXCEPT ![j].pc = "sig", ![j].sums = sums]
  <2> DEFINE n == [jobs[j] EXCEPT !.pc = "sig", !.sums = sums]
  <2>1. n \in JobSet /\ n.pc = "sig" /\ n.rel = jobs[j].rel /\ n.got = jobs[j].got /\ n.sums = sums
    BY <1>1, <1>3 DEF JobSet
  <2>2. jobs' = [jobs EXCEPT ![j] = n] /\ jobs'[j] = n
    BY <1>1, <1>5
  <2> HIDE DEF n
  <2>3. archive = Got(j)
    BY <1>5, WhileBusy DEF Stage, NotYet, FetchSum
  <2>4. Stage(j)'
    BY <1>5, <2>1, <2>2, <2>3 DEF Stage, NotYet, Got
  <2> QED BY <1>1, <1>2, <1>5, <2>1, <2>2, <2>4, CallGoesOn
<1> QED BY <1>4, <1>5 DEF FetchSum

\* The signature over the checksums of what was downloaded is the publisher's.
LEMMA FetchSignatureKeeps ==
  ASSUME UpInv, NEW j \in Jobs, FetchSignature(j)
  PROVE  UpInv'
<1> DEFINE sig == Published(jobs[j].rel.version).sig
<1>1. Busy(j) /\ staged' \in FileSet /\ UNCHANGED <<installVars, program>> /\ archive' \in FileSet
  BY WhileBusy DEF FetchSignature, Busy
<1>2. ChancesOK'
  BY WhileBusy, FailsKeeps DEF FetchSignature, ChancesOK
<1>3. sig # 0 => <<jobs[j].rel.version, sig>> \in signed
  BY WhileBusy, PublishedFits
<1>4. CASE Over(j)
  BY <1>1, <1>2, <1>4, CallEnds
<1>5. CASE sig = jobs[j].sums /\ Goes(j, "extract") /\ UNCHANGED archive
  <2>1. archive = Got(j) /\ Verified(j)
    BY <1>3, <1>5, WhileBusy DEF Stage, NotYet, FetchSignature, Verified
  <2>2. signed' = signed
    BY <1>1 DEF installVars, publisherVars
  <2>3. Stage(j)'
    BY <1>5, <2>1, <2>2, GoesMoves DEF Stage, NotYet, Got, Verified
  <2> QED BY <1>1, <1>2, <1>5, <2>3, GoesMoves, CallGoesOn
<1> QED BY <1>4, <1>5 DEF FetchSignature

\* The package that is unpacked is the one that was verified: no other call has touched it.
LEMMA ExtractKeeps ==
  ASSUME UpInv, NEW j \in Jobs, Extract(j)
  PROVE  UpInv'
<1>1. Busy(j) /\ UNCHANGED <<installVars, program>> /\ archive' \in FileSet /\ archive' = archive
  BY WhileBusy DEF Extract, Busy
<1>2. ChancesOK'
  BY WhileBusy, FailsKeeps DEF Extract, ChancesOK
<1>3. staged' \in FileSet
  BY WhileBusy DEF Extract, FileSet
<1>4. CASE Over(j)
  BY <1>1, <1>2, <1>3, <1>4, CallEnds
<1>5. CASE staged' = archive /\ Goes(j, "swap")
  <2>1. archive = Got(j) /\ Verified(j)
    BY WhileBusy DEF Stage, Extract
  <2>2. signed' = signed
    BY <1>1 DEF installVars, publisherVars
  <2>3. Stage(j)'
    BY <1>5, <2>1, <2>2, GoesMoves DEF Stage, NotYet, Got, Verified
  <2> QED BY <1>1, <1>2, <1>3, <1>5, <2>3, GoesMoves, CallGoesOn
<1> QED BY <1>4, <1>5 DEF Extract

\* The program is replaced by something signed and newer than what runs.
LEMMA SwapKeeps ==
  ASSUME UpInv, NEW j \in Jobs, SwapProgram(j)
  PROVE  UpInv'
<1>1. Busy(j) /\ UNCHANGED installVars /\ archive' = archive /\ archive' \in FileSet
  BY WhileBusy DEF SwapProgram, Busy
<1>2. ChancesOK'
  BY WhileBusy, FailsKeeps DEF SwapProgram, ChancesOK
<1>3. CASE Over(j) /\ UNCHANGED <<program, staged>>
  BY <1>1, <1>2, <1>3, WhileBusy, CallEnds
<1>4. CASE staged # NoFile /\ program' = staged /\ staged' = NoFile /\ Goes(j, "clean")
  <2> DEFINE n == [jobs[j] EXCEPT !.pc = "clean"]
  <2>1. n \in JobSet /\ jobs' = [jobs EXCEPT ![j] = n] /\ n.pc # "idle" /\ n.rel = jobs[j].rel /\ updating' = updating
    BY <1>4, GoesMoves
  <2>2. staged = Got(j) /\ Verified(j) /\ Newer(jobs[j].rel.version, serving)
    BY <1>1, WhileBusy DEF Stage, SwapProgram, UpInv, Compared
  <2>3. program'.whole /\ Genuine(program') /\ Newer(program'.version, serving)
    BY <1>4, <2>2 DEF Got, File, Genuine, Verified
  <2>4. Stage(j)'
    BY <1>4, GoesMoves DEF Stage, NotYet
  <2>5. program' \in FileSet /\ staged' \in FileSet
    BY <1>4, WhileBusy
  <2>6. UNCHANGED <<manager, publisherVars, serving, release, lastCheck, checks, stopped>> /\ restart' = restart
    BY <1>1 DEF installVars
  <2>7. IF n.pc = "idle" THEN updating' = FALSE ELSE updating' = updating /\ n.rel = jobs[j].rel
    BY <2>1
  <2> HIDE DEF n
  <2> QED BY <1>1, <1>2, <2>1, <2>3, <2>4, <2>5, <2>6, <2>7, CallMoves, Zenon
<1> QED BY <1>3, <1>4 DEF SwapProgram

\* The call is over; the service goes on until its restart.
LEMMA CleanUpKeeps ==
  ASSUME UpInv, NEW j \in Jobs, CleanUp(j)
  PROVE  UpInv'
<1>1. jobs' = [jobs EXCEPT ![j] = NoJob] /\ updating' = FALSE /\ Busy(j)
  BY DEF CleanUp, Over, Busy
<1>2. jobs'[j] = NoJob
  BY <1>1, WhileBusy DEF UpdTypeOK
<1>3. Stage(j)' /\ NoJob.pc = "idle"
  BY <1>2 DEF Stage, NotYet, NoJob
<1>4. UNCHANGED <<manager, publisherVars, serving, release, lastCheck, checks, stopped>>
      /\ (restart' = restart \/ (restart = "none" /\ restart' = "waits"))
  BY DEF CleanUp
<1>5. NoJob \in JobSet /\ archive' \in FileSet /\ staged' \in FileSet /\ program' \in FileSet /\ program' = program /\ ChancesOK'
  BY WhileBusy DEF CleanUp, ChancesOK
<1>6. IF NoJob.pc = "idle" THEN updating' = FALSE ELSE updating' = updating /\ NoJob.rel = jobs[j].rel
  BY <1>1, <1>3
<1> QED BY <1>1, <1>3, <1>4, <1>5, <1>6, CallMoves, Zenon

\* When the process is gone, so is all it had found or begun.
LEMMA EndedKeeps ==
  ASSUME UpInv, NEW how \in {"starts", "gone", "none"}, Ended(how), ChancesOK', stopped' \in BOOLEAN,
         how \in {"starts", "gone"} \/ stopped'
  PROVE  UpInv'
<1> USE DEF UpInv
<1>1. NoRelease \in ReleaseSet /\ Unparsed \in UpdKnown
  BY DEF NoRelease, ReleaseSet, UpdKnown
<1>2. NoCheck \in CheckSet /\ NoJob \in JobSet
  BY <1>1 DEF NoCheck, CheckSet, NoJob, JobSet, Builds
<1>3. checks' \in [Checkers -> CheckSet] /\ jobs' \in [Jobs -> JobSet]
  BY <1>2 DEF Ended
<1>4. UpdTypeOK'
  <2>1. /\ serving' = Unparsed /\ restart' = how /\ release' = NoRelease /\ lastCheck' = 0 /\ updating' = FALSE
        /\ UNCHANGED <<manager, releases, signed, program, staged, archive>>
    BY DEF Ended, publisherVars, fileVars
  <2>2. chances' \in [{"uploads", "checks", "updates", "faults", "ends", "unknowns"} -> Nat]
    BY DEF ChancesOK, Counters
  <2>3. lastCheck' \in 0 .. 4
    BY <2>1
  <2> QED BY <1>1, <1>3, <2>1, <2>2, <2>3 DEF UpdTypeOK
<1>5. \A c \in Checkers : checks'[c] = NoCheck
  BY DEF Ended
<1>6. \A j \in Jobs : jobs'[j] = NoJob
  BY DEF Ended
<1>7. release' = NoRelease /\ serving' = Unparsed /\ UNCHANGED <<publisherVars, fileVars>> /\ restart' = how
  BY DEF Ended
<1>8. OneJob' /\ \A j \in Jobs : Stage(j)'
  BY <1>6 DEF OneJob, Busy, NoJob, Stage, NotYet
<1>9. Stamped' /\ Compared' /\ Forgotten'
  <2>1. Stamped'
    BY <1>5 DEF Stamped, NoCheck
  <2>2. Compared'
    BY <1>5, <1>6, <1>7 DEF Compared, Ahead, Busy, NoCheck, NoJob
  <2>3. Forgotten'
    BY <1>5, <1>6, <1>7 DEF Forgotten
  <2> QED BY <2>1, <2>2, <2>3
<1> QED BY <1>4, <1>7, <1>8, <1>9 DEF SignaturesHold, Genuine, Serves, NotLeftDown, publisherVars, fileVars

\* What starts is the program's file, which is a release.
LEMMA StartKeeps ==
  ASSUME UpInv, StartsAgain
  PROVE  UpInv'
<1> USE DEF UpInv
<1>1. program.version \in UpdKnown /\ program.version # Unparsed
  BY UpdConstants DEF UpdTypeOK, FileSet, Genuine, File
<1>2. release = NoRelease /\ (\A c \in Checkers : checks[c] = NoCheck) /\ (\A j \in Jobs : jobs[j] = NoJob)
  BY DEF Forgotten, StartsAgain
<1>3. UpdTypeOK'
  BY <1>1 DEF UpdTypeOK, StartsAgain, publisherVars, fileVars, memoryVars
<1>4. Compared'
  BY <1>2 DEF Compared, Ahead, Busy, NoCheck, NoJob, StartsAgain, memoryVars
<1>5. Forgotten' /\ NotLeftDown'
  BY <1>1 DEF Forgotten, NotLeftDown, Serves, StartsAgain
<1> QED BY <1>3, <1>4, <1>5 DEF StartsAgain, SignaturesHold, OneJob, Busy, Stamped, Stage, NotYet, Got, Verified, Genuine,
                                Serves, publisherVars, fileVars, memoryVars

(***************************************************************************)
(* The theorems                                                            *)
(***************************************************************************)
\* What is installed at first counts as genuine.
LEMMA UpInitially == UpdInit => UpInv
<1> SUFFICES ASSUME UpdInit PROVE UpInv
  OBVIOUS
<1>1. NoRelease \in ReleaseSet /\ Unparsed \in UpdKnown /\ FirstVersion \in UpdKnown /\ FirstVersion # Unparsed
  BY UpdConstants DEF NoRelease, ReleaseSet, UpdKnown
<1>2. NoCheck \in CheckSet /\ NoJob \in JobSet /\ NoFile \in FileSet /\ File(FirstVersion, 0, TRUE) \in FileSet
  BY <1>1 DEF NoCheck, CheckSet, NoJob, JobSet, Builds, NoFile, File, FileSet
<1>3. releases \in Seq(ReleaseRecs) /\ signed \subseteq UpdVersions \X Builds /\ SignaturesHold
  <2>1. CASE releases = <<>> /\ signed = {}
    BY <2>1 DEF SignaturesHold
  <2>2. ASSUME NEW v \in UpdVersions, releases = <<[version |-> v, package |-> 1, sums |-> 1, sig |-> 1]>>, signed = {<<v, 1>>}
        PROVE  releases \in Seq(ReleaseRecs) /\ signed \subseteq UpdVersions \X Builds /\ SignaturesHold
    <3> DEFINE r == [version |-> v, package |-> 1, sums |-> 1, sig |-> 1]
    <3>1. r \in ReleaseRecs /\ r.version = v /\ r.sig = 1
      BY DEF ReleaseRecs, Builds
    <3>2. releases = <<r>>
      BY <2>2
    <3> HIDE DEF r
    <3> QED BY <2>2, <3>1, <3>2 DEF SignaturesHold, Builds
  <2> QED BY <2>1, <2>2 DEF UpdInit
<1>4. checks = [c \in Checkers |-> NoCheck] /\ jobs = [j \in Jobs |-> NoJob] /\ release = NoRelease
      /\ program = File(FirstVersion, 0, TRUE) /\ serving = FirstVersion /\ updating = FALSE
  BY DEF UpdInit
<1>5. UpdTypeOK
  <2>1. checks \in [Checkers -> CheckSet] /\ jobs \in [Jobs -> JobSet]
    BY <1>2, <1>4
  <2>2. chances \in [{"uploads", "checks", "updates", "faults", "ends", "unknowns"} -> Nat]
    BY UpdConstants DEF UpdInit
  <2>3. manager \in {"systemd", "procd"} /\ staged = NoFile /\ archive = NoFile /\ lastCheck = 0 /\ restart = "none" /\ stopped = FALSE
    BY DEF UpdInit
  <2>4. lastCheck \in 0 .. 4
    BY <2>3
  <2> QED BY <1>1, <1>2, <1>3, <1>4, <2>1, <2>2, <2>3, <2>4 DEF UpdTypeOK, ReleaseRecs
<1>6. OneJob /\ \A j \in Jobs : Stage(j)
  BY <1>4 DEF OneJob, Busy, NoJob, Stage, NotYet
<1>7. Stamped /\ Compared
  BY <1>4 DEF Stamped, NoCheck, Compared, Ahead, Busy, NoJob
<1>8. Forgotten /\ NotLeftDown
  BY <1>1, <1>4 DEF Forgotten, Serves, NotLeftDown
<1>9. program.whole /\ Genuine(program) /\ (Serves => program.version = serving)
  BY <1>4 DEF Genuine, File
<1> QED BY <1>3, <1>5, <1>6, <1>7, <1>8, <1>9 DEF UpInv

\* One step per action, or per group of actions that touch the same things.
LEMMA UpStepKeeps ==
  ASSUME UpInv, [UpdNext]_updVars
  PROVE  UpInv'
<1>0. ChancesOK /\ stopped \in BOOLEAN
  BY DEF UpInv, UpdTypeOK, ChancesOK, Counters
<1>1. CASE Announce \/ Upload
  BY <1>1, PublisherKeeps
<1>2. CASE \E c \in Checkers : Checking(c)
  BY <1>2, CheckingKeeps
<1>3. CASE \E j \in Jobs : Updating(j)
  BY <1>3, ApplyKeeps, ClearDirKeeps, GetPackageKeeps, FetchSumKeeps, FetchSignatureKeeps, ExtractKeeps, SwapKeeps,
     CleanUpKeeps DEF Updating
<1>4. CASE Leaves \/ Restarts \/ ProcessEnds \/ UserStops
  <2>1. ChancesOK'
    BY <1>0, <1>4, TakesKeeps DEF Leaves, Restarts, ProcessEnds, UserStops, Counters, ChancesOK
  <2>2. stopped' \in BOOLEAN /\ \E how \in {"starts", "gone", "none"} : Ended(how) /\ (how \in {"starts", "gone"} \/ stopped')
    BY <1>0, <1>4 DEF Leaves, Restarts, ProcessEnds, UserStops
  <2> QED BY <2>1, <2>2, EndedKeeps
<1>5. CASE StartsAgain
  BY <1>5, StartKeeps
<1>6. ASSUME UNCHANGED <<manager, releases, signed, program, staged, archive, serving, release, checks, jobs, updating, stopped>>,
             ChancesOK', lastCheck' \in 0 .. 4, restart' \in {"none", "waits", "asked", "starts", "gone"},
             ~Serves => restart' \in {restart, "starts"}
      PROVE  UpInv'
  <2>1. UpdTypeOK'
    BY <1>6 DEF UpInv, UpdTypeOK, ChancesOK, Counters
  <2>2. NotLeftDown'
    BY <1>6 DEF UpInv, NotLeftDown, Serves
  <2> QED BY <1>6, <2>1, <2>2 DEF UpInv, SignaturesHold, OneJob, Busy, Stamped, Compared, Ahead, Forgotten, Serves,
                                  Stage, NotYet, Got, Verified, Genuine
<1>7. CASE TimePasses \/ Restart \/ UserStarts
  <2>1. ChancesOK'
    BY <1>0, <1>7, FailsKeeps DEF TimePasses, Restart, UserStarts, ChancesOK
  <2>2. lastCheck \in 0 .. 4 /\ restart \in {"none", "waits", "asked", "starts", "gone"}
    BY DEF UpInv, UpdTypeOK
  <2> QED BY <1>6, <1>7, <2>1, <2>2 DEF TimePasses, Restart, UserStarts, publisherVars, fileVars, memoryVars
<1>8. CASE UNCHANGED updVars
  <2>1. lastCheck \in 0 .. 4 /\ restart \in {"none", "waits", "asked", "starts", "gone"}
    BY DEF UpInv, UpdTypeOK
  <2> QED BY <1>0, <1>6, <1>8, <2>1 DEF updVars, publisherVars, fileVars, memoryVars, ChancesOK
<1> QED BY <1>1, <1>2, <1>3, <1>4, <1>5, <1>7, <1>8 DEF UpdNext

\* The invariant holds throughout.
LEMMA UpInvariance == UpdSpec => []UpInv
BY UpInitially, UpStepKeeps, PTL DEF UpdSpec

\* Every variable has its type, for any versions and bounds.
THEOREM UpdTypeCorrect == UpdSpec => []UpdTypeOK
<1>1. UpInv => UpdTypeOK
  BY DEF UpInv
<1> QED BY <1>1, UpInvariance, PTL

\* Download, installUpdate, checkAPI, checkAtom: for any versions, any number of uploads, checks and
\* updates, crashes and faults at any instant, what the file holds is whole and signed, and
\* nothing that is offered, installed or started is a step back.
THEOREM UpdatesAlwaysGenuine == UpdSpec => []UpdatesAreGenuine
<1>1. UpInv => UpdatesAreGenuine
  <2> SUFFICES ASSUME UpInv PROVE UpdatesAreGenuine
    OBVIOUS
  <2>1. OnlySignedIsInstalled
    BY DEF UpInv, OnlySignedIsInstalled, Stage, Got, Genuine
  <2>2. NeverBack
    BY DEF UpInv, NeverBack, Compared, Ahead, Busy
  <2> QED BY <2>1, <2>2 DEF UpdatesAreGenuine
<1> QED BY <1>1, UpInvariance, PTL

\* installUpdate, svc.Restart: whatever ends the process, the user stopped it, or something starts
\* it again, or the init system has denied that it runs it.
THEOREM NeverLeftDown == UpdSpec => []NotLeftDown
<1>1. UpInv => NotLeftDown
  BY DEF UpInv
<1> QED BY <1>1, UpInvariance, PTL
=============================================================================

------------------------------- MODULE Update -------------------------------
(***************************************************************************)
(* The program updates itself (internal/update/update.go,                  *)
(* internal/uiapi/service.go and install_unix.go, Restart of               *)
(* internal/svc).  Checks read the list of releases; an update downloads   *)
(* the package of the release last found, verifies it against the list of  *)
(* checksums and its signature, takes the program out of it, renames it    *)
(* over the program that runs and has the service restarted.               *)
(*                                                                         *)
(* The publisher uploads the files of a release one after the other, and   *)
(* may build and upload it again: files are numbered by the build they     *)
(* belong to, 0 is a file that is not there.  A rename survives a power    *)
(* failure whole or not at all.                                            *)
(***************************************************************************)
EXTENDS Versions, FiniteSets

CONSTANTS
  FirstVersion, \* what is installed
  UpdVersions,  \* what may be published
  UpdBounds     \* how many uploads, checks, updates, faults and ends of the process

\* What is published has a version; the bounds are counts.
ASSUME UpdConstants ==
  /\ Unparsed \notin UpdVersions \cup {FirstVersion}
  /\ UpdBounds \subseteq [{"uploads", "checks", "updates", "faults", "ends", "unknowns"} -> Nat]

Checkers == {1, 2}
Jobs == {1, 2}
Builds == 0 .. 2
Stamps == 1 .. 4

\* No update is known; the service is down.
NoRelease == [version |-> Unparsed, sums |-> FALSE, sig |-> FALSE]
NoFile == [version |-> Unparsed, build |-> 0, whole |-> FALSE]
File(version, build, whole) == [version |-> version, build |-> build, whole |-> whole]
NoCheck == [pc |-> "idle", manual |-> FALSE, stamp |-> 0, prev |-> 0, found |-> NoRelease]
NoJob == [pc |-> "idle", rel |-> NoRelease, got |-> 0, sums |-> 0]

VARIABLES
  manager,   \* the init system
  releases,  \* what is published, newest first
  signed,    \* every build ever signed
  program,   \* the program's file
  staged,    \* the program's file with .new behind it
  archive,   \* the package in the update directory
  serving,   \* the version that runs
  release,   \* s.update
  lastCheck, \* when the last check was made: 0 is more than a quarter of an hour ago
  checks,    \* those in flight
  jobs,      \* calls of ApplyUpdate
  updating,  \* s.updating
  restart,   \* what will start the service again, and how far it is
  stopped,   \* the user stopped it
  chances    \* what is left of the bounds

publisherVars == <<releases, signed>>
fileVars == <<program, staged, archive>>
memoryVars == <<release, lastCheck, checks, jobs, updating>>
updVars == <<manager, publisherVars, fileVars, serving, memoryVars, restart, stopped, chances>>

Takes(what) == chances[what] > 0 /\ chances' = [chances EXCEPT ![what] = @ - 1]
Fails == Takes("faults")
Serves == serving # Unparsed

(***************************************************************************)
(* The publisher                                                           *)
(***************************************************************************)
Announce ==
  /\ Takes("uploads")
  /\ \E v \in UpdVersions \ {releases[i].version : i \in DOMAIN releases} :
       releases' = <<[version |-> v, package |-> 0, sums |-> 0, sig |-> 0]>> \o releases
  /\ UNCHANGED <<manager, signed, fileVars, serving, memoryVars, restart, stopped>>

\* The package, then the checksums of what was uploaded, then their signature.
Upload ==
  /\ Takes("uploads")
  /\ \E i \in DOMAIN releases :
       LET r == releases[i] IN
       \/ /\ r.package = r.sig /\ r.package + 1 \in Builds
          /\ releases' = [releases EXCEPT ![i].package = @ + 1] /\ UNCHANGED signed
       \/ /\ r.package > r.sums
          /\ releases' = [releases EXCEPT ![i].sums = r.package] /\ UNCHANGED signed
       \/ /\ r.sums > r.sig
          /\ releases' = [releases EXCEPT ![i].sig = r.sums]
          /\ signed' = signed \cup {<<r.version, r.sums>>}
  /\ UNCHANGED <<manager, fileVars, serving, memoryVars, restart, stopped>>

\* The release as it is published now.
Published(v) ==
  LET at == {i \in DOMAIN releases : releases[i].version = v} IN
  IF at = {} THEN [version |-> v, package |-> 0, sums |-> 0, sig |-> 0]
  ELSE releases[CHOOSE i \in at : TRUE]

(***************************************************************************)
(* Checking for an update                                                  *)
(***************************************************************************)
\* The first of the list, not the newest, that is newer than what runs.
FirstOf(passing) ==
  LET fit == {i \in passing : Newer(releases[i].version, serving)} IN
  IF fit = {} THEN NoRelease
  ELSE LET r == releases[CHOOSE i \in fit : \A j \in fit : i <= j] IN
       [version |-> r.version, sums |-> r.sums # 0, sig |-> r.sig # 0]

\* The API names the files there are.
checkAPI == FirstOf({i \in DOMAIN releases : releases[i].package # 0})

\* The feed names none: their addresses are made up, and the package's is asked for (head),
\* an answer that does not come counting as yes.
checkAtom(answered) ==
  LET r == FirstOf({i \in DOMAIN releases : releases[i].package # 0 \/ ~answered})
  IN IF r = NoRelease THEN r ELSE [r EXCEPT !.sums = TRUE, !.sig = TRUE]

FreeStamp == CHOOSE s \in Stamps :
  s # lastCheck /\ \A c \in Checkers : checks[c].pc = "idle" \/ s \notin {checks[c].stamp, checks[c].prev}

\* pokeUpdate: every hour, and when the page asks, unless it did within a quarter of an hour.
PokeUpdate(c) ==
  /\ Serves /\ checks[c].pc = "idle" /\ Takes("checks")
  /\ \E force \in BOOLEAN : force \/ lastCheck = 0
  /\ checks' = [checks EXCEPT ![c] = [NoCheck EXCEPT !.pc = "asks", !.stamp = FreeStamp, !.prev = lastCheck]]
  /\ lastCheck' = FreeStamp
  /\ UNCHANGED <<manager, publisherVars, fileVars, serving, release, jobs, updating, restart, stopped>>

CheckUpdate(c) ==
  /\ Serves /\ checks[c].pc = "idle" /\ Takes("checks")
  /\ checks' = [checks EXCEPT ![c] = [NoCheck EXCEPT !.pc = "asks", !.manual = TRUE]]
  /\ UNCHANGED <<manager, publisherVars, fileVars, serving, release, lastCheck, jobs, updating, restart, stopped>>

\* No tunnel, or the guard is up: the check does not count, if none was begun since.
NotNow(c) ==
  /\ checks[c].pc = "asks" /\ Fails
  /\ checks' = [checks EXCEPT ![c] = NoCheck]
  /\ lastCheck' = IF ~checks[c].manual /\ lastCheck = checks[c].stamp THEN checks[c].prev ELSE lastCheck
  /\ UNCHANGED <<manager, publisherVars, fileVars, serving, release, jobs, updating, restart, stopped>>

\* The feed is asked when the API fails; when both do, nothing is stored.
Check(c) ==
  /\ checks[c].pc = "asks"
  /\ \/ /\ checks' = [checks EXCEPT ![c].pc = "found", ![c].found = checkAPI]
        /\ UNCHANGED chances
     \/ /\ Fails
        /\ \/ \E answered \in BOOLEAN :
                checks' = [checks EXCEPT ![c].pc = "found", ![c].found = checkAtom(answered)]
           \/ checks' = [checks EXCEPT ![c] = NoCheck]
  /\ UNCHANGED <<manager, publisherVars, fileVars, serving, release, lastCheck, jobs, updating, restart, stopped>>

StoreRelease(c) ==
  /\ checks[c].pc = "found"
  /\ release' = checks[c].found
  /\ lastCheck' = IF checks[c].manual THEN FreeStamp ELSE lastCheck
  /\ checks' = [checks EXCEPT ![c] = NoCheck]
  /\ UNCHANGED <<manager, publisherVars, fileVars, serving, jobs, updating, restart, stopped, chances>>

TimePasses ==
  /\ lastCheck # 0 /\ \A c \in Checkers : checks[c].pc = "idle"
  /\ lastCheck' = 0
  /\ UNCHANGED <<manager, publisherVars, fileVars, serving, release, checks, jobs, updating, restart, stopped, chances>>

(***************************************************************************)
(* Downloading it                                                          *)
(***************************************************************************)
\* The call ends: another may begin.
Over(j) == jobs' = [jobs EXCEPT ![j] = NoJob] /\ updating' = FALSE
Goes(j, pc) == jobs' = [jobs EXCEPT ![j].pc = pc] /\ UNCHANGED updating
installVars == <<manager, publisherVars, serving, release, lastCheck, checks, restart, stopped>>

\* mutant: two calls at once
FaultyApplyUpdate(j) ==
  /\ Serves /\ jobs[j].pc = "idle" /\ Takes("updates")
  /\ release # NoRelease
  /\ updating' = TRUE
  /\ jobs' = [jobs EXCEPT ![j] = [NoJob EXCEPT !.pc = "clear", !.rel = release]]
  /\ UNCHANGED <<installVars, fileVars>>

ApplyUpdate(j) ==
  /\ Serves /\ jobs[j].pc = "idle" /\ Takes("updates")
  /\ ~updating /\ release # NoRelease
  /\ updating' = TRUE
  /\ jobs' = [jobs EXCEPT ![j] = [NoJob EXCEPT !.pc = "clear", !.rel = release]]
  /\ UNCHANGED <<installVars, fileVars>>

\* The directory is emptied; a release without a signature is not downloaded.
ClearDir(j) ==
  /\ jobs[j].pc = "clear"
  /\ archive' = NoFile
  /\ IF jobs[j].rel.sig THEN Goes(j, "get") ELSE Over(j)
  /\ UNCHANGED <<installVars, program, staged, chances>>

\* The body may break off, or end before its end as if that were it.
GetPackage(j) ==
  LET v == jobs[j].rel.version
      build == Published(v).package
  IN
  /\ jobs[j].pc = "get"
  /\ \/ /\ build # 0
        /\ archive' = File(v, build, TRUE)
        /\ jobs' = [jobs EXCEPT ![j].pc = "sum", ![j].got = build]
        /\ UNCHANGED <<updating, chances>>
     \/ /\ build # 0 /\ Fails
        /\ archive' = File(v, build, FALSE)
        /\ \/ Over(j)
           \/ Goes(j, "sum")
     \/ /\ \/ build = 0 /\ UNCHANGED chances
           \/ build # 0 /\ Fails
        /\ Over(j) /\ UNCHANGED archive
  /\ UNCHANGED <<installVars, program, staged>>

\* The line of SHA256SUMS that has the package's name.
FetchSum(j) ==
  LET sums == Published(jobs[j].rel.version).sums IN
  /\ jobs[j].pc = "sum"
  /\ \/ /\ jobs[j].rel.sums /\ sums # 0 /\ sums = jobs[j].got
        /\ jobs' = [jobs EXCEPT ![j].pc = "sig", ![j].sums = sums]
        /\ UNCHANGED <<archive, updating, chances>>
     \/ /\ \/ (~jobs[j].rel.sums \/ sums = 0 \/ sums # jobs[j].got) /\ UNCHANGED chances
           \/ Fails
        /\ archive' = NoFile /\ Over(j)
  /\ UNCHANGED <<installVars, program, staged>>

\* The signature has to be that of the checksums just read.
FetchSignature(j) ==
  LET sig == Published(jobs[j].rel.version).sig IN
  /\ jobs[j].pc = "sig"
  /\ \/ sig = jobs[j].sums /\ Goes(j, "extract") /\ UNCHANGED <<archive, chances>>
     \/ /\ \/ sig # jobs[j].sums /\ UNCHANGED chances
           \/ Fails
        /\ archive' = NoFile /\ Over(j)
  /\ UNCHANGED <<installVars, program, staged>>

(***************************************************************************)
(* Installing it                                                           *)
(***************************************************************************)
\* extractBinary reads the package again from the disk; one that is not whole does not unpack.
Extract(j) ==
  /\ jobs[j].pc = "extract"
  /\ \/ archive.whole /\ staged' = archive /\ Goes(j, "swap") /\ UNCHANGED chances
     \/ archive # NoFile /\ Fails /\ staged' = [archive EXCEPT !.whole = FALSE] /\ Over(j)
     \/ ~archive.whole /\ Over(j) /\ UNCHANGED <<staged, chances>>
  /\ UNCHANGED <<installVars, program, archive>>

\* chmod and rename
SwapProgram(j) ==
  /\ jobs[j].pc = "swap"
  /\ \/ staged # NoFile /\ program' = staged /\ staged' = NoFile /\ Goes(j, "clean") /\ UNCHANGED chances
     \/ /\ \/ staged = NoFile /\ UNCHANGED chances
           \/ Fails
        /\ Over(j) /\ UNCHANGED <<program, staged>>
  /\ UNCHANGED <<installVars, archive>>

\* The package goes; a second later the service is to be restarted.
CleanUp(j) ==
  /\ jobs[j].pc = "clean"
  /\ archive' = NoFile /\ Over(j)
  /\ restart' = IF restart = "none" THEN "waits" ELSE restart
  /\ UNCHANGED <<manager, publisherVars, program, staged, serving, release, lastCheck, checks, stopped, chances>>

(***************************************************************************)
(* The service ends and starts again                                       *)
(***************************************************************************)
Ended(how) ==
  /\ serving' = Unparsed /\ restart' = how
  /\ release' = NoRelease /\ lastCheck' = 0 /\ updating' = FALSE
  /\ checks' = [c \in Checkers |-> NoCheck] /\ jobs' = [j \in Jobs |-> NoJob]
  /\ UNCHANGED <<manager, publisherVars, fileVars>>

\* mutant: the process stops the service, which is itself, before it would start it
FaultyRestart ==
  /\ Serves /\ restart = "waits"
  /\ Ended("none") /\ UNCHANGED <<stopped, chances>>

\* svc.Restart hands the restart to the init system, or to a script of its own.
Restart ==
  /\ Serves /\ restart = "waits"
  /\ \/ restart' = "asked" /\ UNCHANGED chances
     \/ Fails /\ restart' = "none"
  /\ UNCHANGED <<manager, publisherVars, fileVars, serving, memoryVars, stopped>>

\* The init system said it does not run the service: the process leaves, with success.  systemd and launchd
\* start again only what failed; procd and the watchdog of Entware start whatever is gone.
Leaves ==
  /\ Serves /\ restart = "waits" /\ Takes("unknowns")
  /\ Ended(IF manager \in {"procd", "entware"} THEN "starts" ELSE "gone") /\ UNCHANGED stopped

Restarts == Serves /\ restart = "asked" /\ Ended("starts") /\ UNCHANGED <<stopped, chances>>

StartsAgain ==
  /\ ~Serves /\ restart = "starts" /\ program.whole
  /\ serving' = program.version /\ restart' = "none" /\ stopped' = FALSE
  /\ UNCHANGED <<manager, publisherVars, fileVars, memoryVars, chances>>

\* A panic, or the power: the supervisor, or the computer, starts it.
ProcessEnds == Serves /\ Takes("ends") /\ Ended("starts") /\ UNCHANGED stopped

UserStops == Serves /\ restart # "asked" /\ Takes("ends") /\ Ended("none") /\ stopped' = TRUE

UserStarts ==
  /\ ~Serves /\ restart \in {"none", "gone"} /\ restart' = "starts"
  /\ UNCHANGED <<manager, publisherVars, fileVars, serving, memoryVars, stopped, chances>>

(***************************************************************************)
(* The specification                                                       *)
(***************************************************************************)
UpdInit ==
  /\ manager \in {"systemd", "procd"}
  /\ \/ releases = <<>> /\ signed = {}
     \/ \E v \in UpdVersions :
          releases = <<[version |-> v, package |-> 1, sums |-> 1, sig |-> 1]>> /\ signed = {<<v, 1>>}
  /\ program = File(FirstVersion, 0, TRUE) /\ staged = NoFile /\ archive = NoFile
  /\ serving = FirstVersion
  /\ release = NoRelease /\ lastCheck = 0
  /\ checks = [c \in Checkers |-> NoCheck] /\ jobs = [j \in Jobs |-> NoJob] /\ updating = FALSE
  /\ restart = "none" /\ stopped = FALSE
  /\ chances \in UpdBounds

Checking(c) == PokeUpdate(c) \/ CheckUpdate(c) \/ NotNow(c) \/ Check(c) \/ StoreRelease(c)
Updating(j) ==
  \/ ApplyUpdate(j) \/ ClearDir(j) \/ GetPackage(j) \/ FetchSum(j) \/ FetchSignature(j)
  \/ Extract(j) \/ SwapProgram(j) \/ CleanUp(j)

UpdNext ==
  \/ Announce \/ Upload \/ TimePasses
  \/ \E c \in Checkers : Checking(c)
  \/ \E j \in Jobs : Updating(j)
  \/ Restart \/ Leaves \/ Restarts \/ StartsAgain \/ ProcessEnds \/ UserStops \/ UserStarts

UpdSpec == UpdInit /\ [][UpdNext]_updVars

(***************************************************************************)
(* Properties                                                              *)
(***************************************************************************)
UpdKnown == UpdVersions \cup {FirstVersion, Unparsed}
ReleaseSet == [version : UpdKnown, sums : BOOLEAN, sig : BOOLEAN]
FileSet == [version : UpdKnown, build : Builds, whole : BOOLEAN]
CheckSet == [pc : {"idle", "asks", "found"}, manual : BOOLEAN, stamp : 0 .. 4, prev : 0 .. 4, found : ReleaseSet]
JobSet == [pc : {"idle", "clear", "get", "sum", "sig", "extract", "swap", "clean"},
           rel : ReleaseSet, got : Builds, sums : Builds]

\* Every variable has its type.
UpdTypeOK ==
  /\ manager \in {"systemd", "launchd", "procd", "entware"}
  /\ releases \in Seq([version : UpdVersions, package : Builds, sums : Builds, sig : Builds])
  /\ signed \subseteq UpdVersions \X Builds
  /\ program \in FileSet /\ staged \in FileSet /\ archive \in FileSet
  /\ serving \in UpdKnown /\ release \in ReleaseSet /\ lastCheck \in 0 .. 4
  /\ checks \in [Checkers -> CheckSet] /\ jobs \in [Jobs -> JobSet] /\ updating \in BOOLEAN
  /\ restart \in {"none", "waits", "asked", "starts", "gone"} /\ stopped \in BOOLEAN
  /\ chances \in [{"uploads", "checks", "updates", "faults", "ends", "unknowns"} -> Nat]

\* Signed, whatever happens to the downloads in between: what a call unpacks is what it verified, another
\* call having neither removed nor replaced it, and the program's file is at every instant a whole one of
\* the first installation or of a build the publisher signed (Download, installUpdate, s.updating).
OnlySignedIsInstalled ==
  /\ program.whole
  /\ program = File(FirstVersion, 0, TRUE) \/ <<program.version, program.build>> \in signed
  /\ \A j \in Jobs :
       /\ jobs[j].pc = "extract" => archive = File(jobs[j].rel.version, jobs[j].got, TRUE)
       /\ jobs[j].pc = "swap" => staged = File(jobs[j].rel.version, jobs[j].got, TRUE)

\* The file is never older than what runs, and neither is what the user is offered or what is being
\* installed: however updates, crashes and restarts follow each other, no start goes back (Newer, checkAPI, checkAtom).
NeverBack ==
  /\ Serves => program.version = serving \/ Newer(program.version, serving)
  /\ release # NoRelease => Newer(release.version, serving)
  /\ \A j \in Jobs : jobs[j].pc # "idle" => Newer(jobs[j].rel.version, serving)

\* Every program that gets to run is genuine and no step back.
UpdatesAreGenuine == OnlySignedIsInstalled /\ NeverBack

\* An update never leaves the service down: when it does not run, the user stopped it, or something is
\* going to start it, or the init system denied that it runs it (installUpdate, svc.Restart; an earlier
\* version stopped itself before it would start itself).
NotLeftDown == Serves \/ stopped \/ restart \in {"starts", "gone"}
=============================================================================

------------------------------ MODULE NicIPv6 ------------------------------
(***************************************************************************)
(* While the user is connected, no adapter may carry a public IPv6 address *)
(* (internal/daemon/daemon.go: syncNICIPv6, reconcileNICIPv6, nicIPv6Loop  *)
(* and their callers; internal/guardfix: the "restore network" tool).      *)
(*                                                                         *)
(* NicScripts has the scripts that change the adapters.  Here are the      *)
(* goroutines of the service that decide to run one, under nicMu, and the  *)
(* other process that runs them without asking the service: one control    *)
(* handler at a time, the connection loop, the watch loop, the boot-time   *)
(* reconciliation, and the tool.                                           *)
(***************************************************************************)
EXTENDS NicScripts

CONSTANTS
    Public,       \* adapters on a network that hands out public addresses
    MaxCalls      \* bound on handler calls and uses of the tool

ASSUME ServiceConstants ==
    /\ Public \subseteq Nic
    /\ Owner = {"service", "fixer"}
    /\ MaxCalls \in Nat

(***************************************************************************)
(* The settings as far as the adapters go: switch IPv6 off, and refuse to  *)
(* connect when that fails (strict); switch it off but connect anyway      *)
(* (loose); leave the adapters alone (leave).                              *)
(***************************************************************************)
Choices == {"strict", "loose", "leave"}
Default == "loose"                      \* settings.Default()
WantNICOff(s) == s # "leave"
Strict(s) == s = "strict"
Relaxes(prev, next) ==                  \* privacyRelaxes
    \/ Strict(prev) /\ ~Strict(next)
    \/ WantNICOff(prev) /\ ~WantNICOff(next)

VARIABLES
    disk, file,                 \* the wish and the settings on disk
    settings, trusted,          \* d.settings, d.settingsOK
    wanted, bootWanted,         \* machine.wanted, d.bootWanted
    closing,                    \* d.shuttingDown
    nicOff, nicDisablePending, nicHold,   \* the daemon's record
    pc, ret,                    \* where each goroutine is, and returns to
    op, prev,                   \* the handler in progress, the old settings
    owed,         \* history: the last alignment failed, was withheld by a stop
                  \* or untrusted settings, or undone by an orphaned script
    disturbed,    \* history: adapters changed since an alignment last looked
    calls         \* what remains of the bound

cfgVars    == <<disk, file, settings, trusted>>
wishVars   == <<wanted, bootWanted, closing>>
recordVars == <<nicOff, nicDisablePending, nicHold>>
callVars   == <<op, prev, calls>>
vars == <<nicVars, cfgVars, wishVars, recordVars, pc, ret, callVars, owed, disturbed>>

Goroutines == {"call", "run", "loop", "boot"}
Alive == pc["boot"] # "dead"
WantConnected == wanted \/ bootWanted
NicIPv6Wanted == WantNICOff(settings) /\ WantConnected
Leakers == {n \in present \cap Public : enabled[n]}
Up == pc["run"] = "up"

NicMuFree == \A g \in Goroutines :
    pc[g] \notin {"disable", "disabling", "restore", "restoring"}

\* the context of the run goroutine: cancelled by Disconnect, by a rebuild
\* (which starts the next one itself) and by Shutdown
Cancelled == ~wanted \/ closing \/ pc["call"] \in {"halt", "launch", "rewind"}

Goto(g, label) == pc' = [pc EXCEPT ![g] = label]
CallSync(g, next) == /\ Goto(g, "sync")
                     /\ ret' = [ret EXCEPT ![g] = next]

\* where g continues when the alignment reports an error: the connection is
\* retried, a rebuild undone, a handler answers with the error
OnError(g) ==
    CASE g = "run" -> "off"
      [] g = "call" /\ ret[g] = "hready" -> "undo"
      [] g = "boot" -> "auto"
      [] OTHER -> "idle"

\* g goes on inside an alignment
Stay(g, label) == Goto(g, label) /\ UNCHANGED <<ret, op, prev>>

\* g goes on to its next label; a handler that goes idle is over
Leave(g, label) ==
    /\ Goto(g, label)
    /\ ret' = [ret EXCEPT ![g] = "idle"]
    /\ IF g = "call" /\ label = "idle"
       THEN op' = "none" /\ prev' = Default
       ELSE UNCHANGED <<op, prev>>

-----------------------------------------------------------------------------
(* syncNICIPv6                                                             *)

SyncEnter(g) ==
    /\ pc[g] = "sync"
    /\ IF closing \/ (~trusted /\ WantConnected)
       THEN Leave(g, ret[g]) /\ owed' = TRUE
       ELSE Stay(g, "queue") /\ UNCHANGED owed
    /\ UNCHANGED <<nicVars, cfgVars, wishVars, recordVars, calls, disturbed>>

\* nicMu.Lock and the decision.  A backup counts as "off" whatever the flag
\* says; what is off is switched off again when that failed the last time or
\* an address is seen; during a rebuild nothing is restored.
SyncLock(g) ==
    LET want == NicIPv6Wanted
        on == nicOff \/ filed
        again == nicDisablePending \/ Leakers # {}
    IN
    /\ pc[g] = "queue" /\ NicMuFree
    /\ nicOff' = on
    /\ \/ /\ closing \/ (on /\ want /\ ~again) \/ (on /\ ~want /\ nicHold) \/ (~on /\ ~want)
          /\ Leave(g, ret[g])
          /\ owed' = closing
       \/ /\ ~closing /\ want /\ (~on \/ again)
          /\ Stay(g, "disable") /\ UNCHANGED owed
       \/ /\ ~closing /\ ~want /\ on /\ ~nicHold
          /\ Stay(g, "restore") /\ UNCHANGED owed
    /\ disturbed' = FALSE
    /\ UNCHANGED <<nicVars, cfgVars, wishVars, nicDisablePending, nicHold, calls>>

\* mutant: a successful retry does not clear the note of the failure
FaultyDisabled(g, failed) ==
    /\ nicOff' = IF failed /\ Leakers # {} THEN filed ELSE TRUE
    /\ nicDisablePending' = (nicDisablePending \/ (failed /\ Leakers # {}))
    /\ owed' = (failed /\ Leakers # {})
    /\ Leave(g, IF owed' THEN OnError(g) ELSE ret[g])

\* DisableNICIPv6 has returned.  What failed matters only while an address is
\* really exposed (nicResult).
Disabled(g, failed) ==
    LET err == failed /\ Leakers # {} IN
    /\ nicOff' = IF err THEN filed ELSE TRUE
    /\ nicDisablePending' = err
    /\ owed' = err
    /\ Leave(g, IF err THEN OnError(g) ELSE ret[g])

\* The script starts, or the mutex is not to be had in time
Disable(g) ==
    /\ pc[g] = "disable"
    /\ \/ /\ StartDisable("service")
          /\ Stay(g, "disabling")
          /\ UNCHANGED <<nicOff, nicDisablePending, owed>>
       \/ /\ ~NicLockFree /\ Fault
          /\ Disabled(g, TRUE)
          /\ UNCHANGED <<Quiet, enabled, files, script>>
    /\ UNCHANGED <<cfgVars, wishVars, nicHold, calls, disturbed>>

DisableEnd(g) ==
    /\ pc[g] = "disabling" /\ Reap("service")
    /\ Disabled(g, script["service"].failed)
    /\ UNCHANGED <<cfgVars, wishVars, nicHold, calls, disturbed>>

\* RestoreNICIPv6 has returned.  Boot does not touch nicDisablePending.
Restored(g, failed) ==
    /\ owed' = failed
    /\ IF failed
       THEN Leave(g, OnError(g)) /\ UNCHANGED <<nicOff, nicDisablePending>>
       ELSE /\ Leave(g, ret[g])
            /\ nicOff' = FALSE
            /\ nicDisablePending' = (g = "boot" /\ nicDisablePending)

Restore(g) ==
    /\ pc[g] = "restore"
    /\ \/ /\ StartRestore("service")
          /\ Stay(g, "restoring")
          /\ UNCHANGED <<nicOff, nicDisablePending, owed>>
       \/ /\ NothingToRestore
          /\ Restored(g, FALSE)
          /\ UNCHANGED nicVars
       \/ /\ ~NothingToRestore /\ ~NicLockFree /\ Fault
          /\ Restored(g, TRUE)
          /\ UNCHANGED <<Quiet, enabled, files, script>>
    /\ UNCHANGED <<cfgVars, wishVars, nicHold, calls, disturbed>>

RestoreEnd(g) ==
    /\ pc[g] = "restoring" /\ Reap("service")
    /\ Restored(g, script["service"].failed)
    /\ UNCHANGED <<cfgVars, wishVars, nicHold, calls, disturbed>>

SyncStep(g) == \/ SyncEnter(g) \/ SyncLock(g) \/ Disable(g) \/ DisableEnd(g)
               \/ Restore(g) \/ RestoreEnd(g)

-----------------------------------------------------------------------------
(* The connection loop: prepare (align, nicReady), start (nicReady), up    *)

\* Only strict settings refuse to connect
NicReady == Strict(settings) /\ NicIPv6Wanted =>
    ~nicDisablePending /\ nicOff /\ Leakers = {}

RunStep ==
    /\ \/ /\ pc["run"] = "off" /\ ~Cancelled
          /\ CallSync("run", "ready") /\ NoFault
       \/ /\ pc["run"] = "ready"
          /\ Goto("run", IF ~Cancelled /\ NicReady THEN "start" ELSE "off")
          /\ NoFault /\ UNCHANGED ret
       \/ /\ pc["run"] = "start"
          /\ Goto("run", IF ~Cancelled /\ NicReady THEN "up" ELSE "off")
          /\ NoFault /\ UNCHANGED ret
       \/ /\ Up /\ Cancelled /\ Goto("run", "off") /\ NoFault /\ UNCHANGED ret
       \/ /\ Up /\ ~Cancelled /\ Fault        \* the core dies
          /\ Goto("run", "off") /\ UNCHANGED ret
    /\ UNCHANGED <<Quiet, enabled, files, script, cfgVars, wishVars, recordVars>>
    /\ UNCHANGED <<callVars, owed, disturbed>>

-----------------------------------------------------------------------------
(* nicIPv6Loop                                                             *)

LoopLook ==
    /\ pc["loop"] = "idle" /\ pc["boot"] \in {"auto", "serve"}
    /\ NicIPv6Wanted /\ Leakers # {}
    /\ Goto("loop", "look")
    /\ UNCHANGED <<nicVars, cfgVars, wishVars, recordVars, ret, callVars, owed, disturbed>>

\* mutant: what was seen before the lock is acted on after it
FaultyLoopLock ==
    /\ pc["loop"] = "look" /\ NicMuFree
    /\ IF closing THEN Goto("loop", "idle") /\ UNCHANGED disturbed
                  ELSE Goto("loop", "disable") /\ disturbed' = FALSE
    /\ UNCHANGED <<nicVars, cfgVars, wishVars, recordVars, ret, callVars, owed>>

\* The wish is read again under nicMu
LoopLock ==
    /\ pc["loop"] = "look" /\ NicMuFree
    /\ IF closing \/ ~NicIPv6Wanted
       THEN Goto("loop", "idle") /\ UNCHANGED disturbed
       ELSE Goto("loop", "disable") /\ disturbed' = FALSE
    /\ UNCHANGED <<nicVars, cfgVars, wishVars, recordVars, ret, callVars, owed>>

LoopStep == LoopLook \/ LoopLock

-----------------------------------------------------------------------------
(* The control handlers                                                    *)

\* A handler begins, called by the user or by the "restore network" tool.
\* What it writes to disk it writes first.
Begin(o, s) ==
    /\ Alive /\ pc["call"] = "idle"
    /\ op' = o
    /\ prev' = IF o = "save" THEN settings ELSE Default
    /\ CASE o = "connect" -> disk' = "yes" /\ UNCHANGED <<file, settings, trusted>>
         [] o = "disconnect" -> disk' = "no" /\ UNCHANGED <<file, settings, trusted>>
         [] o = "save" -> /\ settings' = s /\ file' = s /\ trusted' = TRUE
                          /\ UNCHANGED disk

Call(o, s) ==
    /\ calls > 0 /\ calls' = calls - 1
    /\ Begin(o, s)
    /\ Goto("call", o)
    /\ UNCHANGED <<nicVars, wishVars, recordVars, ret, owed, disturbed>>

Connect ==
    /\ pc["call"] = "connect"
    /\ wanted' = (wanted \/ ~closing)
    /\ CallSync("call", "idle")
    /\ UNCHANGED <<nicVars, cfgVars, bootWanted, closing, recordVars, callVars, owed, disturbed>>

Disconnect ==
    /\ pc["call"] = "disconnect"
    /\ wanted' = FALSE /\ bootWanted' = FALSE
    /\ Goto("call", "halt")
    /\ UNCHANGED <<nicVars, cfgVars, closing, recordVars, ret, callVars, owed, disturbed>>

\* the run goroutine has been waited for
Halt ==
    /\ pc["call"] = "halt" /\ pc["run"] = "off"
    /\ IF op = "disconnect"
       THEN nicHold' = FALSE /\ CallSync("call", "idle")
       ELSE Goto("call", "launch") /\ UNCHANGED <<nicHold, ret>>
    /\ UNCHANGED <<nicVars, cfgVars, wishVars, nicOff, nicDisablePending>>
    /\ UNCHANGED <<callVars, owed, disturbed>>

\* MSetSettings, MSetMode.  While the core runs, a change of these settings
\* rebuilds the data plane, and so may one of the guard's (needsPrivacyRebuild)
Save ==
    /\ pc["call"] = "save"
    /\ \/ /\ Up
          /\ nicHold' = (WantNICOff(prev) /\ wanted)
          /\ CallSync("call", "hready") /\ UNCHANGED <<op, prev>>
       \/ /\ ~Up \/ prev = settings
          /\ UNCHANGED nicHold
          /\ IF prev # settings THEN CallSync("call", "idle") /\ UNCHANGED <<op, prev>>
                                ELSE Leave("call", "idle")
    /\ UNCHANGED <<nicVars, cfgVars, wishVars, nicOff, nicDisablePending>>
    /\ UNCHANGED <<calls, owed, disturbed>>

\* RestartChecked: prepare's nicReady, then the old plane goes; start's
\* nicReady, then the new one is there
Rebuild ==
    /\ \/ /\ pc["call"] = "hready" /\ NicReady
          /\ Goto("call", IF Cancelled THEN "settle" ELSE "halt") /\ NoFault
       \/ /\ pc["call"] = "hready"
          /\ IF NicReady THEN Fault ELSE NoFault
          /\ Goto("call", "undo")
       \/ /\ pc["call"] = "launch" /\ NicReady
          /\ pc' = [pc EXCEPT !["call"] = "settle",
                             !["run"] = IF closing THEN "off" ELSE "up"]
          /\ NoFault
       \/ /\ pc["call"] = "launch"
          /\ IF NicReady THEN Fault ELSE NoFault
          /\ Goto("call", "rewind")
    /\ UNCHANGED <<Quiet, enabled, files, script, cfgVars, wishVars, recordVars>>
    /\ UNCHANGED <<ret, callVars, owed, disturbed>>

\* A tightening is rolled back, before the connection is retried; when that
\* fails as well the handler gives up and only releases the hold
Undo ==
    /\ pc["call"] \in {"undo", "rewind"}
    /\ \/ /\ Relaxes(prev, settings)
          /\ Stay("call", "settle") /\ NoFault
          /\ UNCHANGED <<file, settings, nicHold, owed>>
       \/ /\ ~Relaxes(prev, settings)
          /\ file' = prev /\ settings' = prev
          /\ Stay("call", "settle") /\ NoFault /\ UNCHANGED <<nicHold, owed>>
       \/ /\ ~Relaxes(prev, settings) /\ Fault
          /\ nicHold' = FALSE /\ owed' = TRUE /\ Leave("call", "idle")
          /\ UNCHANGED <<file, settings>>
    /\ UNCHANGED <<Quiet, enabled, files, script, disk, trusted, wishVars>>
    /\ UNCHANGED <<nicOff, nicDisablePending, calls, disturbed>>

\* First release the hold, then align
Settle ==
    /\ pc["call"] = "settle"
    /\ nicHold' = FALSE
    /\ CallSync("call", "idle")
    /\ UNCHANGED <<nicVars, cfgVars, wishVars, nicOff, nicDisablePending>>
    /\ UNCHANGED <<callVars, owed, disturbed>>

HandlerStep == \/ Connect \/ Disconnect \/ Halt \/ Save \/ Rebuild \/ Undo \/ Settle

-----------------------------------------------------------------------------
(* The life of the service                                                 *)

\* mutant: the settings are read from the state file
FaultyBoot ==
    /\ pc["boot"] = "dead"
    /\ pc' = [pc EXCEPT !["boot"] = "recon"]
    /\ NoFault /\ settings' = disk /\ trusted' = TRUE
    /\ bootWanted' = (disk = "yes")
    /\ UNCHANGED <<Quiet, enabled, files, script, disk, file, wanted, closing>>
    /\ UNCHANGED <<recordVars, ret, callVars, owed, disturbed>>

\* New: a settings file that cannot be read is replaced by the defaults
Boot ==
    /\ pc["boot"] = "dead"
    /\ pc' = [pc EXCEPT !["boot"] = "recon"]
    /\ \/ NoFault /\ settings' = file /\ trusted' = TRUE
       \/ Fault /\ settings' = Default /\ trusted' = FALSE
    /\ bootWanted' = (disk = "yes" /\ trusted')
    /\ UNCHANGED <<Quiet, enabled, files, script, disk, file, wanted, closing>>
    /\ UNCHANGED <<recordVars, ret, callVars, owed, disturbed>>

\* reconcileNICIPv6.  A wish that cannot be read is taken as "no", unless the
\* settings are strict or the guard is still there: `guard' stands for it.
Reconcile(guard) ==
    LET want == disk = "yes" /\ WantNICOff(settings)
        stay == ~trusted \/ (disk = "unknown" /\ (Strict(settings) \/ guard))
    IN
    /\ pc["boot"] = "recon" /\ NicMuFree
    /\ nicOff' = filed
    /\ disturbed' = FALSE
    /\ ret' = [ret EXCEPT !["boot"] = "auto"]
    /\ \/ /\ stay \/ want = (filed /\ (want => Leakers = {}))
          /\ Goto("boot", "auto") /\ owed' = stay
       \/ /\ ~stay /\ want /\ (~filed \/ Leakers # {})
          /\ Goto("boot", "disable") /\ UNCHANGED owed
       \/ /\ ~stay /\ ~want /\ filed
          /\ Goto("boot", "restore") /\ UNCHANGED owed
    /\ UNCHANGED <<nicVars, cfgVars, wishVars, nicDisablePending, nicHold, callVars>>

\* connOpMu, then the wish is read once more
AutoConnect ==
    /\ pc["boot"] = "auto"
    /\ op \notin {"connect", "disconnect"}
    /\ wanted' = (wanted \/ (disk = "yes" /\ trusted))
    /\ bootWanted' = FALSE
    /\ Goto("boot", "serve")
    /\ UNCHANGED <<nicVars, cfgVars, closing, recordVars, ret, callVars, owed, disturbed>>

\* The service is told to stop: nothing more is aligned
Stop ==
    /\ pc["boot"] = "serve" /\ ~closing /\ Fault
    /\ closing' = TRUE
    /\ UNCHANGED <<Quiet, enabled, files, script, cfgVars, wanted, bootWanted>>
    /\ UNCHANGED <<recordVars, pc, ret, callVars, owed, disturbed>>

\* Whatever the process kept in memory is gone
Forget ==
    /\ wanted' = FALSE /\ bootWanted' = FALSE /\ closing' = FALSE
    /\ nicOff' = FALSE /\ nicDisablePending' = FALSE /\ nicHold' = FALSE
    /\ ret' = [g \in Goroutines |-> "idle"]
    /\ op' = "none" /\ prev' = Default
    /\ settings' = Default /\ trusted' = FALSE
    /\ owed' = TRUE /\ disturbed' = TRUE
    /\ UNCHANGED <<file, calls>>

Dead == [g \in {"call", "run", "loop", "boot", "fixer"} |->
            CASE g = "boot" -> "dead"
              [] g = "run" -> "off"
              [] g = "fixer" -> pc["fixer"]
              [] OTHER -> "idle"]

\* The process ends; the script it was running goes on without it
Die ==
    /\ pc' = Dead /\ Forget
    /\ Dies("service")

Exit == /\ closing /\ pc["run"] = "off"
        /\ Die /\ NoFault /\ UNCHANGED disk

Kill == /\ Alive /\ Fault
        /\ Die /\ UNCHANGED disk

\* The power fails; the state file may be found unreadable afterwards
Blackout ==
    /\ PowerLoss
    /\ pc' = [Dead EXCEPT !["fixer"] = "idle"] /\ Forget
    /\ disk' \in {disk, "unknown"}

BootStep == Boot \/ (\E guard \in BOOLEAN : Reconcile(guard)) \/ AutoConnect \/ Exit

-----------------------------------------------------------------------------
(* "Restore network" (guardfix.Clear), in a process of its own             *)

Fix(label) == /\ Goto("fixer", label)
              /\ UNCHANGED <<cfgVars, wishVars, recordVars, ret, callVars, owed>>

\* Is the guard there?  If it is not, the switches and the connection are
\* left alone, and without a backup there is nothing to be done.
FixStart(guard) ==
    /\ pc["fixer"] = "idle"
    /\ calls > 0 /\ calls' = calls - 1
    /\ Goto("fixer", CASE guard -> "switch"
                       [] ~guard /\ filed -> "fix"
                       [] OTHER -> "nothing")
    /\ UNCHANGED <<nicVars, cfgVars, wishVars, recordVars, ret, op, prev, owed, disturbed>>

\* Otherwise the service is asked to save settings without the two switches
\* and to disconnect; nothing waits for the answer beyond a few seconds.
\* Without a service the settings file is rewritten.
FixAsk ==
    /\ \/ /\ pc["fixer"] = "switch" /\ WantNICOff(settings)
          /\ Begin("save", "leave")
          /\ pc' = [pc EXCEPT !["fixer"] = "hangup", !["call"] = "save"]
       \/ /\ pc["fixer"] = "switch" /\ ~Alive
          /\ file' = "leave"
          /\ Goto("fixer", "hangup")
          /\ UNCHANGED <<disk, settings, trusted, op, prev>>
       \/ /\ pc["fixer"] = "hangup"
          /\ Begin("disconnect", settings)
          /\ pc' = [pc EXCEPT !["fixer"] = "fix", !["call"] = "disconnect"]
       \/ /\ pc["fixer"] \in {"switch", "hangup"}
          /\ Goto("fixer", IF pc["fixer"] = "switch" THEN "hangup" ELSE "fix")
          /\ UNCHANGED <<cfgVars, op, prev>>
    /\ UNCHANGED <<nicVars, wishVars, recordVars, ret, calls, owed, disturbed>>

FixRestore ==
    /\ \/ /\ pc["fixer"] = "fix" /\ StartRestore("fixer") /\ Fix("fixing")
       \/ /\ pc["fixer"] = "fix" /\ NothingToRestore
          /\ Fix("idle") /\ UNCHANGED nicVars
       \/ /\ pc["fixer"] = "fix" /\ ~NothingToRestore /\ ~NicLockFree /\ Fault
          /\ Fix("idle") /\ UNCHANGED <<Quiet, enabled, files, script>>
       \/ /\ pc["fixer"] = "fixing" /\ Reap("fixer") /\ Fix("idle")
    /\ disturbed' = TRUE

FixAnswer ==
    /\ pc["fixer"] = "nothing"
    /\ Fix("idle")
    /\ UNCHANGED <<nicVars, disturbed>>

FixStep == FixAsk \/ FixRestore \/ FixAnswer

-----------------------------------------------------------------------------
Init ==
    /\ NicInit
    /\ disk \in {"yes", "no"} /\ file \in Choices
    /\ settings = Default /\ trusted = FALSE
    /\ wanted = FALSE /\ bootWanted = FALSE /\ closing = FALSE
    /\ nicOff = FALSE /\ nicDisablePending = FALSE /\ nicHold = FALSE
    /\ pc = [g \in Goroutines \cup {"fixer"} |->
                CASE g = "boot" -> "dead" [] g = "run" -> "off" [] OTHER -> "idle"]
    /\ ret = [g \in Goroutines |-> "idle"]
    /\ op = "none" /\ prev = Default
    /\ owed = TRUE /\ disturbed = TRUE
    /\ calls = MaxCalls

\* Everything outside the service and its scripts
daemonVars == <<cfgVars, wishVars, recordVars, pc, ret, callVars>>

Scripting(o) ==
    /\ ScriptStep(o)
    /\ disturbed' = (disturbed \/ o = "fixer")
    /\ owed' = (owed \/ o \in Orphan)
    /\ UNCHANGED daemonVars

Adapters == /\ \E n \in Nic : Plug(n) \/ Damage(n)
            /\ disturbed' = TRUE
            /\ UNCHANGED <<daemonVars, owed>>

Progress(g) ==
    \/ g \in Goroutines /\ SyncStep(g)
    \/ g = "run" /\ RunStep
    \/ g = "loop" /\ LoopStep
    \/ g = "call" /\ HandlerStep
    \/ g = "boot" /\ BootStep
    \/ g = "fixer" /\ FixStep

Actors == Goroutines \cup {"fixer"}

Next ==
    \/ \E g \in Actors : Progress(g)
    \/ \E o \in {"connect", "disconnect"} : Call(o, settings)
    \/ \E s \in Choices : Call("save", s)
    \/ \E guard \in BOOLEAN : FixStart(guard)
    \/ \E o \in Slots : Scripting(o)
    \/ Stop \/ Kill \/ Blackout \/ Adapters

Spec == Init /\ [][Next]_vars

\* Goroutines that can run do run, handlers and the tool go on once called,
\* scripts come to an end, and a dead service is started again.
Fairness == /\ \A g \in Actors : WF_vars(Progress(g))
            /\ \A o \in Slots : WF_vars(Scripting(o))
FairSpec == Spec /\ Fairness

-----------------------------------------------------------------------------
(* Properties                                                              *)

\* Every variable stays in its domain.
TypeOK ==
    /\ NicTypeOK
    /\ disk \in {"yes", "no", "unknown"}
    /\ {file, settings, prev} \subseteq Choices
    /\ {trusted, wanted, bootWanted, closing, owed, disturbed} \subseteq BOOLEAN
    /\ {nicOff, nicDisablePending, nicHold} \subseteq BOOLEAN
    /\ op \in {"none", "connect", "disconnect", "save"}
    /\ DOMAIN pc = Actors /\ DOMAIN ret = Goroutines
    /\ calls \in 0 .. MaxCalls

\* No handler is in progress, nobody is in an alignment, no script is at work.
Settled == /\ pc["boot"] = "serve" /\ ~closing /\ pc["call"] = "idle" /\ pc["fixer"] = "idle"
           /\ pc["loop"] # "queue" /\ NicMuFree
           /\ pc["run"] \notin {"sync", "queue"}
           /\ pc["run"] = "off" => Cancelled
           /\ \A o \in Slots : ~Running(o)

\* When everybody has finished, the adapters are as the settings and the wish
\* demand.  Connected: no adapter that is plugged in shows a public address,
\* unless it came after the last look.  Disconnected: there is no backup left
\* and every adapter that is plugged in is as the user had it, except those on
\* the waiting list and those whose row was unreadable.  Excused after an
\* alignment that failed, that a stop or untrusted settings withheld, or that
\* an orphaned script undid.
NicMatches ==
    Settled /\ ~owed /\ ~overlap =>
        IF NicIPv6Wanted
        THEN ~disturbed => Leakers = {}
        ELSE /\ ~filed \/ disturbed
             /\ \A n \in present \ (waiting \cup Struck) : enabled[n] = orig[n]

\* A user who stays connected with the switch on ends up with no public
\* address on any adapter, whatever was plugged in, failed, restored by the
\* tool or crashed before (nicIPv6Loop).
StaysDark ==
    <>[](trusted /\ wanted /\ WantNICOff(settings) /\ pc["boot"] = "serve") =>
        <>[](Leakers = {})

\* ... and under strict settings the refusal to connect is never for good:
\* what nicReady waits for comes true (a transient failure once left the user
\* unable to connect "with no way to heal itself", nicReady).
ConnectsInTheEnd ==
    <>[](trusted /\ wanted /\ pc["boot"] = "serve") => <>[]Up

\* Together: a user who stays connected is connected in the end, and unseen.
ConnectionSettles == StaysDark /\ ConnectsInTheEnd

\* When the tool answers without restoring anything, no adapter that is plugged
\* in is still waiting to be switched on again: the tool does that, says the
\* message shown when the adapter was missed (guardfix.Clear, nicPending).
NobodyLeftWaiting ==
    pc["fixer"] = "nothing" => waiting \cap present = {}
=============================================================================

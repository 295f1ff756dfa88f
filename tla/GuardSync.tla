----------------------------- MODULE GuardSync -----------------------------
(***************************************************************************)
(* The leak guard: the packet filter that keeps traffic inside the tunnel  *)
(* (internal/daemon/refresh.go) and the goroutines that move it.           *)
(*                                                                         *)
(* The filter outlives the process.  Its state must follow two things the  *)
(* user decides, the settings and the wish to be connected, while control  *)
(* handlers, the connection loop, a watchdog and the boot-time             *)
(* reconciliation all act on it.  syncGuard is the only writer that holds  *)
(* guardMu; guardReady, guardTunUp and reconcileGuard write the record     *)
(* outside it, and the model keeps them outside it.                        *)
(*                                                                         *)
(* The connection machine is reduced here to what the guard can see of it: *)
(* `wanted', the run goroutine and the lock opMu.  ConnMachine has the     *)
(* rest.  Locks are not variables: who holds one is a fact about the       *)
(* program counters.                                                       *)
(***************************************************************************)
EXTENDS Naturals, FiniteSets

CONSTANTS
    Handlers,     \* control-channel goroutines that may be in a handler
    Ops,          \* the handlers that may be called
    Tampering,    \* another program may flush the packet filter
    DiskFails,    \* writing the settings file back may fail
    EarlyCalls,   \* handlers may run before the boot sequence has ended
    MaxCalls,     \* bound on the calls of handlers
    MaxFaults     \* bound on failures, flushed filters, stops and crashes

AllOps == {"connect", "disconnect", "remove", "save", "refresh"}

ASSUME GuardConstants ==
    /\ Ops \subseteq AllOps
    /\ {Tampering, DiskFails, EarlyCalls} \subseteq BOOLEAN
    /\ {MaxCalls, MaxFaults} \subseteq Nat
    /\ Handlers \cap {"run", "watch", "boot"} = {}

(***************************************************************************)
(* The settings as far as the guard reads them: global mode with the guard *)
(* switched on (strict), rule mode with it on (rule), or no guard (off).   *)
(***************************************************************************)
Choices == {"strict", "rule", "off"}
Default == "rule"                       \* settings.Default()
Sealed(s) == s = "strict"
GuardOn(s) == s # "off"
GuardSpec(s) == IF s = "rule" THEN "rule" ELSE "global"

\* privacyRelaxes: the change loosens the protection
Relaxes(prev, next) ==
    \/ Sealed(prev) /\ ~Sealed(next)
    \/ GuardOn(prev) /\ ~GuardOn(next)

VARIABLES
    disk,         \* the wish in the state file, "unknown" when unreadable
    file,         \* the settings file, "bad" when unreadable
    settings, trusted,          \* d.settings, d.settingsOK
    wanted, bootWanted,         \* machine.wanted, d.bootWanted
    closed,                     \* d.shuttingDown
    cancelled,                  \* the run goroutine's context is cancelled
    plane,                      \* the data plane: "down", "sealed", "plain"
    fw,                         \* the packet filter as it really is
    guardOn, guardApplied, guardHold,   \* the daemon's record
    pc, loc,                    \* where each goroutine is, its local state
    owed,         \* history: the last alignment failed, was withheld or left
                  \* out, or was misled by the record
    asked,        \* history: the wish the machine last carried out
    late,         \* history: wish, settings or an unaligned hold changed since
                  \* guardMu was taken
    early,        \* history: a handler was called before the boot sequence had
                  \* ended (or after the service began to stop)
    undone,       \* history: a removal wrote settings back over newer ones
    left          \* what remains of the bounds

cfgVars   == <<disk, file, settings, trusted, early, undone>>
wishVars  == <<wanted, bootWanted, closed, asked>>
runVars   == <<cancelled, plane, late>>
guardVars == <<fw, guardOn, guardApplied, guardHold, owed>>
vars == <<cfgVars, wishVars, runVars, guardVars, pc, loc, left>>

Goroutines == Handlers \cup {"run", "watch", "boot"}
HoldLabels == {"decide", "install", "record", "clear", "cleared"}  \* in guardMu
SyncLabels == {"sync", "queue"} \cup HoldLabels                     \* in syncGuard
CoreLabels == {"halt", "launch", "tunup", "started", "undo"}       \* in opMu
Labels == SyncLabels \cup CoreLabels \cup
          {"idle", "connect", "disconnect", "unhold", "remove", "forget", "save",
           "choose", "hold", "rollback", "settle", "abandon", "swap",
           "prep", "ready", "readygone", "built",
           "off", "loop", "start", "up", "check", "checkgone",
           "dead", "reconcile", "auto", "serve", "closing"}
Locals == [op: AllOps \cup {"none"}, ret: {"none", "idle", "ready", "up"},
           prev: Choices, new: Choices, cfg: Choices \cup {"none", "stale"},
           act: {"none", "want", "leave", "global", "rule"}]
NoLocal == [op |-> "none", ret |-> "none", prev |-> Default, new |-> Default,
            cfg |-> "none", act |-> "none"]

Alive == pc["boot"] # "dead"
Serving == IF EarlyCalls THEN Alive ELSE pc["boot"] = "serve"

WantConnected == wanted \/ bootWanted
GuardWanted == GuardOn(settings) /\ WantConnected

\* The four mutexes.  boot runs reconcileGuard without guardMu.
GuardMuFree == \A g \in Goroutines \ {"boot"} : pc[g] \notin HoldLabels
ConnOpFree == \A h \in Handlers : loc[h].op \notin {"connect", "disconnect"}
SettingsOpFree == \A h \in Handlers : loc[h].op # "save"
OpMuFree == /\ \A h \in Handlers : pc[h] \notin CoreLabels
            /\ pc["boot"] # "halt"
\* An alignment that judged before the last change settles no debt.
StillOwed == late /\ owed
MachineClosed == pc["boot"] \in {"halt", "dead"}

Goto(g, label) == pc' = [pc EXCEPT ![g] = label]

\* g's handler has answered: nothing of it is left
Finish(g) == /\ Goto(g, "idle")
             /\ loc' = [loc EXCEPT ![g] = NoLocal]

\* call syncGuard, to continue at ret
CallSync(g, ret) == /\ Goto(g, "sync")
                    /\ loc' = [loc EXCEPT ![g].ret = ret]

\* syncGuard, or boot's reconciliation, returns to its caller
Return(g) ==
    IF g = "boot" THEN /\ Goto(g, "auto")
                       /\ loc' = [loc EXCEPT ![g] = NoLocal]
    ELSE IF loc[g].ret = "idle" THEN Finish(g)
    ELSE /\ Goto(g, loc[g].ret)
         /\ loc' = [loc EXCEPT ![g].ret = "none", ![g].act = "none"]

Fault == /\ left.faults > 0        \* something fails, once less
         /\ left' = [left EXCEPT !.faults = @ - 1]
NoFault == UNCHANGED left

-----------------------------------------------------------------------------
(* syncGuard, applyGuard, setGuard                                         *)

\* Entry: nothing moves during shutdown, nor when the settings in hand are
\* a guess and the user still wants to be connected.
SyncEnter(g) ==
    /\ pc[g] = "sync"
    /\ IF closed \/ (~trusted /\ WantConnected)
       THEN Return(g) /\ owed' = TRUE
       ELSE Goto(g, "queue") /\ UNCHANGED <<loc, owed>>
    /\ UNCHANGED <<cfgVars, wishVars, runVars, left>>
    /\ UNCHANGED <<fw, guardOn, guardApplied, guardHold>>

\* guardMu.Lock, then want is read once for the whole alignment
SyncLock(g) ==
    /\ pc[g] = "queue"
    /\ GuardMuFree
    /\ Goto(g, "decide")
    /\ loc' = [loc EXCEPT ![g].act = IF GuardWanted THEN "want" ELSE "leave"]
    /\ late' = FALSE
    /\ UNCHANGED <<cfgVars, wishVars, cancelled, plane, guardVars, left>>

\* The second shutdown check and the four cases
SyncDecide(g) ==
    LET want == loc[g].act = "want"
        stale == guardApplied # GuardSpec(settings)
        keep == closed \/ (guardHold /\ guardOn /\ ~stale) \/ (~want /\ ~guardOn)
    IN
    /\ pc[g] = "decide"
    /\ \/ /\ keep
          /\ Return(g) /\ NoFault
          /\ owed' = IF closed THEN owed
                     ELSE (~want /\ ~guardOn /\ fw # "none") \/ StillOwed
       \/ /\ ~closed /\ guardHold /\ guardOn /\ stale
          /\ Goto(g, "install") /\ NoFault /\ UNCHANGED <<loc, owed>>
       \/ /\ ~closed /\ ~(guardHold /\ guardOn) /\ want /\ ~guardOn
          /\ Goto(g, "install") /\ NoFault /\ UNCHANGED <<loc, owed>>
       \/ /\ ~closed /\ ~guardHold /\ want /\ guardOn
          /\ IF fw = "none" \/ stale
             THEN Goto(g, "install") /\ UNCHANGED <<loc, owed>>
             ELSE Return(g) /\ owed' = StillOwed
          /\ NoFault
       \/ /\ ~closed /\ ~guardHold /\ want /\ guardOn     \* GuardStatus fails
          /\ Fault /\ Return(g) /\ owed' = TRUE
       \/ /\ ~closed /\ ~guardHold /\ ~want /\ guardOn
          /\ Goto(g, "clear") /\ NoFault /\ UNCHANGED <<loc, owed>>
    /\ UNCHANGED <<cfgVars, wishVars, runVars>>
    /\ UNCHANGED <<fw, guardOn, guardApplied, guardHold>>

\* applyGuard: one filter transaction.  A failure leaves the old filter and
\* the old record in place and notes the error.
Install(g) ==
    /\ pc[g] = "install"
    /\ \/ /\ fw' = GuardSpec(settings)
          /\ Goto(g, "record")
          /\ loc' = [loc EXCEPT ![g].act = GuardSpec(settings)]
          /\ NoFault /\ owed' = StillOwed
       \/ /\ Fault /\ Return(g)
          /\ owed' = TRUE /\ UNCHANGED fw
    /\ UNCHANGED <<cfgVars, wishVars, runVars, guardOn, guardApplied, guardHold>>

Record(g) ==
    /\ pc[g] = "record"
    /\ guardApplied' = loc[g].act
    /\ guardOn' = TRUE
    /\ Return(g)
    /\ UNCHANGED <<cfgVars, wishVars, runVars, fw, guardHold, owed, left>>

\* netmode.ClearGuard.  A failure is recorded as "still on".
Clear(g) ==
    /\ pc[g] = "clear"
    /\ \/ /\ fw' = "none"
          /\ Goto(g, "cleared")
          /\ NoFault /\ owed' = StillOwed /\ UNCHANGED <<loc, guardOn>>
       \/ /\ Fault /\ Return(g)
          /\ guardOn' = TRUE /\ owed' = TRUE
          /\ UNCHANGED fw
    /\ UNCHANGED <<cfgVars, wishVars, runVars, guardApplied, guardHold>>

Cleared(g) ==
    /\ pc[g] = "cleared"
    /\ guardOn' = FALSE
    /\ Return(g)
    /\ UNCHANGED <<cfgVars, wishVars, runVars, fw, guardApplied, guardHold, owed, left>>

SyncStep(g) == \/ SyncEnter(g) \/ SyncLock(g) \/ SyncDecide(g)
               \/ Install(g) \/ Record(g) \/ Clear(g) \/ Cleared(g)

-----------------------------------------------------------------------------
(* guardReady: called by prepare (result only logged) and by health (a     *)
(* failure calls syncGuard).  It holds no lock.                            *)

\* mutant: health reports the guard missing and leaves it at that
FaultyAfterReady(g, good) ==
    /\ Goto(g, IF pc[g] \in {"ready", "readygone"} THEN "built" ELSE "up")
    /\ UNCHANGED loc

AfterReady(g, good) ==
    IF pc[g] \in {"ready", "readygone"} THEN Goto(g, "built") /\ UNCHANGED loc
    ELSE IF good THEN Goto(g, "up") /\ UNCHANGED loc
    ELSE CallSync(g, "up")

GuardReady(g) ==
    LET checked == GuardOn(settings) /\ wanted
        inStep == guardOn /\ guardApplied = GuardSpec(settings)
    IN
    /\ pc[g] \in {"ready", "check"}
    /\ \/ /\ ~checked \/ (inStep /\ fw # "none")
          /\ AfterReady(g, TRUE) /\ NoFault
       \/ /\ checked /\ ~inStep
          /\ AfterReady(g, FALSE) /\ NoFault
       \/ /\ checked /\ inStep /\ fw = "none"
          /\ Goto(g, IF pc[g] = "ready" THEN "readygone" ELSE "checkgone")
          /\ NoFault /\ UNCHANGED loc
       \/ /\ checked                          \* the status cannot be read
          /\ Fault /\ AfterReady(g, FALSE)
    /\ UNCHANGED <<cfgVars, wishVars, runVars, guardVars>>

\* it saw no filter: setGuard(false, ...)
GuardGone(g) ==
    /\ pc[g] \in {"readygone", "checkgone"}
    /\ guardOn' = FALSE
    /\ AfterReady(g, FALSE)
    /\ UNCHANGED <<cfgVars, wishVars, runVars, left>>
    /\ UNCHANGED <<fw, guardApplied, guardHold, owed>>

\* guardTunUp at the end of start: the record was read as on
TunUp(g) ==
    /\ pc[g] = "tunup"
    /\ guardOn' = TRUE
    /\ Goto(g, IF g = "run" THEN "up" ELSE "started")
    /\ UNCHANGED <<cfgVars, wishVars, runVars, loc, left>>
    /\ UNCHANGED <<fw, guardApplied, guardHold, owed>>

-----------------------------------------------------------------------------
(* prepare, shared by the run goroutine, a refresh and a settings change   *)

Prepare(g) ==
    /\ pc[g] = "prep"
    /\ Goto(g, "sync")
    /\ loc' = [loc EXCEPT ![g].cfg = settings, ![g].ret = "ready"]
    /\ UNCHANGED <<cfgVars, wishVars, runVars, guardVars, left>>

PlaneFor(cfg) == IF Sealed(cfg) THEN "sealed" ELSE "plain"

\* The settings are replaced: a configuration built before is stale.
Publish(s, locals) ==
    /\ settings' = s /\ file' = s /\ trusted' = TRUE /\ late' = ~GuardMuFree
    /\ loc' = [g \in Goroutines |->
                  IF locals[g].cfg # "none"
                  THEN [locals[g] EXCEPT !.cfg = "stale"] ELSE locals[g]]

\* machine.connect with opMu held; pre is the configuration handed over
Launch(pre, pcs, locals) ==
    IF MachineClosed
    THEN pc' = pcs /\ loc' = locals /\ UNCHANGED <<wanted, asked, cancelled, late>>
    ELSE /\ wanted' = TRUE /\ asked' = TRUE /\ late' = ~GuardMuFree
         /\ IF pcs["run"] = "off"
            THEN /\ pc' = [pcs EXCEPT !["run"] = "loop"]
                 /\ loc' = [locals EXCEPT !["run"] = [NoLocal EXCEPT !.cfg = pre]]
                 /\ cancelled' = FALSE
            ELSE pc' = pcs /\ loc' = locals /\ UNCHANGED cancelled

-----------------------------------------------------------------------------
(* The run goroutine                                                       *)

RunLoop ==
    /\ pc["run"] = "loop"
    /\ Goto("run", IF cancelled THEN "off"
                ELSE IF loc["run"].cfg = "none" THEN "prep" ELSE "start")
    /\ UNCHANGED <<cfgVars, wishVars, runVars, guardVars, loc, left>>

RunBuilt ==
    /\ pc["run"] = "built"
    /\ \/ cancelled /\ Goto("run", "off") /\ NoFault /\ UNCHANGED loc
       \/ /\ ~cancelled /\ loc["run"].cfg # "stale"
          /\ Goto("run", "start") /\ NoFault /\ UNCHANGED loc
       \/ /\ ~cancelled
          /\ IF loc["run"].cfg = "stale" THEN NoFault ELSE Fault
          /\ Goto("run", "loop")
          /\ loc' = [loc EXCEPT !["run"] = NoLocal]
    /\ UNCHANGED <<cfgVars, wishVars, runVars, guardVars>>

RunStart ==
    /\ pc["run"] = "start"
    /\ loc' = [loc EXCEPT !["run"] = NoLocal]
    /\ \/ /\ loc["run"].cfg # "stale"
          /\ plane' = PlaneFor(loc["run"].cfg)
          /\ Goto("run", IF guardOn THEN "tunup" ELSE "up") /\ NoFault
       \/ /\ IF loc["run"].cfg = "stale" THEN NoFault ELSE Fault
          /\ plane' = "down"
          /\ Goto("run", "loop")
    /\ UNCHANGED <<cfgVars, wishVars, cancelled, late, guardVars>>

\* watch: a health check is due, the context ends, or the core is dead
RunUp ==
    /\ pc["run"] = "up"
    /\ \/ ~cancelled /\ Goto("run", "check") /\ NoFault /\ UNCHANGED plane
       \/ cancelled /\ Goto("run", "off") /\ NoFault /\ UNCHANGED plane
       \/ ~cancelled /\ Fault /\ plane' = "down" /\ Goto("run", "loop")
    /\ UNCHANGED <<cfgVars, wishVars, cancelled, late, guardVars, loc>>

RunStep == RunLoop \/ RunBuilt \/ RunStart \/ RunUp

\* guardWatchLoop
Watch ==
    /\ pc["watch"] = "idle"
    /\ guardOn /\ GuardWanted /\ fw = "none"
    /\ CallSync("watch", "idle")
    /\ UNCHANGED <<cfgVars, wishVars, runVars, guardVars, left>>

-----------------------------------------------------------------------------
(* The control handlers                                                    *)

Call(h, op) ==
    /\ Serving /\ op \in Ops
    /\ pc[h] = "idle" /\ left.calls > 0
    /\ left' = [left EXCEPT !.calls = @ - 1]
    /\ loc' = [loc EXCEPT ![h].op = op,
                 ![h].prev = IF op \in {"save", "remove"} THEN settings ELSE Default]
    /\ early' = (early \/ pc["boot"] # "serve")
    /\ UNCHANGED <<wishVars, runVars, guardVars, file, settings, trusted, undone>>
    /\ \/ /\ op = "connect" /\ ConnOpFree         \* savePersisted(true)
          /\ disk' = "yes" /\ Goto(h, "connect")
       \/ /\ op = "disconnect" /\ ConnOpFree      \* savePersisted(false)
          /\ disk' = "no" /\ Goto(h, "disconnect")
       \/ /\ op = "remove"                        \* getSettings
          /\ Goto(h, "remove") /\ UNCHANGED disk
       \/ /\ op = "save" /\ SettingsOpFree        \* getSettings
          /\ Goto(h, "save") /\ UNCHANGED disk
       \/ /\ op = "refresh" /\ plane # "down" /\ wanted   \* machine.Restart
          /\ Goto(h, "prep") /\ UNCHANGED disk

\* MConnect: machine.Connect, then syncGuard
Connect(h) ==
    /\ pc[h] = "connect" /\ OpMuFree
    /\ Launch("none", [pc EXCEPT ![h] = "sync"], [loc EXCEPT ![h].ret = "idle"])
    /\ UNCHANGED <<cfgVars, bootWanted, closed, plane, guardVars, left>>

\* MRemoveProfile of the last profile: the settings read at the start are
\* written back with one profile less, then the wish is cleared on disk.
RemoveWrite(h) ==
    /\ pc[h] = "remove"
    /\ Publish(loc[h].prev, loc)
    /\ undone' = (undone \/ settings # loc[h].prev)
    /\ Goto(h, "forget")
    /\ UNCHANGED <<disk, early, wishVars, cancelled, plane, guardVars, left>>

RemoveForget(h) ==
    /\ pc[h] = "forget"
    /\ disk' = "no"
    /\ Goto(h, "disconnect")
    /\ UNCHANGED <<file, settings, trusted, early, undone>>
    /\ UNCHANGED <<wishVars, runVars, guardVars, loc, left>>

\* MDisconnect and MRemoveProfile: machine.Disconnect clears the wish first
\* and then waits for the run goroutine.
Disconnect(h) ==
    /\ pc[h] = "disconnect" /\ OpMuFree
    /\ bootWanted' = FALSE /\ wanted' = FALSE /\ asked' = FALSE
    /\ cancelled' = TRUE /\ late' = ~GuardMuFree
    /\ Goto(h, "halt")
    /\ UNCHANGED <<cfgVars, closed, plane, guardVars, loc, left>>

Unhold(h) ==
    /\ pc[h] = "unhold"
    /\ guardHold' = FALSE
    /\ CallSync(h, "idle")
    /\ UNCHANGED <<cfgVars, wishVars, runVars, left>>
    /\ UNCHANGED <<fw, guardOn, guardApplied, owed>>

\* stopLoop has waited for the run goroutine and stops the core
Halt(h) ==
    /\ pc[h] = "halt" /\ pc["run"] = "off"
    /\ plane' = "down"
    /\ CASE loc[h].op = "disconnect" ->
                /\ Goto(h, "unhold")
                /\ UNCHANGED <<loc, wanted, asked, cancelled, late>>
         [] loc[h].op = "remove" ->
                /\ CallSync(h, "idle")
                /\ UNCHANGED <<wanted, asked, cancelled, late>>
         [] loc[h].op = "refresh" ->
                Launch(loc[h].cfg, [pc EXCEPT ![h] = "idle"],
                       [loc EXCEPT ![h] = NoLocal])
         [] loc[h].op = "save" ->
                /\ Goto(h, "launch")
                /\ UNCHANGED <<loc, wanted, asked, cancelled, late>>
    /\ UNCHANGED <<cfgVars, bootWanted, closed, guardVars, left>>

\* Restart and RestartChecked, once prepare has answered
Built(h) ==
    /\ pc[h] = "built"
    /\ \/ /\ loc[h].cfg # "stale" /\ Goto(h, "swap") /\ NoFault
          /\ UNCHANGED loc
       \/ /\ IF loc[h].cfg = "stale" THEN NoFault ELSE Fault
          /\ IF loc[h].op = "save"
             THEN Goto(h, "rollback") /\ UNCHANGED loc
             ELSE Finish(h)
    /\ UNCHANGED <<cfgVars, wishVars, runVars, guardVars>>

\* mutant: the restart is done as a Disconnect followed by a Connect
FaultySwap(h) ==
    /\ pc[h] = "swap" /\ OpMuFree
    /\ Goto(h, "halt") /\ cancelled' = TRUE /\ wanted' = FALSE
    /\ UNCHANGED <<cfgVars, bootWanted, closed, asked, plane, late, guardVars, loc, left>>

\* opMu is taken; the user may have disconnected meanwhile
Swap(h) ==
    /\ pc[h] = "swap" /\ OpMuFree
    /\ IF wanted /\ ~(loc[h].op = "save" /\ MachineClosed)
       THEN Goto(h, "halt") /\ cancelled' = TRUE /\ UNCHANGED loc
       ELSE /\ UNCHANGED cancelled
            /\ IF loc[h].op = "save"
               THEN Goto(h, "settle") /\ UNCHANGED loc
               ELSE Finish(h)
    /\ UNCHANGED <<cfgVars, wishVars, plane, late, guardVars, left>>

\* MSetSettings: publish, then rebuild when the sealed boundary is crossed
Save(h, s) ==
    /\ pc[h] = "save"
    /\ Publish(s, [loc EXCEPT ![h].new = s])
    /\ Goto(h, "choose")
    /\ UNCHANGED <<disk, early, undone, wishVars, cancelled, plane, guardVars, left>>

Choose(h) ==
    LET prev == loc[h].prev
        next == loc[h].new
    IN
    /\ pc[h] = "choose"
    /\ IF plane # "down" /\ Sealed(prev) # Sealed(next)
       THEN Goto(h, "hold") /\ UNCHANGED loc
       ELSE IF prev = next THEN Finish(h)
       ELSE CallSync(h, "idle")
    /\ UNCHANGED <<cfgVars, wishVars, runVars, guardVars, left>>

\* restartForPrivacySettings, which reads the settings again
Hold(h) ==
    /\ pc[h] = "hold"
    /\ guardHold' = (GuardOn(loc[h].prev) /\ wanted)
    /\ Goto(h, IF wanted THEN "prep" ELSE "settle")
    /\ loc' = [loc EXCEPT ![h].new = settings]
    /\ UNCHANGED <<cfgVars, wishVars, runVars, left>>
    /\ UNCHANGED <<fw, guardOn, guardApplied, owed>>

\* RestartChecked starts the new data plane before it returns
StartChecked(h) ==
    /\ pc[h] = "launch"
    /\ \/ /\ loc[h].cfg # "stale"
          /\ plane' = PlaneFor(loc[h].cfg)
          /\ Goto(h, IF guardOn THEN "tunup" ELSE "started")
          /\ NoFault
       \/ /\ IF loc[h].cfg = "stale" THEN NoFault ELSE Fault
          /\ plane' = "down"
          /\ Goto(h, "undo")
    /\ UNCHANGED <<cfgVars, wishVars, cancelled, late, guardVars, loc>>

\* ... and hands it to a run goroutine that begins by watching it
Started(h) ==
    /\ pc[h] = "started"
    /\ pc' = [pc EXCEPT ![h] = "settle", !["run"] = "up"]
    /\ cancelled' = FALSE
    /\ UNCHANGED <<cfgVars, wishVars, plane, late, guardVars, loc, left>>

\* A tightening that failed is rolled back.  After a failed Start the retry
\* loop is started as well, whatever became of the rollback.
Rollback(h) ==
    LET prev == loc[h].prev
        tighten == ~Relaxes(prev, loc[h].new)
        retry == pc[h] = "undo"
        kept(ok) == ~tighten \/ ok
        next(ok) == [pc EXCEPT ![h] = IF kept(ok) THEN "settle" ELSE "abandon"]
        finish(ok, locals) ==
            IF retry THEN Launch("none", next(ok), locals)
            ELSE /\ pc' = next(ok) /\ loc' = locals /\ late' = ~GuardMuFree
                 /\ UNCHANGED <<wanted, asked, cancelled>>
        staled == [g \in Goroutines |->
                      IF loc[g].cfg # "none"
                      THEN [loc[g] EXCEPT !.cfg = "stale"] ELSE loc[g]]
    IN
    /\ pc[h] \in {"rollback", "undo"}
    /\ \/ /\ tighten
          /\ settings' = prev /\ file' = prev /\ trusted' = TRUE
          /\ finish(TRUE, staled) /\ NoFault
       \/ /\ tighten /\ DiskFails /\ NoFault
          /\ finish(FALSE, loc) /\ UNCHANGED <<settings, file, trusted>>
       \/ /\ ~tighten
          /\ finish(TRUE, loc) /\ NoFault /\ UNCHANGED <<settings, file, trusted>>
    /\ UNCHANGED <<disk, early, undone, bootWanted, closed, plane, guardVars>>

\* mutant: the alignment comes first, the hold is released by a later defer
FaultySettle(h) ==
    /\ pc[h] = "settle"
    /\ CallSync(h, "idle")
    /\ UNCHANGED <<cfgVars, wishVars, runVars, left, guardVars>>

\* The end of the transaction: the hold is released, then syncGuard
Settle(h) ==
    /\ pc[h] = "settle"
    /\ guardHold' = FALSE
    /\ CallSync(h, "idle")
    /\ UNCHANGED <<cfgVars, wishVars, runVars, left>>
    /\ UNCHANGED <<fw, guardOn, guardApplied, owed>>

\* The early return: the deferred release only.  The alignment is left out,
\* and one under way has judged with the hold still set.
Abandon(h) ==
    /\ pc[h] = "abandon"
    /\ guardHold' = FALSE /\ owed' = TRUE /\ late' = ~GuardMuFree
    /\ Finish(h)
    /\ UNCHANGED <<cfgVars, wishVars, cancelled, plane, left>>
    /\ UNCHANGED <<fw, guardOn, guardApplied>>

HandlerStep(h) ==
    \/ Connect(h) \/ RemoveWrite(h) \/ RemoveForget(h) \/ Disconnect(h)
    \/ Unhold(h) \/ Halt(h) \/ Built(h) \/ Swap(h)
    \/ \E s \in Choices : Save(h, s)
    \/ Choose(h) \/ Hold(h) \/ StartChecked(h) \/ Started(h) \/ Rollback(h)
    \/ Settle(h) \/ Abandon(h)

-----------------------------------------------------------------------------
(* The life of the process                                                 *)

\* mutant: a settings file that cannot be read is taken as it is
FaultyBoot ==
    /\ pc["boot"] = "dead"
    /\ trusted' = TRUE /\ settings' = file
    /\ bootWanted' = (disk = "yes") /\ asked' = bootWanted'
    /\ guardOn' = (fw # "none")
    /\ pc' = [pc EXCEPT !["boot"] = "reconcile", !["watch"] = "idle"]
    /\ UNCHANGED <<disk, file, early, undone, wanted, closed, runVars, fw,
                   guardApplied, guardHold, owed, loc, left>>

\* New and the first lines of Run: settings and wish are read back, the
\* filter found in place is recorded as on.
Boot ==
    /\ pc["boot"] = "dead"
    /\ trusted' = (file # "bad")
    /\ settings' = IF file = "bad" THEN Default ELSE file
    /\ bootWanted' = (disk = "yes" /\ file # "bad")
    /\ asked' = bootWanted'
    /\ guardOn' = (fw # "none")
    /\ pc' = [pc EXCEPT !["boot"] = "reconcile", !["watch"] = "idle"]
    /\ UNCHANGED <<disk, file, early, undone, wanted, closed, runVars, fw,
                   guardApplied, guardHold, owed, loc, left>>

\* reconcileGuard, without guardMu
Reconcile ==
    /\ pc["boot"] = "reconcile"
    /\ CASE ~trusted \/ (disk = "unknown" /\ fw = "none") ->
                Goto("boot", "auto") /\ owed' = TRUE /\ UNCHANGED guardOn
         [] trusted /\ disk = "unknown" /\ fw # "none" /\ ~GuardOn(settings) ->
                /\ Goto("boot", "auto") /\ owed' = TRUE
                /\ guardOn' = TRUE
         [] trusted /\ disk = "unknown" /\ fw # "none" /\ GuardOn(settings) ->
                Goto("boot", "install") /\ UNCHANGED <<guardOn, owed>>
         [] trusted /\ disk # "unknown" ->
                /\ Goto("boot", IF disk = "yes" /\ GuardOn(settings)
                                THEN "install" ELSE "clear")
                /\ UNCHANGED <<guardOn, owed>>
    /\ UNCHANGED <<cfgVars, wishVars, runVars, fw, guardApplied, guardHold, loc, left>>

\* Run: the automatic connection, serialised with MConnect and MDisconnect
AutoConnect ==
    /\ pc["boot"] = "auto" /\ ConnOpFree /\ OpMuFree
    /\ bootWanted' = FALSE
    /\ IF disk = "yes" /\ trusted
       THEN Launch("none", [pc EXCEPT !["boot"] = "serve"], loc)
       ELSE /\ Goto("boot", "serve")
            /\ UNCHANGED <<wanted, cancelled, late, loc>>
            /\ asked' = wanted
    /\ UNCHANGED <<cfgVars, closed, plane, guardVars, left>>

\* The service is stopped: shuttingDown is set first, then Shutdown keeps
\* the wish and stops the loop.
Stop ==
    /\ pc["boot"] = "serve" /\ Fault
    /\ closed' = TRUE
    /\ Goto("boot", "closing")
    /\ UNCHANGED <<cfgVars, wanted, bootWanted, asked, runVars, guardVars, loc>>

Shutdown ==
    /\ pc["boot"] = "closing" /\ OpMuFree
    /\ cancelled' = TRUE
    /\ Goto("boot", "halt")
    /\ UNCHANGED <<cfgVars, wishVars, plane, late, guardVars, loc, left>>

\* The process is gone: everything in memory with it.  The filter and the
\* two files stay; a power cut may cost an unsynced file or a filter that
\* the platform does not keep.
Die(fwAfter, diskAfter, fileAfter) ==
    /\ fw' = fwAfter /\ disk' = diskAfter /\ file' = fileAfter
    /\ settings' = Default /\ trusted' = FALSE
    /\ wanted' = FALSE /\ bootWanted' = FALSE /\ closed' = FALSE /\ asked' = FALSE
    /\ cancelled' = FALSE /\ plane' = "down" /\ late' = FALSE
    /\ early' = FALSE /\ undone' = FALSE
    /\ guardOn' = FALSE /\ guardApplied' = "none"
    /\ guardHold' = FALSE /\ owed' = FALSE
    /\ pc' = [g \in Goroutines |-> CASE g = "boot" -> "dead"
                                     [] g = "run" -> "off"
                                     [] OTHER -> "idle"]
    /\ loc' = [g \in Goroutines |-> NoLocal]

Exit == /\ pc["boot"] = "halt" /\ pc["run"] = "off"
        /\ Die(fw, disk, file)
        /\ UNCHANGED left

Kill == /\ Alive /\ Fault
        /\ \/ Die(fw, disk, file) \/ Die("none", disk, file)
           \/ Die(fw, "unknown", file) \/ Die(fw, disk, "bad")

BootStep == Boot \/ Reconcile \/ AutoConnect \/ Shutdown \/ Exit

\* nft flush, pfctl -F, a security product
Tamper ==
    /\ Tampering /\ Alive /\ fw # "none"
    /\ Fault
    /\ fw' = "none" /\ owed' = TRUE
    /\ UNCHANGED <<cfgVars, wishVars, runVars, pc, loc>>
    /\ UNCHANGED <<guardOn, guardApplied, guardHold>>

-----------------------------------------------------------------------------
Init ==
    /\ disk \in {"yes", "no"} /\ file \in Choices
    /\ settings = Default /\ trusted = FALSE
    /\ wanted = FALSE /\ bootWanted = FALSE /\ closed = FALSE /\ asked = FALSE
    /\ cancelled = FALSE /\ plane = "down" /\ late = FALSE
    /\ early = FALSE /\ undone = FALSE
    /\ fw = IF disk = "yes" /\ GuardOn(file) THEN GuardSpec(file) ELSE "none"
    /\ guardOn = FALSE /\ guardApplied = "none"
    /\ guardHold = FALSE /\ owed = FALSE
    /\ pc = [g \in Goroutines |-> CASE g = "boot" -> "dead"
                                    [] g = "run" -> "off"
                                    [] OTHER -> "idle"]
    /\ loc = [g \in Goroutines |-> NoLocal]
    /\ left = [calls |-> MaxCalls, faults |-> MaxFaults]

GoroutineStep(g) ==
    SyncStep(g) \/ GuardReady(g) \/ GuardGone(g) \/ TunUp(g) \/ Prepare(g)

Progress(g) ==
    \/ GoroutineStep(g)
    \/ g \in Handlers /\ HandlerStep(g)
    \/ g = "run" /\ RunStep
    \/ g = "watch" /\ Watch
    \/ g = "boot" /\ BootStep

Next ==
    \/ \E g \in Goroutines : Progress(g)
    \/ \E h \in Handlers, op \in AllOps : Call(h, op)
    \/ Stop \/ Kill \/ Tamper

Spec == Init /\ [][Next]_vars

\* Every goroutine that can run does run (the Go scheduler), a handler that
\* was called goes on, a dead service is started again, and a goroutine that
\* waits for guardMu gets it (sync.Mutex serves a starving waiter first).
Fairness == /\ \A g \in Goroutines : WF_vars(Progress(g))
            /\ \A g \in Goroutines \ {"boot"} : SF_vars(SyncLock(g))
FairSpec == Spec /\ Fairness

-----------------------------------------------------------------------------
(* Properties                                                              *)

\* Every variable stays in its domain.
TypeOK ==
    /\ disk \in {"yes", "no", "unknown"} /\ file \in Choices \cup {"bad"}
    /\ settings \in Choices
    /\ {trusted, wanted, bootWanted, closed, cancelled, asked, late, owed} \subseteq BOOLEAN
    /\ {guardOn, guardHold, early, undone} \subseteq BOOLEAN
    /\ plane \in {"down", "sealed", "plain"}
    /\ fw \in {"none", "global", "rule"} /\ guardApplied \in {"none", "global", "rule"}
    /\ loc \in [Goroutines -> Locals]
    /\ left \in [calls : 0 .. MaxCalls, faults : 0 .. MaxFaults]
    /\ pc \in [Goroutines -> Labels]

\* No handler is running and no goroutine is inside syncGuard.
Settled == /\ pc["boot"] = "serve"
           /\ \A h \in Handlers : pc[h] = "idle"
           /\ pc["watch"] = "idle" /\ pc["run"] \notin SyncLabels

\* Once every handler has answered, the filter in the kernel is the one the
\* settings and the wish call for: installed with the current specification,
\* or gone (syncGuard: "align the guard with whether it should be there").
\* Excused only while the wish on disk is unreadable and while the last
\* attempt failed, had to be withheld, or was misled by a wrong record (that
\* this last case exists is what RecordHonest is about).
GuardMatches ==
    Settled /\ trusted /\ disk # "unknown" /\ ~owed =>
        fw = IF GuardWanted THEN GuardSpec(settings) ELSE "none"

\* A filter left in place after the user disconnected is recorded as such, or
\* nothing will ever remove it (syncGuard: a guard wrongly noted as off cannot
\* be got rid of from the interface).  guardMu has the judgement and the change
\* "in one breath", but the record is also written outside it (guardReady).
RecordHonest == Settled /\ ~WantConnected /\ fw # "none" => guardOn

\* The service never takes the filter away while the user's last request was
\* to be connected and the settings ask for it: stopping the service, a
\* reconnection, a crash of the core or a failed start never open it (Run:
\* "only four things remove the guard").  A removal whose decision was taken
\* just before the user changed his mind may still land; GuardMatches says
\* that it does not last.  The reconciliation at boot judges from the file
\* alone: it is excused where a handler was called before it was over.
OpenedOnlyOnRequest ==
    [][\A g \in Goroutines :
         pc[g] = "clear" /\ pc'[g] = "cleared" =>
             \/ ~asked \/ ~GuardOn(settings) \/ late
             \/ g = "boot" /\ early]_vars

\* Self-repair: if from some point on the user stays connected with the guard
\* on, the filter ends up installed with the right specification and stays,
\* whatever failed, was flushed or crashed before (health, guardWatchLoop).
GuardConverges ==
    <>[](trusted /\ wanted /\ GuardOn(settings)) =>
        <>[](fw = GuardSpec(settings) /\ guardOn)
=============================================================================

---------------------------- MODULE ConnMachine ----------------------------
(***************************************************************************)
(* The connection state machine, internal/state/machine.go.                *)
(*                                                                         *)
(* Callers are the daemon's goroutines: one per IPC connection and one per *)
(* background loop, all of which may call Connect, Disconnect, Shutdown,   *)
(* Restart and RestartChecked at the same time. Runs are the goroutines    *)
(* those calls start ("go m.run"): each connects, watches and reconnects   *)
(* until its context is cancelled. opMu serialises the callers, mu guards  *)
(* the fields; a section of code under mu is one step here, and every call *)
(* into the data plane (Deps.Prepare, Start, Stop, Health, Recover) is two *)
(* steps, so anything another goroutine may do meanwhile happens.          *)
(*                                                                         *)
(* Time is abstracted: a ticker or a backoff timer may fire at any moment. *)
(* A configuration is abstracted to whether there is one.                  *)
(***************************************************************************)
EXTENDS Naturals, FiniteSets

CONSTANTS
  Callers,    \* goroutines that call the machine's exported operations
  Runs,       \* identities for run goroutines; an ended one is used again
  NoCaller,   \* opMu is free
  NoRun,      \* m.cancel is nil
  GiveUp,     \* degradedGiveUp: failed checks after which waiting is over
  MaxCalls    \* bound: exported operations called in one behaviour

ASSUME ConnAssumption ==
  /\ NoCaller \notin Callers
  /\ NoRun \notin Runs
  /\ GiveUp \in Nat
  /\ GiveUp >= 2
  /\ MaxCalls \in Nat

VARIABLES
  wanted,     \* m.wanted
  closed,     \* m.closed
  opMu,       \* the caller that holds opMu
  cancel,     \* the run whose context m.cancel cancels
  pre,        \* m.pre # nil
  kick,       \* a token is waiting in m.kick
  snap,       \* m.snap: status, and wanted as it was when status was set
  core,       \* the data plane: "down", "up", or "dead" (crashed, not stopped)
  pc,         \* where each caller is
  op,         \* which operation each caller is in
  rpc,        \* where each run is
  ctxDone,    \* the run's context has been cancelled
  fails,      \* watch's count of failed health checks
  tried,      \* watch has used its one Recover
  calls       \* operations called so far, see MaxCalls

callerVars == <<opMu, pc, op, calls>>
runVars    == <<rpc, ctxDone, fails, tried>>
vars == <<wanted, closed, cancel, pre, kick, snap, core, callerVars, runVars>>

Status == {"disconnected", "preparing", "starting", "connected", "degraded",
           "stopping", "error"}

Operation == {"none", "disconnect", "shutdown", "restart", "checked"}

CallerPC ==
  {"idle",
   "prepare",    \* in Deps.Prepare, opMu not held
   "lock",       \* waiting for opMu with a configuration in hand
   "stopLoop",   \* opMu held from here on; about to take m.cancel
   "wait",       \* in wg.Wait
   "stopping",   \* in stopLoop's Deps.Stop
   "stopped",    \* stopLoop has returned
   "starting",   \* in RestartChecked's Deps.Start
   "undo",       \* in RestartChecked's Deps.Stop after a failed start
   "rollback"}   \* about to run rollback and go back to retrying

RunPC ==
  {"off",
   "loop",       \* at the head of run's loop
   "take",       \* about to look for a configuration left by Restart
   "prepare",    \* in Deps.Prepare
   "prepared",   \* has a configuration, has not looked at its context yet
   "starting",   \* in Deps.Start
   "failed",     \* Prepare or Start failed, has not looked at its context yet
   "failStop",   \* in Deps.Stop after the failure
   "backoff",    \* in sleepCtx
   "up",         \* started, about to report Connected
   "watch",      \* in watch's select
   "check",      \* in Deps.Health
   "recover",    \* in Deps.Recover
   "rebuild"}    \* in Deps.Stop because watch gave up or the core died

TypeOK ==
  /\ wanted \in BOOLEAN
  /\ closed \in BOOLEAN
  /\ opMu \in Callers \cup {NoCaller}
  /\ cancel \in Runs \cup {NoRun}
  /\ pre \in BOOLEAN
  /\ kick \in BOOLEAN
  /\ snap \in [status : Status, wanted : BOOLEAN]
  /\ core \in {"down", "up", "dead"}
  /\ pc \in [Callers -> CallerPC]
  /\ op \in [Callers -> Operation]
  /\ rpc \in [Runs -> RunPC]
  /\ ctxDone \in [Runs -> BOOLEAN]
  /\ fails \in [Runs -> 0..GiveUp]
  /\ tried \in [Runs -> BOOLEAN]
  /\ calls \in 0..MaxCalls

Init ==
  /\ wanted = FALSE
  /\ closed = FALSE
  /\ opMu = NoCaller
  /\ cancel = NoRun
  /\ pre = FALSE
  /\ kick = FALSE
  /\ snap = [status |-> "disconnected", wanted |-> FALSE]
  /\ core = "down"
  /\ pc = [c \in Callers |-> "idle"]
  /\ op = [c \in Callers |-> "none"]
  /\ rpc = [r \in Runs |-> "off"]
  /\ ctxDone = [r \in Runs |-> FALSE]
  /\ fails = [r \in Runs |-> 0]
  /\ tried = [r \in Runs |-> FALSE]
  /\ calls = 0

-----------------------------------------------------------------------------
(* Helpers of both kinds of goroutine *)

NoLiveRun == \A r \in Runs : rpc[r] = "off"

(* m.set: the snapshot takes the new status and the intent of this moment. *)
set(st) == snap' = [status |-> st, wanted |-> wanted]

(* "go m.run" with a context of its own.                                   *)
Spawn(r, at) ==
  /\ rpc[r] = "off"
  /\ rpc' = [rpc EXCEPT ![r] = at]
  /\ ctxDone' = [ctxDone EXCEPT ![r] = FALSE]
  /\ cancel' = r
  /\ UNCHANGED <<fails, tried>>

(* connect, entered with opMu held.                                        *)
connect ==
  \/ closed /\ UNCHANGED <<wanted, cancel, runVars>>
  \/ ~closed /\ wanted' = TRUE /\ cancel # NoRun /\ UNCHANGED <<cancel, runVars>>
  \/ ~closed /\ wanted' = TRUE /\ cancel = NoRun /\ \E r \in Runs : Spawn(r, "loop")

(* The first step of an exported operation, and the ones that follow it.   *)
Call(c) ==
  /\ pc[c] = "idle"
  /\ calls < MaxCalls
  /\ calls' = calls + 1

Step(c, from, to) ==
  /\ pc[c] = from
  /\ pc' = [pc EXCEPT ![c] = to]
  /\ UNCHANGED <<op, calls>>

Lock(c) == opMu = NoCaller /\ opMu' = c

(* The operation returns; the deferred Unlock runs, where there is one.    *)
Return(c, from) ==
  /\ pc[c] = from
  /\ pc' = [pc EXCEPT ![c] = "idle"]
  /\ op' = [op EXCEPT ![c] = "none"]
  /\ UNCHANGED calls

Unlock == opMu' = NoCaller

-----------------------------------------------------------------------------
(* The exported operations, run by callers *)

(* Connect: takes opMu, runs connect and releases opMu.                    *)
Connect(c) ==
  /\ Call(c)
  /\ opMu = NoCaller
  /\ connect
  /\ UNCHANGED <<closed, opMu, pc, op, pre, kick, snap, core>>

Begin(c, which, at) ==
  /\ Call(c)
  /\ pc' = [pc EXCEPT ![c] = at]
  /\ op' = [op EXCEPT ![c] = which]
  /\ UNCHANGED <<cancel, pre, kick, core, runVars>>

Disconnect(c) ==
  /\ Begin(c, "disconnect", "stopLoop")
  /\ Lock(c)
  /\ wanted' = FALSE
  /\ UNCHANGED <<closed, snap>>

Shutdown(c) ==
  /\ Begin(c, "shutdown", "stopLoop")
  /\ Lock(c)
  /\ closed' = TRUE
  /\ UNCHANGED <<wanted, snap>>

(* Restart and RestartChecked prepare before they take opMu.               *)
Restart(c, which) ==
  /\ wanted
  /\ Begin(c, which, "prepare")
  /\ UNCHANGED <<wanted, closed, opMu, snap>>

RestartPrepared(c) ==
  /\ Step(c, "prepare", "lock")
  /\ UNCHANGED <<wanted, closed, opMu, cancel, pre, kick, snap, core, runVars>>

RestartPrepareFailed(c) ==
  /\ Return(c, "prepare")
  /\ UNCHANGED <<wanted, closed, opMu, cancel, pre, kick, snap, core, runVars>>

(* The user may have disconnected while the configuration was prepared.    *)
RestartDropped(c) ==
  /\ Return(c, "lock")
  /\ opMu = NoCaller
  /\ ~wanted \/ (op[c] = "checked" /\ closed)
  /\ UNCHANGED <<wanted, closed, opMu, cancel, pre, kick, snap, core, runVars>>

RestartLocked(c) ==
  /\ op[c] = "restart"
  /\ Step(c, "lock", "stopLoop")
  /\ Lock(c)
  /\ wanted
  /\ pre' = TRUE
  /\ UNCHANGED <<wanted, closed, cancel, kick, snap, core, runVars>>

(* Faulty variant: isClosed is not asked.                                  *)
FaultyCheckedLocked(c) ==
  /\ op[c] = "checked"
  /\ Step(c, "lock", "stopLoop")
  /\ Lock(c)
  /\ wanted
  /\ UNCHANGED <<wanted, closed, cancel, pre, kick, snap, core, runVars>>

CheckedLocked(c) ==
  /\ op[c] = "checked"
  /\ Step(c, "lock", "stopLoop")
  /\ Lock(c)
  /\ wanted
  /\ ~closed
  /\ UNCHANGED <<wanted, closed, cancel, pre, kick, snap, core, runVars>>

-----------------------------------------------------------------------------
(* stopLoop, entered with opMu held *)

NothingToStop(c) ==
  /\ Step(c, "stopLoop", "stopped")
  /\ cancel = NoRun
  /\ UNCHANGED <<wanted, closed, opMu, cancel, pre, kick, snap, core, runVars>>

(* Faulty variant: the context function is taken but not called.           *)
FaultyTakeCancel(c) ==
  /\ Step(c, "stopLoop", "wait")
  /\ cancel # NoRun
  /\ cancel' = NoRun
  /\ UNCHANGED <<wanted, closed, opMu, pre, kick, snap, core, runVars>>

TakeCancel(c) ==
  /\ Step(c, "stopLoop", "wait")
  /\ cancel # NoRun
  /\ cancel' = NoRun
  /\ ctxDone' = [ctxDone EXCEPT ![cancel] = TRUE]
  /\ UNCHANGED <<wanted, closed, opMu, pre, kick, snap, core, rpc, fails, tried>>

(* Faulty variant: stopLoop does not wait for the run to end.              *)
FaultyWaited(c) ==
  /\ Step(c, "wait", "stopping")
  /\ set("stopping")
  /\ UNCHANGED <<wanted, closed, opMu, cancel, pre, kick, core, runVars>>

Waited(c) ==
  /\ Step(c, "wait", "stopping")
  /\ NoLiveRun
  /\ set("stopping")
  /\ UNCHANGED <<wanted, closed, opMu, cancel, pre, kick, core, runVars>>

StopReturned(c) ==
  /\ Step(c, "stopping", "stopped")
  /\ core' = "down"
  /\ UNCHANGED <<wanted, closed, opMu, cancel, pre, kick, snap, runVars>>

-----------------------------------------------------------------------------
(* What each operation does once the old run is gone *)

Disconnected(c) ==
  /\ op[c] \in {"disconnect", "shutdown"}
  /\ Return(c, "stopped")
  /\ Unlock
  /\ set("disconnected")
  /\ UNCHANGED <<wanted, closed, cancel, pre, kick, core, runVars>>

Restarted(c) ==
  /\ op[c] = "restart"
  /\ Return(c, "stopped")
  /\ Unlock
  /\ connect
  /\ UNCHANGED <<closed, pre, kick, snap, core>>

CheckedStart(c) ==
  /\ op[c] = "checked"
  /\ Step(c, "stopped", "starting")
  /\ set("starting")
  /\ kick' = FALSE
  /\ UNCHANGED <<wanted, closed, opMu, cancel, pre, core, runVars>>

(* Start may itself ask for a health check (CheckNow) before it returns.   *)
CheckedStarted(c) ==
  /\ Return(c, "starting")
  /\ Unlock
  /\ core = "down"
  /\ core' = "up"
  /\ kick' \in {kick, TRUE}
  /\ \E r \in Runs : Spawn(r, "up")
  /\ UNCHANGED <<wanted, closed, pre, snap>>

CheckedStartFailed(c) ==
  /\ Step(c, "starting", "undo")
  /\ UNCHANGED <<wanted, closed, opMu, cancel, pre, kick, snap, core, runVars>>

CheckedUndone(c) ==
  /\ Step(c, "undo", "rollback")
  /\ core' = "down"
  /\ UNCHANGED <<wanted, closed, opMu, cancel, pre, kick, snap, runVars>>

CheckedRetry(c) ==
  /\ Return(c, "rollback")
  /\ Unlock
  /\ set("error")
  /\ connect
  /\ UNCHANGED <<closed, pre, kick, core>>

CallerStep(c) ==
  \/ RestartPrepared(c) \/ RestartPrepareFailed(c) \/ RestartDropped(c)
  \/ RestartLocked(c) \/ CheckedLocked(c)
  \/ NothingToStop(c) \/ TakeCancel(c) \/ Waited(c) \/ StopReturned(c)
  \/ Disconnected(c) \/ Restarted(c)
  \/ CheckedStart(c) \/ CheckedStarted(c) \/ CheckedStartFailed(c)
  \/ CheckedUndone(c) \/ CheckedRetry(c)

NewCall(c) ==
  \/ Connect(c) \/ Disconnect(c) \/ Shutdown(c)
  \/ \E which \in {"restart", "checked"} : Restart(c, which)

-----------------------------------------------------------------------------
(* The loop of a run goroutine *)

(* A run goes on; whatever it does, it leaves these alone.                 *)
Move(r, from, to) ==
  /\ rpc[r] = from
  /\ rpc' = [rpc EXCEPT ![r] = to]
  /\ UNCHANGED <<wanted, closed, cancel, ctxDone, callerVars>>

(* A step of pure control.                                                 *)
Pass(r, from, to) ==
  Move(r, from, to) /\ UNCHANGED <<pre, kick, snap, core, fails, tried>>

(* The goroutine ends; its locals are reset so that its name can be used   *)
(* by a later one.                                                         *)
Exit(r) ==
  /\ rpc' = [rpc EXCEPT ![r] = "off"]
  /\ ctxDone' = [ctxDone EXCEPT ![r] = FALSE]
  /\ fails' = [fails EXCEPT ![r] = 0]
  /\ tried' = [tried EXCEPT ![r] = FALSE]
  /\ UNCHANGED <<wanted, closed, cancel, pre, kick, snap, core, callerVars>>

(* run looks at ctx.Err() at its head, with a configuration in hand and    *)
(* after a failure; sleepCtx waits for it as well.                         *)
RunCancelled(r) ==
  rpc[r] \in {"loop", "prepared", "failed", "backoff"} /\ ctxDone[r] /\ Exit(r)

RunLoop(r) ==
  /\ ~ctxDone[r]
  /\ Move(r, "loop", "take")
  /\ set("preparing")
  /\ UNCHANGED <<pre, kick, core, fails, tried>>

TakePre(r) ==
  /\ Move(r, "take", IF pre THEN "prepared" ELSE "prepare")
  /\ pre' = FALSE
  /\ UNCHANGED <<kick, snap, core, fails, tried>>

PrepareOk(r) == Pass(r, "prepare", "prepared")

PrepareFailed(r) == Pass(r, "prepare", "failed")

RunStart(r) ==
  /\ ~ctxDone[r]
  /\ Move(r, "prepared", "starting")
  /\ set("starting")
  /\ kick' = FALSE
  /\ UNCHANGED <<pre, core, fails, tried>>

StartOk(r) ==
  /\ Move(r, "starting", "up")
  /\ core = "down"
  /\ core' = "up"
  /\ kick' \in {kick, TRUE}
  /\ UNCHANGED <<pre, snap, fails, tried>>

StartFailed(r) == Pass(r, "starting", "failed")

CleanUp(r) == ~ctxDone[r] /\ Pass(r, "failed", "failStop")

(* Deps.Stop returns, after a failure or after watch asked for a rebuild;  *)
(* the run reports the error and waits before its next attempt.            *)
RunStopped(r) ==
  /\ \E from \in {"failStop", "rebuild"} : Move(r, from, "backoff")
  /\ core' = "down"
  /\ set("error")
  /\ UNCHANGED <<pre, kick, fails, tried>>

(* Faulty variant: the run ends instead of trying again.                   *)
FaultyBackoffOver(r) == Pass(r, "backoff", "off")

BackoffOver(r) == Pass(r, "backoff", "loop")

(* Faulty variant: the kicks are dropped when watch begins, with them the  *)
(* one Start sent.                                                         *)
FaultyRunUp(r) ==
  /\ Move(r, "up", "watch")
  /\ set("connected")
  /\ kick' = FALSE
  /\ fails' = [fails EXCEPT ![r] = 0]
  /\ tried' = [tried EXCEPT ![r] = FALSE]
  /\ UNCHANGED <<pre, core>>

RunUp(r) ==
  /\ Move(r, "up", "watch")
  /\ set("connected")
  /\ fails' = [fails EXCEPT ![r] = 0]
  /\ tried' = [tried EXCEPT ![r] = FALSE]
  /\ UNCHANGED <<pre, kick, core>>

-----------------------------------------------------------------------------
(* watch. Its select picks any ready case: the cancelled context, a ticker *)
(* or the kick.                                                            *)

WatchCancelled(r) == rpc[r] = "watch" /\ ctxDone[r] /\ Exit(r)

AliveTick(r) == core = "dead" /\ Pass(r, "watch", "rebuild")

HealthTick(r) == Pass(r, "watch", "check")

KickTaken(r) ==
  /\ kick
  /\ kick' = FALSE
  /\ Move(r, "watch", "check")
  /\ UNCHANGED <<pre, snap, core, fails, tried>>

CheckOk(r) ==
  /\ Move(r, "check", "watch")
  /\ fails' = [fails EXCEPT ![r] = 0]
  /\ tried' = [tried EXCEPT ![r] = FALSE]
  /\ IF snap.status = "degraded" THEN set("connected") ELSE UNCHANGED snap
  /\ UNCHANGED <<pre, kick, core>>

CheckCrash(r) == core = "dead" /\ Pass(r, "check", "rebuild")

(* Faulty variant, the m29 behaviour the comment in watch tells of: a      *)
(* privacy failure tears the tunnel down.                                  *)
FaultyCheckPrivacy(r) == Pass(r, "check", "rebuild")

(* The gate or the network cards do not protect yet: reported, never torn  *)
(* down, and not counted as a failed check.                                *)
CheckPrivacy(r) ==
  /\ Move(r, "check", "watch")
  /\ set("degraded")
  /\ UNCHANGED <<pre, kick, core, fails, tried>>

(* The node does not answer for the n-th time. From the count of limit on  *)
(* it is shown, at GiveUp it is time for the one Recover or a rebuild.     *)
NodeDown(r, n, limit) ==
  /\ fails' = [fails EXCEPT ![r] = n]
  /\ IF n >= limit /\ snap.status # "degraded"
       THEN set("degraded") ELSE UNCHANGED snap
  /\ tried' = [tried EXCEPT ![r] = @ \/ n >= GiveUp]
  /\ Move(r, "check", IF n < GiveUp THEN "watch"
                      ELSE IF tried[r] THEN "rebuild" ELSE "recover")
  /\ UNCHANGED <<pre, kick, core>>

(* Faulty variant: the second failure is not shown yet.                    *)
FaultyCheckBad(r) == NodeDown(r, fails[r] + 1, 3)

CheckBad(r) == NodeDown(r, fails[r] + 1, 2)

(* Faulty variant: the count is not set back after a Recover.              *)
FaultyRecovered(r) == Pass(r, "recover", "watch")

(* Recover changed something: one more round of observation.               *)
Recovered(r) ==
  /\ Move(r, "recover", "watch")
  /\ fails' = [fails EXCEPT ![r] = 1]
  /\ UNCHANGED <<pre, kick, snap, core, tried>>

NotRecovered(r) == Pass(r, "recover", "rebuild")

RunStep(r) ==
  \/ RunCancelled(r) \/ RunLoop(r) \/ TakePre(r)
  \/ PrepareOk(r) \/ PrepareFailed(r)
  \/ RunStart(r) \/ StartOk(r) \/ StartFailed(r) \/ CleanUp(r)
  \/ RunStopped(r) \/ BackoffOver(r) \/ RunUp(r)
  \/ WatchCancelled(r) \/ AliveTick(r) \/ HealthTick(r) \/ KickTaken(r)
  \/ CheckOk(r) \/ CheckCrash(r) \/ CheckPrivacy(r) \/ CheckBad(r)
  \/ Recovered(r) \/ NotRecovered(r)

-----------------------------------------------------------------------------
(* What happens around the machine *)

(* CheckNow, called by the session watch and by Start: a full channel      *)
(* makes a second kick disappear into the first.                           *)
CheckNow ==
  /\ kick' = TRUE
  /\ UNCHANGED <<wanted, closed, cancel, pre, snap, core, callerVars, runVars>>

(* Alive starts answering false.                                           *)
CoreDies ==
  /\ core = "up"
  /\ core' = "dead"
  /\ UNCHANGED <<wanted, closed, cancel, pre, kick, snap, callerVars, runVars>>

Next ==
  \/ \E c \in Callers : NewCall(c)
  \/ \E c \in Callers : CallerStep(c)
  \/ \E r \in Runs : RunStep(r)
  \/ CheckNow
  \/ CoreDies

Spec == Init /\ [][Next]_vars

(* Goroutines are scheduled, calls into the data plane return (each has a  *)
(* timeout), timers fire, and Go's select does not ignore a ready          *)
(* ctx.Done() for ever: it picks at random among the ready cases.          *)
SchedulerFairness ==
  /\ \A c \in Callers : WF_vars(CallerStep(c))
  /\ \A r \in Runs : WF_vars(RunStep(r)) /\ SF_vars(WatchCancelled(r))

(* The world is not broken for ever: a Prepare or a Start that is tried    *)
(* again and again succeeds at last.                                       *)
WorldFairness ==
  \A r \in Runs : SF_vars(PrepareOk(r)) /\ SF_vars(StartOk(r))

FairSpec == Spec /\ SchedulerFairness /\ WorldFairness

-----------------------------------------------------------------------------
(* Properties *)

InStart == {c \in Callers : pc[c] = "starting"} \cup
           {r \in Runs : rpc[r] = "starting"}

InStop == {c \in Callers : pc[c] \in {"stopping", "undo"}} \cup
          {r \in Runs : rpc[r] \in {"failStop", "rebuild"}}

(* "The old stop must not interleave with the new start" (the comments on  *)
(* opMu and stopLoop, TestLifecycleOpsAreSerialized): at most one          *)
(* goroutine is inside Deps.Start or Deps.Stop, at most one run is alive,  *)
(* and Start is never called on a plane that has not been stopped.         *)
PlaneHasOneActor ==
  /\ Cardinality(InStart \cup InStop) <= 1
  /\ \A r1, r2 \in Runs : rpc[r1] # "off" /\ rpc[r2] # "off" => r1 = r2
  /\ InStart # {} => core = "down"

(* Whenever no operation holds opMu, the loop runs exactly when the user   *)
(* wants to be connected and the service is not shutting down: no reply to *)
(* a Disconnect or a Shutdown is undone by a Restart that was preparing,   *)
(* and no Restart leaves a user who wants the connection without a loop.   *)
LoopMatchesIntent ==
  opMu = NoCaller => ((cancel # NoRun) <=> (wanted /\ ~closed))

(* An intent the user has withdrawn is not brought back by a Restart or a  *)
(* RestartChecked that was under way (TestRestartAbortsWhenUserDisconnects *)
(* WhilePreparing): wanted becomes TRUE only as a new call begins.         *)
NoRevival == [][~wanted /\ wanted' => calls' = calls + 1]_vars

(* Once Disconnect or Shutdown has returned, nothing is left behind: no    *)
(* goroutine, no data plane, and the status says so.                       *)
QuietWhenStopped ==
  opMu = NoCaller /\ cancel = NoRun =>
    /\ NoLiveRun
    /\ core = "down"
    /\ snap.status = "disconnected"

(* A status "disconnected" is never shown over a data plane that is up or  *)
(* changing.                                                               *)
DisconnectedMeansDown ==
  snap.status = "disconnected" => core = "down" /\ InStart \cup InStop = {}

(* While watch waits, the reported status agrees with its own count: a     *)
(* connection that failed two checks in a row is not shown as healthy.     *)
DegradedIsShown ==
  \A r \in Runs : rpc[r] = "watch" =>
    /\ snap.status \in {"connected", "degraded"}
    /\ fails[r] >= 2 => snap.status = "degraded"

(* The status, in one piece: whoever sets it last tells the truth.         *)
StatusIsHonest == QuietWhenStopped /\ DisconnectedMeansDown /\ DegradedIsShown

(* A working tunnel is torn down by its own run only after GiveUp failed   *)
(* node checks in a row and a Recover that did not help (or was used       *)
(* already), or when the core has died: never for a privacy failure        *)
(* (TestPrivacyCodesNeverRebuild).                                         *)
TeardownIsJustified ==
  [][\A r \in Runs :
       rpc[r] # "rebuild" /\ rpc'[r] = "rebuild" =>
         core = "dead" \/ (fails'[r] >= GiveUp /\ tried'[r])]_vars

(* A health check that is asked for while the data plane is up, by Start   *)
(* itself or later, is not lost: as long as the plane stays up, only the   *)
(* beginning of a check takes the kick (TestCheckNowFromStartCounts).      *)
KickIsKept ==
  [][kick /\ ~kick' /\ core # "down" =>
       \E r \in Runs : rpc[r] = "watch" /\ rpc'[r] = "check"]_vars

(* Nothing that is under way overrules what is asked for: neither a        *)
(* Restart brings a withdrawn intent back, nor does a check that is asked  *)
(* for get lost.                                                           *)
RequestsAreKept == NoRevival /\ KickIsKept

(* Restart says that a configuration it does not use may be thrown away,   *)
(* because the next connect prepares a new one: so none is left behind     *)
(* once the user has disconnected, in a service that can connect again.    *)
NoConfigLeftBehind ==
  opMu = NoCaller /\ ~wanted /\ ~closed => ~pre

(* The machine keeps the promise of ConnPromise.                           *)
plane ==
  IF InStart # {} THEN "starting"
  ELSE IF InStop # {} THEN "stopping"
  ELSE IF core = "down" THEN "down" ELSE "up"

engaged ==
  \/ cancel # NoRun
  \/ \E c \in Callers : pc[c] \in {"wait", "stopping", "starting", "undo"}

Promise ==
  INSTANCE ConnPromise
    WITH wanted <- wanted, closed <- closed, engaged <- engaged, plane <- plane
PromiseKept == Promise!Spec

(* A user who wants the connection gets it, or changes their mind, or the  *)
(* service stops: no failure ends the retrying.                            *)
ConnectsAtLast ==
  (wanted /\ ~closed) ~>
    (snap.status \in {"connected", "degraded"} \/ ~wanted \/ closed)

(* Every operation returns: no caller waits for opMu or for a run for ever.*)
OperationsReturn == \A c \in Callers : (pc[c] # "idle") ~> (pc[c] = "idle")

(* A user's Disconnect, or a Shutdown, ends with the plane down, unless    *)
(* the user connects again.                                                *)
WithdrawalIsHonoured ==
  (~wanted \/ closed) ~> ((NoLiveRun /\ core = "down") \/ (wanted /\ ~closed))

(* Both: an operation returns, and what it asked for comes about.          *)
OperationsEnd == OperationsReturn /\ WithdrawalIsHonoured
=============================================================================

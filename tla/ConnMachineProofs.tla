------------------------- MODULE ConnMachineProofs -------------------------
(***************************************************************************)
(* Theorems about ConnMachine, for any callers, any run identities, any    *)
(* GiveUp and any number of calls.                                         *)
(*                                                                         *)
(* The argument: whoever is past opMu.Lock is the holder of opMu (LockInv);*)
(* a run is alive exactly as long as m.cancel names it or the holder waits *)
(* for it, so there is at most one (RunInv); therefore the holder is alone *)
(* once stopLoop has returned, and a plane that is not down always has its *)
(* run or a holder about to stop it (CoreInv). What the holder still has   *)
(* to do decides the intent (IntentInv) and the status (StatusInv).        *)
(***************************************************************************)
EXTENDS ConnMachine, FiniteSetTheorems, TLAPS

HoldPC == {"stopLoop", "wait", "stopping", "stopped", "starting", "undo",
           "rollback"}

AlonePC == {"stopping", "stopped", "starting", "undo", "rollback"}

ServingPC == {"up", "watch", "check", "recover", "rebuild"}

(* Past the Lock is holding opMu, and the other way round.                 *)
LockInv == \A c \in Callers : pc[c] \in HoldPC <=> opMu = c

(* A live run is the one m.cancel cancels, or the one being waited for.    *)
RunInv ==
  /\ \A r \in Runs : rpc[r] # "off" =>
       \/ cancel = r /\ ~ctxDone[r]
       \/ cancel = NoRun /\ ctxDone[r] /\ \E c \in Callers : pc[c] = "wait"
  /\ \A r \in Runs : cancel = r => rpc[r] # "off"
  /\ \A r1, r2 \in Runs : rpc[r1] # "off" /\ rpc[r2] # "off" => r1 = r2
  /\ \A c \in Callers : pc[c] = "wait" => cancel = NoRun
  /\ \A c \in Callers : pc[c] \in AlonePC =>
       cancel = NoRun /\ \A r \in Runs : rpc[r] = "off"

(* A plane that is not down has a run that serves it, or a holder that is  *)
(* about to stop it.                                                       *)
CoreInv ==
  /\ \A r \in Runs : rpc[r] \notin ServingPC \cup {"off"} => core = "down"
  /\ core = "down"
       \/ (\E r \in Runs : rpc[r] # "off")
       \/ (\E c \in Callers : pc[c] \in {"wait", "stopping"})
  /\ \A c \in Callers :
       pc[c] \in {"stopped", "starting", "undo", "rollback"} => core = "down"

(* What the operation under way means for the intent.                      *)
IntentInv ==
  /\ opMu = NoCaller => ((cancel # NoRun) <=> (wanted /\ ~closed))
  /\ \A c \in Callers : pc[c] \in HoldPC =>
       /\ op[c] # "none"
       /\ op[c] = "disconnect" => ~wanted
       /\ op[c] = "shutdown" => closed
       /\ op[c] = "restart" => wanted
       /\ op[c] = "checked" => wanted /\ ~closed
       /\ pc[c] \in {"starting", "undo", "rollback"} => op[c] = "checked"
       /\ op[c] = "restart" /\ closed =>
            /\ cancel = NoRun
            /\ snap.status = "disconnected"
            /\ pc[c] \in {"stopLoop", "stopped"}

(* What may be going on under a status, and how watch counts.              *)
StatusInv ==
  /\ opMu = NoCaller /\ cancel = NoRun => snap.status = "disconnected"
  /\ snap.status = "disconnected" =>
       /\ core = "down"
       /\ \A r \in Runs : rpc[r] \in {"off", "loop"}
       /\ \A c \in Callers : pc[c] \notin {"stopping", "starting", "undo"}
  /\ \A r \in Runs : rpc[r] \in {"watch", "check"} =>
       /\ snap.status \in {"connected", "degraded"}
       /\ fails[r] < GiveUp
       /\ fails[r] >= 2 => snap.status = "degraded"
  /\ \A r \in Runs : rpc[r] = "recover" =>
       fails[r] = GiveUp /\ tried[r] /\ snap.status = "degraded"

IInv == TypeOK /\ LockInv /\ RunInv /\ CoreInv /\ IntentInv /\ StatusInv

-----------------------------------------------------------------------------
(* Preservation of IInv, action by action; each conjunct is a step.        *)

(* Connect: a loop is there afterwards, unless the service is closed.      *)
LEMMA ConnectKeeps ==
  ASSUME IInv, NEW c \in Callers, Connect(c)
  PROVE  IInv'
<1> USE ConnAssumption DEF IInv, Connect, connect, Spawn, Call, callerVars,
       runVars
<1>1. TypeOK'
  <2>0. calls' \in 0..MaxCalls
    BY DEF TypeOK
  <2>4. rpc' \in [Runs -> RunPC] /\ ctxDone' \in [Runs -> BOOLEAN]
    BY DEF TypeOK, RunPC
  <2>5. wanted' \in BOOLEAN /\ cancel' \in Runs \cup {NoRun}
    BY DEF TypeOK
  <2> QED
    BY <2>0, <2>4, <2>5 DEF TypeOK
<1>2. LockInv'
  BY DEF TypeOK, LockInv, HoldPC, CallerPC
<1>3. RunInv'
  BY DEF TypeOK, RunInv, AlonePC, HoldPC, LockInv
<1>4. CoreInv'
  BY DEF TypeOK, CoreInv, ServingPC, RunInv, AlonePC, LockInv, HoldPC
<1>5. IntentInv'
  BY DEF TypeOK, IntentInv, HoldPC, LockInv, RunInv, AlonePC, StatusInv
<1>6. StatusInv'
  BY DEF TypeOK, StatusInv, RunInv, AlonePC, LockInv, HoldPC, CoreInv,
     ServingPC, IntentInv
<1> QED
  BY <1>1, <1>2, <1>3, <1>4, <1>5, <1>6

(* Disconnect takes opMu and withdraws the intent.                         *)
LEMMA DisconnectKeeps ==
  ASSUME IInv, NEW c \in Callers, Disconnect(c)
  PROVE  IInv'
<1> USE ConnAssumption DEF IInv, Disconnect, Begin, Call, Lock, callerVars,
       runVars
<1>1. TypeOK'
  <2>1. calls' \in 0..MaxCalls
    BY DEF TypeOK
  <2> QED
    BY <2>1 DEF TypeOK, CallerPC, Operation
<1>2. LockInv'
  BY DEF TypeOK, LockInv, HoldPC, CallerPC
<1>3. RunInv'
  BY DEF TypeOK, RunInv, AlonePC, HoldPC, LockInv
<1>4. CoreInv'
  BY DEF TypeOK, CoreInv, ServingPC, RunInv, AlonePC, LockInv, HoldPC
<1>5. IntentInv'
  BY DEF TypeOK, IntentInv, HoldPC, LockInv, RunInv, AlonePC, StatusInv
<1>6. StatusInv'
  BY DEF TypeOK, StatusInv, RunInv, AlonePC, LockInv, HoldPC, CoreInv,
     ServingPC, IntentInv
<1> QED
  BY <1>1, <1>2, <1>3, <1>4, <1>5, <1>6

(* Shutdown takes opMu and closes the machine.                             *)
LEMMA ShutdownKeeps ==
  ASSUME IInv, NEW c \in Callers, Shutdown(c)
  PROVE  IInv'
<1> USE ConnAssumption DEF IInv, Shutdown, Begin, Call, Lock, callerVars,
       runVars
<1>1. TypeOK'
  BY DEF TypeOK, CallerPC, Operation, RunPC, Status, StatusInv
<1>2. LockInv'
  BY DEF TypeOK, LockInv, HoldPC, CallerPC
<1>3. RunInv'
  BY DEF TypeOK, RunInv, AlonePC, HoldPC, LockInv
<1>4. CoreInv'
  BY DEF TypeOK, CoreInv, ServingPC, RunInv, AlonePC, LockInv, HoldPC
<1>5. IntentInv'
  BY DEF TypeOK, IntentInv, HoldPC, LockInv, RunInv, AlonePC, StatusInv
<1>6. StatusInv'
  BY DEF TypeOK, StatusInv, RunInv, AlonePC, LockInv, HoldPC, CoreInv,
     ServingPC, IntentInv
<1> QED
  BY <1>1, <1>2, <1>3, <1>4, <1>5, <1>6

(* A Restart begins to prepare, without opMu.                              *)
LEMMA RestartKeeps ==
  ASSUME IInv, NEW c \in Callers, NEW which \in {"restart", "checked"},
         Restart(c, which)
  PROVE  IInv'
<1> USE ConnAssumption DEF IInv, Restart, Begin, Call, callerVars, runVars
<1>1. TypeOK'
  BY DEF TypeOK, CallerPC, Operation, RunPC, Status, StatusInv
<1>2. LockInv'
  BY DEF TypeOK, LockInv, HoldPC, CallerPC
<1>3. RunInv'
  BY DEF TypeOK, RunInv, AlonePC, HoldPC, LockInv
<1>4. CoreInv'
  BY DEF TypeOK, CoreInv, ServingPC, RunInv, AlonePC, LockInv, HoldPC
<1>5. IntentInv'
  BY DEF TypeOK, IntentInv, HoldPC, LockInv, RunInv, AlonePC, StatusInv
<1>6. StatusInv'
  BY DEF TypeOK, StatusInv, RunInv, AlonePC, LockInv, HoldPC, CoreInv,
     ServingPC, IntentInv
<1> QED
  BY <1>1, <1>2, <1>3, <1>4, <1>5, <1>6

(* The steps of a caller that change no state but its own place.           *)
LEMMA CallerControlKeeps ==
  ASSUME IInv, NEW c \in Callers,
    \/ RestartPrepared(c) \/ RestartPrepareFailed(c) \/ RestartDropped(c)
    \/ NothingToStop(c) \/ CheckedStartFailed(c)
  PROVE  IInv'
<1> USE ConnAssumption DEF IInv, RestartPrepared, RestartPrepareFailed,
       RestartDropped, NothingToStop, CheckedStartFailed, Step, Return,
       callerVars, runVars
<1>1. TypeOK'
  BY DEF TypeOK, CallerPC, Operation, RunPC, Status, StatusInv
<1>2. LockInv'
  BY DEF TypeOK, LockInv, HoldPC, CallerPC
<1>3. RunInv'
  BY DEF TypeOK, RunInv, AlonePC, HoldPC, LockInv
<1>4. CoreInv'
  BY DEF TypeOK, CoreInv, ServingPC, RunInv, AlonePC, LockInv, HoldPC
<1>5. IntentInv'
  BY DEF TypeOK, IntentInv, HoldPC, LockInv, RunInv, AlonePC, StatusInv
<1>6. StatusInv'
  BY DEF TypeOK, StatusInv, RunInv, AlonePC, LockInv, HoldPC, CoreInv,
     ServingPC, IntentInv
<1> QED
  BY <1>1, <1>2, <1>3, <1>4, <1>5, <1>6

(* A Restart gets opMu and finds the intent still there.                   *)
LEMMA LockedKeeps ==
  ASSUME IInv, NEW c \in Callers,
    \/ RestartLocked(c) \/ CheckedLocked(c)
  PROVE  IInv'
<1> USE ConnAssumption DEF IInv, RestartLocked, CheckedLocked, Step, Lock,
       callerVars, runVars
<1>1. TypeOK'
  BY DEF TypeOK, CallerPC, Operation, RunPC, Status, StatusInv
<1>2. LockInv'
  BY DEF TypeOK, LockInv, HoldPC, CallerPC
<1>3. RunInv'
  BY DEF TypeOK, RunInv, AlonePC, HoldPC, LockInv
<1>4. CoreInv'
  BY DEF TypeOK, CoreInv, ServingPC, RunInv, AlonePC, LockInv, HoldPC
<1>5. IntentInv'
  BY DEF TypeOK, IntentInv, HoldPC, LockInv, RunInv, AlonePC, StatusInv
<1>6. StatusInv'
  BY DEF TypeOK, StatusInv, RunInv, AlonePC, LockInv, HoldPC, CoreInv,
     ServingPC, IntentInv
<1> QED
  BY <1>1, <1>2, <1>3, <1>4, <1>5, <1>6

(* stopLoop cancels the run and begins to wait for it.                     *)
LEMMA TakeCancelKeeps ==
  ASSUME IInv, NEW c \in Callers, TakeCancel(c)
  PROVE  IInv'
<1> USE ConnAssumption DEF IInv, TakeCancel, Step, callerVars, runVars
<1>1. TypeOK'
  BY DEF TypeOK, CallerPC, Operation, RunPC, Status, StatusInv
<1>2. LockInv'
  BY DEF TypeOK, LockInv, HoldPC, CallerPC
<1>3. RunInv'
  BY DEF TypeOK, RunInv, AlonePC, HoldPC, LockInv
<1>4. CoreInv'
  BY DEF TypeOK, CoreInv, ServingPC, RunInv, AlonePC, LockInv, HoldPC
<1>5. IntentInv'
  BY DEF TypeOK, IntentInv, HoldPC, LockInv, RunInv, AlonePC, StatusInv
<1>6. StatusInv'
  BY DEF TypeOK, StatusInv, RunInv, AlonePC, LockInv, HoldPC, CoreInv,
     ServingPC, IntentInv
<1> QED
  BY <1>1, <1>2, <1>3, <1>4, <1>5, <1>6

(* The run is gone; its plane is about to be stopped.                      *)
LEMMA WaitedKeeps ==
  ASSUME IInv, NEW c \in Callers, Waited(c)
  PROVE  IInv'
<1> USE ConnAssumption DEF IInv, Waited, Step, set, NoLiveRun, callerVars,
       runVars
<1>1. TypeOK'
  BY DEF TypeOK, CallerPC, Operation, RunPC, Status, StatusInv
<1>2. LockInv'
  BY DEF TypeOK, LockInv, HoldPC, CallerPC
<1>3. RunInv'
  BY DEF TypeOK, RunInv, AlonePC, HoldPC, LockInv
<1>4. CoreInv'
  BY DEF TypeOK, CoreInv, ServingPC, RunInv, AlonePC, LockInv, HoldPC
<1>5. IntentInv'
  BY DEF TypeOK, IntentInv, HoldPC, LockInv, RunInv, AlonePC, StatusInv
<1>6. StatusInv'
  BY DEF TypeOK, StatusInv, RunInv, AlonePC, LockInv, HoldPC, CoreInv,
     ServingPC, IntentInv
<1> QED
  BY <1>1, <1>2, <1>3, <1>4, <1>5, <1>6

(* A Stop called by the holder returns.                                    *)
LEMMA CallerStopKeeps ==
  ASSUME IInv, NEW c \in Callers,
    \/ StopReturned(c) \/ CheckedUndone(c)
  PROVE  IInv'
<1> USE ConnAssumption DEF IInv, StopReturned, CheckedUndone, Step,
       callerVars, runVars
<1>1. TypeOK'
  BY DEF TypeOK, CallerPC, Operation, RunPC, Status, StatusInv
<1>2. LockInv'
  BY DEF TypeOK, LockInv, HoldPC, CallerPC
<1>3. RunInv'
  BY DEF TypeOK, RunInv, AlonePC, HoldPC, LockInv
<1>4. CoreInv'
  BY DEF TypeOK, CoreInv, ServingPC, RunInv, AlonePC, LockInv, HoldPC
<1>5. IntentInv'
  BY DEF TypeOK, IntentInv, HoldPC, LockInv, RunInv, AlonePC, StatusInv
<1>6. StatusInv'
  BY DEF TypeOK, StatusInv, RunInv, AlonePC, LockInv, HoldPC, CoreInv,
     ServingPC, IntentInv
<1> QED
  BY <1>1, <1>2, <1>3, <1>4, <1>5, <1>6

(* Disconnect and Shutdown return.                                         *)
LEMMA DisconnectedKeeps ==
  ASSUME IInv, NEW c \in Callers, Disconnected(c)
  PROVE  IInv'
<1> USE ConnAssumption DEF IInv, Disconnected, Return, Unlock, set,
       callerVars, runVars
<1>1. TypeOK'
  BY DEF TypeOK, CallerPC, Operation, RunPC, Status, StatusInv
<1>2. LockInv'
  BY DEF TypeOK, LockInv, HoldPC, CallerPC
<1>3. RunInv'
  BY DEF TypeOK, RunInv, AlonePC, HoldPC, LockInv
<1>4. CoreInv'
  BY DEF TypeOK, CoreInv, ServingPC, RunInv, AlonePC, LockInv, HoldPC
<1>5. IntentInv'
  BY DEF TypeOK, IntentInv, HoldPC, LockInv, RunInv, AlonePC, StatusInv
<1>6. StatusInv'
  BY DEF TypeOK, StatusInv, RunInv, AlonePC, LockInv, HoldPC, CoreInv,
     ServingPC, IntentInv
<1> QED
  BY <1>1, <1>2, <1>3, <1>4, <1>5, <1>6

(* Restart starts its new run and returns.                                 *)
LEMMA RestartedKeeps ==
  ASSUME IInv, NEW c \in Callers, Restarted(c)
  PROVE  IInv'
<1> USE ConnAssumption DEF IInv, Restarted, Return, Unlock, connect, Spawn,
       callerVars, runVars
<1>1. TypeOK'
  BY DEF TypeOK, CallerPC, Operation, RunPC, Status, StatusInv
<1>2. LockInv'
  BY DEF TypeOK, LockInv, HoldPC, CallerPC
<1>3. RunInv'
  BY DEF TypeOK, RunInv, AlonePC, HoldPC, LockInv
<1>4. CoreInv'
  BY DEF TypeOK, CoreInv, ServingPC, RunInv, AlonePC, LockInv, HoldPC
<1>5. IntentInv'
  BY DEF TypeOK, IntentInv, HoldPC, LockInv, RunInv, AlonePC, StatusInv
<1>6. StatusInv'
  BY DEF TypeOK, StatusInv, RunInv, AlonePC, LockInv, HoldPC, CoreInv,
     ServingPC, IntentInv
<1> QED
  BY <1>1, <1>2, <1>3, <1>4, <1>5, <1>6

(* RestartChecked calls Start itself.                                      *)
LEMMA CheckedStartKeeps ==
  ASSUME IInv, NEW c \in Callers, CheckedStart(c)
  PROVE  IInv'
<1> USE ConnAssumption DEF IInv, CheckedStart, Step, set, callerVars,
       runVars
<1>1. TypeOK'
  BY DEF TypeOK, CallerPC, Operation, RunPC, Status, StatusInv
<1>2. LockInv'
  BY DEF TypeOK, LockInv, HoldPC, CallerPC
<1>3. RunInv'
  BY DEF TypeOK, RunInv, AlonePC, HoldPC, LockInv
<1>4. CoreInv'
  BY DEF TypeOK, CoreInv, ServingPC, RunInv, AlonePC, LockInv, HoldPC
<1>5. IntentInv'
  BY DEF TypeOK, IntentInv, HoldPC, LockInv, RunInv, AlonePC, StatusInv
<1>6. StatusInv'
  BY DEF TypeOK, StatusInv, RunInv, AlonePC, LockInv, HoldPC, CoreInv,
     ServingPC, IntentInv
<1> QED
  BY <1>1, <1>2, <1>3, <1>4, <1>5, <1>6

(* Its Start worked: the new run begins connected.                         *)
LEMMA CheckedStartedKeeps ==
  ASSUME IInv, NEW c \in Callers, CheckedStarted(c)
  PROVE  IInv'
<1> USE ConnAssumption DEF IInv, CheckedStarted, Return, Unlock, Spawn,
       callerVars, runVars
<1>1. TypeOK'
  BY DEF TypeOK, CallerPC, Operation, RunPC, Status, StatusInv
<1>2. LockInv'
  BY DEF TypeOK, LockInv, HoldPC, CallerPC
<1>3. RunInv'
  BY DEF TypeOK, RunInv, AlonePC, HoldPC, LockInv
<1>4. CoreInv'
  BY DEF TypeOK, CoreInv, ServingPC, RunInv, AlonePC, LockInv, HoldPC
<1>5. IntentInv'
  BY DEF TypeOK, IntentInv, HoldPC, LockInv, RunInv, AlonePC, StatusInv
<1>6. StatusInv'
  BY DEF TypeOK, StatusInv, RunInv, AlonePC, LockInv, HoldPC, CoreInv,
     ServingPC, IntentInv
<1> QED
  BY <1>1, <1>2, <1>3, <1>4, <1>5, <1>6

(* Its Start failed: a retrying run begins after the rollback.             *)
LEMMA CheckedRetryKeeps ==
  ASSUME IInv, NEW c \in Callers, CheckedRetry(c)
  PROVE  IInv'
<1> USE ConnAssumption DEF IInv, CheckedRetry, Return, Unlock, set, connect,
       Spawn, callerVars, runVars
<1>1. TypeOK'
  BY DEF TypeOK, CallerPC, Operation, RunPC, Status, StatusInv
<1>2. LockInv'
  BY DEF TypeOK, LockInv, HoldPC, CallerPC
<1>3. RunInv'
  BY DEF TypeOK, RunInv, AlonePC, HoldPC, LockInv
<1>4. CoreInv'
  BY DEF TypeOK, CoreInv, ServingPC, RunInv, AlonePC, LockInv, HoldPC
<1>5. IntentInv'
  BY DEF TypeOK, IntentInv, HoldPC, LockInv, RunInv, AlonePC, StatusInv
<1>6. StatusInv'
  BY DEF TypeOK, StatusInv, RunInv, AlonePC, LockInv, HoldPC, CoreInv,
     ServingPC, IntentInv
<1> QED
  BY <1>1, <1>2, <1>3, <1>4, <1>5, <1>6

(* The steps of a run that change no state but its own place.              *)
LEMMA RunControlKeeps ==
  ASSUME IInv, NEW r \in Runs,
    \/ PrepareOk(r) \/ PrepareFailed(r) \/ StartFailed(r) \/ CleanUp(r)
    \/ BackoffOver(r) \/ AliveTick(r) \/ HealthTick(r) \/ CheckCrash(r)
    \/ NotRecovered(r)
  PROVE  IInv'
<1> USE ConnAssumption DEF IInv, PrepareOk, PrepareFailed, StartFailed,
       CleanUp, BackoffOver, AliveTick, HealthTick, CheckCrash,
       NotRecovered, Pass, Move, callerVars, runVars
<1>1. TypeOK'
  BY DEF TypeOK, CallerPC, Operation, RunPC, Status, StatusInv
<1>2. LockInv'
  BY DEF TypeOK, LockInv, HoldPC, CallerPC
<1>3. RunInv'
  BY DEF TypeOK, RunInv, AlonePC, HoldPC, LockInv
<1>4. CoreInv'
  BY DEF TypeOK, CoreInv, ServingPC, RunInv, AlonePC, LockInv, HoldPC
<1>5. IntentInv'
  BY DEF TypeOK, IntentInv, HoldPC, LockInv, RunInv, AlonePC, StatusInv
<1>6. StatusInv'
  BY DEF TypeOK, StatusInv, RunInv, AlonePC, LockInv, HoldPC, CoreInv,
     ServingPC, IntentInv
<1> QED
  BY <1>1, <1>2, <1>3, <1>4, <1>5, <1>6

(* A cancelled run ends; its canceller is waiting.                         *)
LEMMA CancelledKeeps ==
  ASSUME IInv, NEW r \in Runs,
    \/ RunCancelled(r) \/ WatchCancelled(r)
  PROVE  IInv'
<1> USE ConnAssumption DEF IInv, RunCancelled, WatchCancelled, Exit,
       callerVars, runVars
<1>1. TypeOK'
  <2>1. fails' \in [Runs -> 0..GiveUp]
    BY DEF TypeOK
  <2>2. rpc' \in [Runs -> RunPC]
    BY DEF TypeOK, RunPC
  <2> QED
    BY <2>1, <2>2 DEF TypeOK
<1>2. LockInv'
  BY DEF TypeOK, LockInv, HoldPC, CallerPC
<1>3. RunInv'
  BY DEF TypeOK, RunInv, AlonePC, HoldPC, LockInv
<1>4. CoreInv'
  BY DEF TypeOK, CoreInv, ServingPC, RunInv, AlonePC, LockInv, HoldPC
<1>5. IntentInv'
  BY DEF TypeOK, IntentInv, HoldPC, LockInv, RunInv, AlonePC, StatusInv
<1>6. StatusInv'
  BY DEF TypeOK, StatusInv, RunInv, AlonePC, LockInv, HoldPC, CoreInv,
     ServingPC, IntentInv
<1> QED
  BY <1>1, <1>2, <1>3, <1>4, <1>5, <1>6

(* A run reports that it prepares or starts.                               *)
LEMMA RunReportsKeeps ==
  ASSUME IInv, NEW r \in Runs,
    \/ RunLoop(r) \/ RunStart(r)
  PROVE  IInv'
<1> USE ConnAssumption DEF IInv, RunLoop, RunStart, Move, set, callerVars,
       runVars
<1>1. TypeOK'
  <2>1. snap' \in [status : Status, wanted : BOOLEAN]
    BY DEF TypeOK, Status
  <2> QED
    BY <2>1 DEF TypeOK, RunPC
<1>2. LockInv'
  BY DEF TypeOK, LockInv, HoldPC, CallerPC
<1>3. RunInv'
  BY DEF TypeOK, RunInv, AlonePC, HoldPC, LockInv
<1>4. CoreInv'
  BY DEF TypeOK, CoreInv, ServingPC, RunInv, AlonePC, LockInv, HoldPC
<1>5. IntentInv'
  BY DEF TypeOK, IntentInv, HoldPC, LockInv, RunInv, AlonePC, StatusInv
<1>6. StatusInv'
  BY DEF TypeOK, StatusInv, RunInv, AlonePC, LockInv, HoldPC, CoreInv,
     ServingPC, IntentInv
<1> QED
  BY <1>1, <1>2, <1>3, <1>4, <1>5, <1>6

(* A run takes the configuration Restart has left, if any.                 *)
LEMMA TakePreKeeps ==
  ASSUME IInv, NEW r \in Runs, TakePre(r)
  PROVE  IInv'
<1> USE ConnAssumption DEF IInv, TakePre, Move, callerVars, runVars
<1>1. TypeOK'
  <2>1. rpc' \in [Runs -> RunPC]
    BY DEF TypeOK, RunPC
  <2> QED
    BY <2>1 DEF TypeOK
<1>2. LockInv'
  BY DEF TypeOK, LockInv, HoldPC, CallerPC
<1>3. RunInv'
  BY DEF TypeOK, RunInv, AlonePC, HoldPC, LockInv
<1>4. CoreInv'
  BY DEF TypeOK, CoreInv, ServingPC, RunInv, AlonePC, LockInv, HoldPC
<1>5. IntentInv'
  BY DEF TypeOK, IntentInv, HoldPC, LockInv, RunInv, AlonePC, StatusInv
<1>6. StatusInv'
  BY DEF TypeOK, StatusInv, RunInv, AlonePC, LockInv, HoldPC, CoreInv,
     ServingPC, IntentInv
<1> QED
  BY <1>1, <1>2, <1>3, <1>4, <1>5, <1>6

(* The plane is up.                                                        *)
LEMMA StartOkKeeps ==
  ASSUME IInv, NEW r \in Runs, StartOk(r)
  PROVE  IInv'
<1> USE ConnAssumption DEF IInv, StartOk, Move, callerVars, runVars
<1>1. TypeOK'
  BY DEF TypeOK, CallerPC, Operation, RunPC, Status, StatusInv
<1>2. LockInv'
  BY DEF TypeOK, LockInv, HoldPC, CallerPC
<1>3. RunInv'
  BY DEF TypeOK, RunInv, AlonePC, HoldPC, LockInv
<1>4. CoreInv'
  BY DEF TypeOK, CoreInv, ServingPC, RunInv, AlonePC, LockInv, HoldPC
<1>5. IntentInv'
  BY DEF TypeOK, IntentInv, HoldPC, LockInv, RunInv, AlonePC, StatusInv
<1>6. StatusInv'
  BY DEF TypeOK, StatusInv, RunInv, AlonePC, LockInv, HoldPC, CoreInv,
     ServingPC, IntentInv
<1> QED
  BY <1>1, <1>2, <1>3, <1>4, <1>5, <1>6

(* A Stop called by a run returns.                                         *)
LEMMA RunStoppedKeeps ==
  ASSUME IInv, NEW r \in Runs, RunStopped(r)
  PROVE  IInv'
<1> USE ConnAssumption DEF IInv, RunStopped, Move, set, callerVars, runVars
<1>1. TypeOK'
  BY DEF TypeOK, CallerPC, Operation, RunPC, Status, StatusInv
<1>2. LockInv'
  BY DEF TypeOK, LockInv, HoldPC, CallerPC
<1>3. RunInv'
  BY DEF TypeOK, RunInv, AlonePC, HoldPC, LockInv
<1>4. CoreInv'
  BY DEF TypeOK, CoreInv, ServingPC, RunInv, AlonePC, LockInv, HoldPC
<1>5. IntentInv'
  BY DEF TypeOK, IntentInv, HoldPC, LockInv, RunInv, AlonePC, StatusInv
<1>6. StatusInv'
  BY DEF TypeOK, StatusInv, RunInv, AlonePC, LockInv, HoldPC, CoreInv,
     ServingPC, IntentInv
<1> QED
  BY <1>1, <1>2, <1>3, <1>4, <1>5, <1>6

(* The run reports Connected and begins to watch.                          *)
LEMMA RunUpKeeps ==
  ASSUME IInv, NEW r \in Runs, RunUp(r)
  PROVE  IInv'
<1> USE ConnAssumption DEF IInv, RunUp, Move, set, callerVars, runVars
<1>1. TypeOK'
  BY DEF TypeOK, CallerPC, Operation, RunPC, Status, StatusInv
<1>2. LockInv'
  BY DEF TypeOK, LockInv, HoldPC, CallerPC
<1>3. RunInv'
  BY DEF TypeOK, RunInv, AlonePC, HoldPC, LockInv
<1>4. CoreInv'
  BY DEF TypeOK, CoreInv, ServingPC, RunInv, AlonePC, LockInv, HoldPC
<1>5. IntentInv'
  BY DEF TypeOK, IntentInv, HoldPC, LockInv, RunInv, AlonePC, StatusInv
<1>6. StatusInv'
  BY DEF TypeOK, StatusInv, RunInv, AlonePC, LockInv, HoldPC, CoreInv,
     ServingPC, IntentInv
<1> QED
  BY <1>1, <1>2, <1>3, <1>4, <1>5, <1>6

(* A kick starts a health check.                                           *)
LEMMA KickTakenKeeps ==
  ASSUME IInv, NEW r \in Runs, KickTaken(r)
  PROVE  IInv'
<1> USE ConnAssumption DEF IInv, KickTaken, Move, callerVars, runVars
<1>1. TypeOK'
  BY DEF TypeOK, CallerPC, Operation, RunPC, Status, StatusInv
<1>2. LockInv'
  BY DEF TypeOK, LockInv, HoldPC, CallerPC
<1>3. RunInv'
  BY DEF TypeOK, RunInv, AlonePC, HoldPC, LockInv
<1>4. CoreInv'
  BY DEF TypeOK, CoreInv, ServingPC, RunInv, AlonePC, LockInv, HoldPC
<1>5. IntentInv'
  BY DEF TypeOK, IntentInv, HoldPC, LockInv, RunInv, AlonePC, StatusInv
<1>6. StatusInv'
  BY DEF TypeOK, StatusInv, RunInv, AlonePC, LockInv, HoldPC, CoreInv,
     ServingPC, IntentInv
<1> QED
  BY <1>1, <1>2, <1>3, <1>4, <1>5, <1>6

(* A check that does not count as a failure of the node.                   *)
LEMMA CheckPassedKeeps ==
  ASSUME IInv, NEW r \in Runs,
    \/ CheckOk(r) \/ CheckPrivacy(r)
  PROVE  IInv'
<1> USE ConnAssumption DEF IInv, CheckOk, CheckPrivacy, Move, set,
       callerVars, runVars
<1>1. TypeOK'
  <2>1. snap' \in [status : Status, wanted : BOOLEAN]
    BY DEF TypeOK, Status
  <2>2. fails' \in [Runs -> 0..GiveUp]
    BY DEF TypeOK
  <2> QED
    BY <2>1, <2>2 DEF TypeOK, RunPC
<1>2. LockInv'
  BY DEF TypeOK, LockInv, HoldPC, CallerPC
<1>3. RunInv'
  BY DEF TypeOK, RunInv, AlonePC, HoldPC, LockInv
<1>4. CoreInv'
  BY DEF TypeOK, CoreInv, ServingPC, RunInv, AlonePC, LockInv, HoldPC
<1>5. IntentInv'
  BY DEF TypeOK, IntentInv, HoldPC, LockInv, RunInv, AlonePC, StatusInv
<1>6. StatusInv'
  BY DEF TypeOK, StatusInv, RunInv, AlonePC, LockInv, HoldPC, CoreInv,
     ServingPC, IntentInv
<1> QED
  BY <1>1, <1>2, <1>3, <1>4, <1>5, <1>6

(* A check that does.                                                      *)
LEMMA CheckBadKeeps ==
  ASSUME IInv, NEW r \in Runs, CheckBad(r)
  PROVE  IInv'
<1> USE ConnAssumption DEF IInv, CheckBad, NodeDown, Move, set, callerVars,
       runVars
<1>1. TypeOK'
  BY DEF TypeOK, CallerPC, Operation, RunPC, Status, StatusInv
<1>2. LockInv'
  BY DEF TypeOK, LockInv, HoldPC, CallerPC
<1>3. RunInv'
  BY DEF TypeOK, RunInv, AlonePC, HoldPC, LockInv
<1>4. CoreInv'
  BY DEF TypeOK, CoreInv, ServingPC, RunInv, AlonePC, LockInv, HoldPC
<1>5. IntentInv'
  BY DEF TypeOK, IntentInv, HoldPC, LockInv, RunInv, AlonePC, StatusInv
<1>6. StatusInv'
  <2> DEFINE n == fails[r] + 1
  <2>1. /\ rpc[r] = "check"
        /\ fails[r] \in 0..GiveUp /\ fails[r] < GiveUp
        /\ snap.status \in {"connected", "degraded"}
        /\ fails[r] >= 2 => snap.status = "degraded"
    BY DEF TypeOK, StatusInv
  <2>2. \A q \in Runs : q # r => rpc'[q] = "off"
    BY <2>1 DEF TypeOK, RunInv
  <2>3. snap'.status = IF n >= 2 THEN "degraded" ELSE snap.status
    BY <2>1 DEF TypeOK
  <2>4. fails'[r] = n /\ n \in 1..GiveUp
    BY <2>1 DEF TypeOK
  <2>5. n < GiveUp => rpc'[r] = "watch"
    BY <2>1 DEF TypeOK
  <2>6. ~(n < GiveUp) => 
          /\ rpc'[r] \in {"rebuild", "recover"}
          /\ tried'[r]
          /\ n = GiveUp
    <3>1. ~(n < GiveUp) => rpc'[r] \in {"rebuild", "recover"}
      BY <2>1 DEF TypeOK
    <3>2. ~(n < GiveUp) => n >= GiveUp /\ n = GiveUp
      BY <2>4
    <3>3. n >= GiveUp => tried'[r]
      BY DEF TypeOK
    <3> QED
      BY <3>1, <3>2, <3>3
  <2>7. /\ snap'.status # "disconnected"
        /\ snap'.status \in {"connected", "degraded"}
    BY <2>1, <2>3
  <2>8. cancel' = cancel /\ opMu' = opMu /\ core' = core
    OBVIOUS
  <2>9. ~(opMu' = NoCaller /\ cancel' = NoRun)
    BY <2>1, <2>8 DEF TypeOK, RunInv, LockInv, HoldPC
  <2> QED
    BY <2>2, <2>3, <2>4, <2>5, <2>6, <2>7, <2>9 DEF StatusInv
<1> QED
  BY <1>1, <1>2, <1>3, <1>4, <1>5, <1>6

(* Recover helped.                                                         *)
LEMMA RecoveredKeeps ==
  ASSUME IInv, NEW r \in Runs, Recovered(r)
  PROVE  IInv'
<1> USE ConnAssumption DEF IInv, Recovered, Move, callerVars, runVars
<1>1. TypeOK'
  BY DEF TypeOK, CallerPC, Operation, RunPC, Status, StatusInv
<1>2. LockInv'
  BY DEF TypeOK, LockInv, HoldPC, CallerPC
<1>3. RunInv'
  BY DEF TypeOK, RunInv, AlonePC, HoldPC, LockInv
<1>4. CoreInv'
  BY DEF TypeOK, CoreInv, ServingPC, RunInv, AlonePC, LockInv, HoldPC
<1>5. IntentInv'
  BY DEF TypeOK, IntentInv, HoldPC, LockInv, RunInv, AlonePC, StatusInv
<1>6. StatusInv'
  BY DEF TypeOK, StatusInv, RunInv, AlonePC, LockInv, HoldPC, CoreInv,
     ServingPC, IntentInv
<1> QED
  BY <1>1, <1>2, <1>3, <1>4, <1>5, <1>6

(* A kick from outside changes nothing the invariant speaks of.            *)
LEMMA CheckNowKeeps ==
  ASSUME IInv, CheckNow
  PROVE  IInv'
BY DEF IInv, CheckNow, TypeOK, LockInv, RunInv, CoreInv, IntentInv, StatusInv,
       callerVars, runVars

(* A core that dies was up, so a run or a stopping holder is there.        *)
LEMMA CoreDiesKeeps ==
  ASSUME IInv, CoreDies
  PROVE  IInv'
BY DEF IInv, CoreDies, TypeOK, LockInv, RunInv, CoreInv, IntentInv, StatusInv,
       callerVars, runVars

-----------------------------------------------------------------------------
(* The invariant *)

(* The invariant holds at first, when New has built an idle machine.       *)
LEMMA InitIInv == Init => IInv
<1> SUFFICES ASSUME Init
             PROVE  IInv
  OBVIOUS
<1> USE ConnAssumption DEF Init
<1>1. TypeOK
  <2>1. /\ snap \in [status : Status, wanted : BOOLEAN]
        /\ opMu \in Callers \cup {NoCaller}
        /\ cancel \in Runs \cup {NoRun}
    BY DEF Status
  <2>2. /\ pc \in [Callers -> CallerPC]
        /\ op \in [Callers -> Operation]
    BY DEF CallerPC, Operation
  <2>3. /\ rpc \in [Runs -> RunPC]
        /\ ctxDone \in [Runs -> BOOLEAN]
        /\ tried \in [Runs -> BOOLEAN]
    BY DEF RunPC
  <2>4. 0 \in 0..GiveUp /\ 0 \in 0..MaxCalls
    OBVIOUS
  <2>5. fails \in [Runs -> 0..GiveUp] /\ calls \in 0..MaxCalls
    BY <2>4
  <2> QED
    BY <2>1, <2>2, <2>3, <2>5 DEF TypeOK
<1>2. LockInv
  BY DEF LockInv, HoldPC
<1>3. RunInv
  BY DEF RunInv, AlonePC
<1>4. CoreInv
  BY DEF CoreInv, ServingPC
<1>5. IntentInv
  BY DEF IntentInv, HoldPC
<1>6. StatusInv
  BY DEF StatusInv
<1> QED
  BY <1>1, <1>2, <1>3, <1>4, <1>5, <1>6 DEF IInv

(* Every step of a caller, a run or the world preserves the invariant.     *)
LEMMA NextIInv == IInv /\ [Next]_vars => IInv'
<1> SUFFICES ASSUME IInv, [Next]_vars
             PROVE  IInv'
  OBVIOUS
<1>1. ASSUME NEW c \in Callers, NewCall(c)
      PROVE  IInv'
  BY <1>1, ConnectKeeps, DisconnectKeeps, ShutdownKeeps, RestartKeeps
     DEF NewCall
<1>2. ASSUME NEW c \in Callers, CallerStep(c)
      PROVE  IInv'
  BY <1>2, CallerControlKeeps, LockedKeeps, TakeCancelKeeps, WaitedKeeps,
     CallerStopKeeps, DisconnectedKeeps, RestartedKeeps, CheckedStartKeeps,
     CheckedStartedKeeps, CheckedRetryKeeps
     DEF CallerStep
<1>3. ASSUME NEW r \in Runs, RunStep(r)
      PROVE  IInv'
  BY <1>3, RunControlKeeps, CancelledKeeps, RunReportsKeeps, TakePreKeeps,
     StartOkKeeps, RunStoppedKeeps, RunUpKeeps, KickTakenKeeps,
     CheckPassedKeeps, CheckBadKeeps, RecoveredKeeps
     DEF RunStep
<1>4. CASE UNCHANGED vars
  BY <1>4 DEF vars, callerVars, runVars, IInv, TypeOK, LockInv, RunInv,
     CoreInv, IntentInv, StatusInv
<1> QED
  BY <1>1, <1>2, <1>3, <1>4, CheckNowKeeps, CoreDiesKeeps DEF Next

(* The inductive invariant holds in every reachable state.                 *)
THEOREM Invariance == Spec => []IInv
BY InitIInv, NextIInv, PTL DEF Spec

(* Every variable keeps its type, the count of failed checks its bound.    *)
THEOREM TypeCorrect == Spec => []TypeOK
BY Invariance, PTL DEF IInv

-----------------------------------------------------------------------------
(* The safety properties *)

(* At most one goroutine is ever inside Start or Stop of the data plane,   *)
(* at most one run is alive, and a Start never finds a plane that is up.   *)
THEOREM OneActor == Spec => []PlaneHasOneActor
<1>1. IInv => PlaneHasOneActor
  <2> SUFFICES ASSUME IInv
               PROVE  PlaneHasOneActor
    OBVIOUS
  <2> DEFINE Busy == InStart \cup InStop
  <2>1. \A r1, r2 \in Runs : rpc[r1] # "off" /\ rpc[r2] # "off" => r1 = r2
    BY DEF IInv, RunInv
  <2>2. \A c1, c2 \in Callers :
          pc[c1] \in AlonePC /\ pc[c2] \in AlonePC => c1 = c2
    BY DEF IInv, LockInv, AlonePC, HoldPC
  <2>3. \A c \in Callers, r \in Runs :
          pc[c] \in AlonePC => rpc[r] = "off"
    BY DEF IInv, RunInv
  <2>4. \A x, y \in Busy : x = y
    BY <2>1, <2>2, <2>3 DEF InStart, InStop, AlonePC
  <2>5. Busy = {} \/ \E x : Busy = {x}
    BY <2>4
  <2>6. Cardinality(Busy) <= 1
    <3>1. CASE Busy = {}
      BY <3>1, FS_EmptySet
    <3>2. ASSUME NEW x, Busy = {x}
          PROVE  Cardinality(Busy) = 1
      BY <3>2, FS_Singleton
    <3> QED
      BY <2>5, <3>1, <3>2
  <2>7. InStart # {} => core = "down"
    BY DEF IInv, CoreInv, InStart, ServingPC
  <2> QED
    BY <2>1, <2>6, <2>7 DEF PlaneHasOneActor
<1> QED
  BY <1>1, Invariance, PTL

(* The loop runs exactly when it is wanted, whenever opMu is free.         *)
THEOREM IntentFollowed == Spec => []LoopMatchesIntent
<1>1. IInv => LoopMatchesIntent
  BY DEF IInv, IntentInv, LoopMatchesIntent
<1> QED
  BY <1>1, Invariance, PTL

(* A Disconnect or a Shutdown that has returned leaves nothing behind.     *)
THEOREM Quiet == Spec => []QuietWhenStopped
<1>1. IInv => QuietWhenStopped
  BY ConnAssumption DEF IInv, TypeOK, RunInv, CoreInv, StatusInv, LockInv,
     HoldPC, QuietWhenStopped, NoLiveRun
<1> QED
  BY <1>1, Invariance, PTL

(* "disconnected" is never shown over a plane that is up or changing.      *)
THEOREM StatusHonest == Spec => []DisconnectedMeansDown
<1>1. IInv => DisconnectedMeansDown
  BY DEF IInv, StatusInv, DisconnectedMeansDown, InStart, InStop
<1> QED
  BY <1>1, Invariance, PTL

(* Two failed checks in a row are shown as long as watch waits.            *)
THEOREM Degraded == Spec => []DegradedIsShown
<1>1. IInv => DegradedIsShown
  BY DEF IInv, StatusInv, DegradedIsShown
<1> QED
  BY <1>1, Invariance, PTL

(* The status is honest, in all three respects.                            *)
THEOREM StatusAlwaysHonest == Spec => []StatusIsHonest
<1>1. QuietWhenStopped /\ DisconnectedMeansDown /\ DegradedIsShown
      => StatusIsHonest
  BY DEF StatusIsHonest
<1> QED
  BY <1>1, Quiet, StatusHonest, Degraded, PTL

-----------------------------------------------------------------------------
(* The action properties *)

(* Only a new call makes wanted TRUE: no Restart under way does.           *)
THEOREM IntentNotRevived == Spec => NoRevival
<1>1. IInv /\ [Next]_vars => [~wanted /\ wanted' => calls' = calls + 1]_vars
  <2> SUFFICES ASSUME IInv, Next, ~wanted, wanted'
               PROVE  calls' = calls + 1
    OBVIOUS
  <2>1. ASSUME NEW c \in Callers, NewCall(c)
        PROVE  calls' = calls + 1
    BY <2>1 DEF NewCall, Connect, Disconnect, Shutdown, Restart, Begin, Call
  <2>2. ASSUME NEW c \in Callers, CallerStep(c)
        PROVE  FALSE
    BY <2>2 DEF CallerStep, RestartPrepared, RestartPrepareFailed,
       RestartDropped, RestartLocked, CheckedLocked, NothingToStop, TakeCancel,
       Waited, StopReturned, Disconnected, Restarted, CheckedStart,
       CheckedStarted, CheckedStartFailed, CheckedUndone, CheckedRetry, Step,
       Return, IInv, IntentInv, HoldPC
  <2>3. ASSUME NEW r \in Runs, RunStep(r)
        PROVE  FALSE
    BY <2>3 DEF RunStep, RunCancelled, RunLoop, TakePre, PrepareOk,
       PrepareFailed, RunStart, StartOk, StartFailed, CleanUp, RunStopped,
       BackoffOver, RunUp, WatchCancelled, AliveTick, HealthTick, KickTaken,
       CheckOk, CheckCrash, CheckPrivacy, CheckBad, NodeDown, Recovered,
       NotRecovered, Pass, Move, Exit
  <2> QED
    BY <2>1, <2>2, <2>3 DEF Next, CheckNow, CoreDies
<1> QED
  BY <1>1, Invariance, PTL DEF Spec, NoRevival

(* Privacy failures never tear a tunnel down, and node failures only at    *)
(* the end of the ladder.                                                  *)
THEOREM TeardownJustified == Spec => TeardownIsJustified
<1> DEFINE Justified ==
      \A r \in Runs :
        rpc[r] # "rebuild" /\ rpc'[r] = "rebuild" =>
          core = "dead" \/ (fails'[r] >= GiveUp /\ tried'[r])
<1>1. IInv /\ [Next]_vars => [Justified]_vars
  <2> SUFFICES ASSUME IInv, Next, NEW r \in Runs,
                      rpc[r] # "rebuild", rpc'[r] = "rebuild"
               PROVE  core = "dead" \/ (fails'[r] >= GiveUp /\ tried'[r])
    OBVIOUS
  <2> USE ConnAssumption DEF IInv, TypeOK
  <2>1. ASSUME NEW c \in Callers, NewCall(c) \/ CallerStep(c)
        PROVE  FALSE
    BY <2>1 DEF NewCall, Connect, Disconnect, Shutdown, Restart, Begin,
       CallerStep, RestartPrepared, RestartPrepareFailed,
       RestartDropped, RestartLocked, CheckedLocked, NothingToStop, TakeCancel,
       Waited, StopReturned, Disconnected, Restarted, CheckedStart,
       CheckedStarted, CheckedStartFailed, CheckedUndone, CheckedRetry,
       connect, Spawn, runVars
  <2>2. ASSUME NEW q \in Runs, RunStep(q)
        PROVE  core = "dead" \/ (fails'[r] >= GiveUp /\ tried'[r])
    <3>1. CASE AliveTick(q) \/ CheckCrash(q)
      BY <3>1 DEF AliveTick, CheckCrash
    <3>2. CASE NotRecovered(q)
      BY <3>2 DEF NotRecovered, Pass, Move, StatusInv
    <3>3. CASE CheckBad(q)
      BY <3>3 DEF CheckBad, NodeDown, Move, StatusInv
    <3> QED
      BY <2>2, <3>1, <3>2, <3>3 DEF RunStep, RunCancelled, RunLoop, TakePre,
         PrepareOk, PrepareFailed, RunStart, StartOk, StartFailed, CleanUp,
         RunStopped, BackoffOver, RunUp, WatchCancelled, HealthTick, KickTaken,
         CheckOk, CheckPrivacy, Recovered, Pass, Move, Exit
  <2> QED
    BY <2>1, <2>2 DEF Next, CheckNow, CoreDies, runVars
<1> QED
  BY <1>1, Invariance, PTL DEF Spec, TeardownIsJustified

(* A kick over a plane that is up is taken by a health check only.         *)
THEOREM KickKept == Spec => KickIsKept
<1> DEFINE Kept ==
      kick /\ ~kick' /\ core # "down" =>
        \E r \in Runs : rpc[r] = "watch" /\ rpc'[r] = "check"
<1>1. IInv /\ [Next]_vars => [Kept]_vars
  <2> SUFFICES ASSUME IInv, Next, kick, ~kick', core # "down"
               PROVE  \E r \in Runs : rpc[r] = "watch" /\ rpc'[r] = "check"
    OBVIOUS
  <2>1. ASSUME NEW c \in Callers, NewCall(c) \/ CallerStep(c)
        PROVE  FALSE
    BY <2>1 DEF NewCall, Connect, Disconnect, Shutdown, Restart, Begin,
       CallerStep, RestartPrepared, RestartPrepareFailed,
       RestartDropped, RestartLocked, CheckedLocked, NothingToStop, TakeCancel,
       Waited, StopReturned, Disconnected, Restarted, CheckedStart,
       CheckedStarted, CheckedStartFailed, CheckedUndone, CheckedRetry, Step,
       IInv, CoreInv
  <2>2. ASSUME NEW r \in Runs, RunStep(r)
        PROVE  rpc[r] = "watch" /\ rpc'[r] = "check"
    BY <2>2 DEF RunStep, RunCancelled, RunLoop, TakePre, PrepareOk,
       PrepareFailed, RunStart, StartOk, StartFailed, CleanUp, RunStopped,
       BackoffOver, RunUp, WatchCancelled, AliveTick, HealthTick, KickTaken,
       CheckOk, CheckCrash, CheckPrivacy, CheckBad, NodeDown, Recovered,
       NotRecovered, Pass, Move, Exit, IInv, TypeOK, CoreInv, ServingPC
  <2> QED
    BY <2>1, <2>2 DEF Next, CheckNow, CoreDies
<1> QED
  BY <1>1, Invariance, PTL DEF Spec, KickIsKept

(* No intent is revived and no request for a check is lost.                *)
THEOREM RequestsAlwaysKept == Spec => RequestsAreKept
BY IntentNotRevived, KickKept DEF RequestsAreKept

-----------------------------------------------------------------------------
(* The refinement of ConnPromise *)

InStartCall ==
  \/ \E c \in Callers : pc[c] = "starting"
  \/ \E r \in Runs : rpc[r] = "starting"

InStopCall ==
  \/ \E c \in Callers : pc[c] \in {"stopping", "undo"}
  \/ \E r \in Runs : rpc[r] \in {"failStop", "rebuild"}

EngagedPC == {"wait", "stopping", "starting", "undo"}

(* The plane without set constructors, which the provers handle better.    *)
LEMMA PlaneIs ==
  plane = IF InStartCall THEN "starting"
          ELSE IF InStopCall THEN "stopping"
          ELSE IF core = "down" THEN "down" ELSE "up"
<1>1. InStart # {} <=> InStartCall
  BY DEF InStart, InStartCall
<1>2. InStop # {} <=> InStopCall
  BY DEF InStop, InStopCall
<1> QED
  BY <1>1, <1>2 DEF plane

(* The same after a step.                                                  *)
LEMMA PlaneIsNext ==
  plane' = IF InStartCall' THEN "starting"
           ELSE IF InStopCall' THEN "stopping"
           ELSE IF core' = "down" THEN "down" ELSE "up"
<1>1. InStart' # {} <=> InStartCall'
  BY DEF InStart, InStartCall
<1>2. InStop' # {} <=> InStopCall'
  BY DEF InStop, InStopCall
<1> QED
  BY <1>1, <1>2 DEF plane

(* What the place of a run says about the plane.                           *)
RunPlane(at, state) ==
  IF at = "starting" THEN "starting"
  ELSE IF at \in {"failStop", "rebuild"} THEN "stopping"
  ELSE IF state = "down" THEN "down" ELSE "up"

(* What the place of a holder that is alone says about it.                 *)
HolderPlane(at, state) ==
  IF at = "starting" THEN "starting"
  ELSE IF at \in {"stopping", "undo"} THEN "stopping"
  ELSE IF state = "down" THEN "down" ELSE "up"

(* A run that moves on is alone with the plane, before and after.          *)
LEMMA RunMoves ==
  ASSUME IInv, NEW r \in Runs, NEW from \in RunPC, NEW to \in RunPC,
         Move(r, from, to), from # "off", to # "off"
  PROVE  /\ plane = RunPlane(from, core) /\ plane' = RunPlane(to, core')
         /\ engaged /\ engaged'
         /\ UNCHANGED <<wanted, closed>>
<1>1. /\ rpc[r] = from /\ rpc'[r] = to
      /\ \A q \in Runs : q # r => rpc'[q] = rpc[q]
      /\ pc' = pc /\ cancel' = cancel
      /\ UNCHANGED <<wanted, closed>>
  BY DEF Move, IInv, TypeOK, callerVars
<1>2. \A q \in Runs : q # r => rpc[q] = "off"
  BY <1>1 DEF IInv, RunInv
<1>3. \A c \in Callers : pc[c] \notin AlonePC
  BY <1>1 DEF IInv, RunInv
<1>4. /\ InStartCall <=> from = "starting"
      /\ InStopCall <=> from \in {"failStop", "rebuild"}
  BY <1>1, <1>2, <1>3 DEF InStartCall, InStopCall, AlonePC
<1>5. /\ InStartCall' <=> to = "starting"
      /\ InStopCall' <=> to \in {"failStop", "rebuild"}
  BY <1>1, <1>2, <1>3 DEF InStartCall, InStopCall, AlonePC
<1>6. engaged /\ engaged'
  BY <1>1, ConnAssumption DEF IInv, RunInv, engaged
<1> QED
  BY <1>1, <1>4, <1>5, <1>6, PlaneIs, PlaneIsNext DEF RunPlane

(* A holder that moves on after wg.Wait is alone with the plane.           *)
LEMMA HolderMoves ==
  ASSUME IInv, NEW c \in Callers, NEW from \in AlonePC, NEW to \in AlonePC,
         pc[c] = from, pc' = [pc EXCEPT ![c] = to], UNCHANGED <<rpc, cancel>>
  PROVE  /\ plane = HolderPlane(from, core)
         /\ plane' = HolderPlane(to, core')
         /\ engaged <=> from \in EngagedPC
         /\ engaged' <=> to \in EngagedPC
<1>1. /\ pc'[c] = to
      /\ \A d \in Callers : d # c => pc'[d] = pc[d]
  BY DEF IInv, TypeOK
<1>2. \A d \in Callers : d # c => pc[d] \notin HoldPC
  BY DEF IInv, LockInv, HoldPC, AlonePC
<1>3. cancel = NoRun /\ \A r \in Runs : rpc[r] = "off"
  BY DEF IInv, RunInv
<1>4. /\ InStartCall <=> from = "starting"
      /\ InStopCall <=> from \in {"stopping", "undo"}
  BY <1>2, <1>3 DEF InStartCall, InStopCall, HoldPC
<1>5. /\ InStartCall' <=> to = "starting"
      /\ InStopCall' <=> to \in {"stopping", "undo"}
  BY <1>1, <1>2, <1>3 DEF InStartCall, InStopCall, HoldPC
<1>6. (engaged <=> from \in EngagedPC) /\ (engaged' <=> to \in EngagedPC)
  BY <1>1, <1>2, <1>3 DEF engaged, EngagedPC, HoldPC
<1> QED
  BY <1>4, <1>5, <1>6, PlaneIs, PlaneIsNext DEF HolderPlane

(* A caller that is not near the plane leaves it alone.                    *)
LEMMA CallerPasses ==
  ASSUME IInv, NEW c \in Callers, NEW to,
         pc[c] \notin EngagedPC, to \notin EngagedPC,
         pc' = [pc EXCEPT ![c] = to], UNCHANGED <<rpc, cancel, core>>
  PROVE  plane' = plane /\ engaged' = engaged
<1>1. /\ pc'[c] = to
      /\ \A d \in Callers : d # c => pc'[d] = pc[d]
  BY DEF IInv, TypeOK
<1>2. (InStartCall' <=> InStartCall) /\ (InStopCall' <=> InStopCall)
  BY <1>1 DEF InStartCall, InStopCall, EngagedPC
<1>3. engaged' <=> engaged
  BY <1>1 DEF engaged, EngagedPC
<1>4. engaged' = engaged
  BY <1>3 DEF engaged
<1> QED
  BY <1>2, <1>4, PlaneIs, PlaneIsNext

Stutter == UNCHANGED <<wanted, closed, engaged, plane>>

(* connect, run by a holder (or by Connect, which holds opMu for one step) *)
(* when nobody is near the plane.                                          *)
LEMMA ConnectMaps ==
  ASSUME IInv, NEW c \in Callers, connect, UNCHANGED <<closed, core>>,
         pc' = [pc EXCEPT ![c] = "idle"],
         opMu = NoCaller \/ pc[c] \in {"stopped", "rollback"}
  PROVE  Promise!Connect \/ Stutter
<1>1. /\ pc'[c] = "idle"
      /\ \A d \in Callers : d # c => pc'[d] = pc[d]
  BY DEF IInv, TypeOK
<1>2. \A d \in Callers : pc[d] \notin EngagedPC /\ pc'[d] \notin EngagedPC
  BY <1>1, ConnAssumption DEF IInv, TypeOK, LockInv, HoldPC, EngagedPC
<1>3. \A r \in Runs :
        /\ rpc'[r] = "starting" <=> rpc[r] = "starting"
        /\ rpc'[r] \in {"failStop", "rebuild"}
             <=> rpc[r] \in {"failStop", "rebuild"}
  BY DEF connect, Spawn, runVars, IInv, TypeOK
<1>4. (InStartCall' <=> InStartCall) /\ (InStopCall' <=> InStopCall)
  BY <1>2, <1>3 DEF InStartCall, InStopCall, EngagedPC
<1>5. plane' = plane
  BY <1>4, PlaneIs, PlaneIsNext
<1>6. (engaged <=> cancel # NoRun) /\ (engaged' <=> cancel' # NoRun)
  BY <1>2 DEF engaged, EngagedPC
<1>7. CASE closed
  <2>1. wanted' = wanted /\ cancel' = cancel
    BY <1>7 DEF connect
  <2>2. engaged' = engaged
    BY <1>6, <2>1 DEF engaged
  <2> QED
    BY <1>5, <2>1, <2>2 DEF Stutter
<1>8. CASE ~closed
  <2>1. wanted' = TRUE /\ cancel' # NoRun
    BY <1>8, ConnAssumption DEF connect, Spawn
  <2>2. engaged' = TRUE
    BY <1>6, <2>1 DEF engaged
  <2> QED
    BY <1>5, <1>8, <2>1, <2>2 DEF Promise!Connect
<1> QED
  BY <1>7, <1>8

(* The calls that begin an operation.                                      *)
LEMMA NewCallMaps ==
  ASSUME IInv, NEW c \in Callers, NewCall(c)
  PROVE  Promise!Connect \/ Promise!Withdraw \/ Promise!Close \/ Stutter
<1>1. CASE Connect(c)
  <2>1. pc' = [pc EXCEPT ![c] = "idle"]
    BY <1>1 DEF Connect, Call, IInv, TypeOK
  <2> QED
    BY <1>1, <2>1, ConnectMaps DEF Connect
<1>2. ASSUME NEW which, NEW at \in {"prepare", "stopLoop"},
             Begin(c, which, at)
      PROVE  plane' = plane /\ engaged' = engaged
  <2>1. pc[c] \notin EngagedPC /\ at \notin EngagedPC
    BY <1>2 DEF Begin, Call, EngagedPC
  <2> QED
    BY <1>2, <2>1, CallerPasses DEF Begin, runVars
<1>3. CASE Disconnect(c)
  BY <1>2, <1>3 DEF Disconnect, Promise!Withdraw
<1>4. CASE Shutdown(c)
  BY <1>2, <1>4 DEF Shutdown, Promise!Close
<1>5. ASSUME NEW which, Restart(c, which)
      PROVE  Stutter
  BY <1>2, <1>5 DEF Restart, Stutter
<1> QED
  BY <1>1, <1>3, <1>4, <1>5 DEF NewCall

(* The steps of a caller before wg.Wait returns, and its return.           *)
LEMMA CallerPassesMaps ==
  ASSUME IInv, NEW c \in Callers,
         \/ RestartPrepared(c) \/ RestartPrepareFailed(c) \/ RestartDropped(c)
         \/ RestartLocked(c) \/ CheckedLocked(c) \/ NothingToStop(c)
         \/ Disconnected(c)
  PROVE  Stutter
<1> USE DEF RestartPrepared, RestartPrepareFailed, RestartDropped,
       RestartLocked, CheckedLocked, NothingToStop, Disconnected, Step, Return,
       runVars
<1>1. PICK to \in {"lock", "idle", "stopLoop", "stopped"} :
        pc' = [pc EXCEPT ![c] = to]
  OBVIOUS
<1>2. pc[c] \notin EngagedPC /\ to \notin EngagedPC
  BY DEF EngagedPC
<1>3. UNCHANGED <<wanted, closed, rpc, cancel, core>>
  OBVIOUS
<1> QED
  BY <1>1, <1>2, <1>3, CallerPasses DEF Stutter

(* stopLoop takes m.cancel: the machine stays engaged, by waiting.         *)
LEMMA TakeCancelMaps ==
  ASSUME IInv, NEW c \in Callers, TakeCancel(c)
  PROVE  Stutter
<1>1. /\ pc[c] = "stopLoop" /\ pc'[c] = "wait"
      /\ \A d \in Callers : d # c => pc'[d] = pc[d]
      /\ UNCHANGED <<wanted, closed, rpc, core>>
      /\ cancel # NoRun
  BY DEF TakeCancel, Step, IInv, TypeOK
<1>2. (InStartCall' <=> InStartCall) /\ (InStopCall' <=> InStopCall)
  BY <1>1 DEF InStartCall, InStopCall
<1>3. engaged /\ engaged'
  BY <1>1 DEF engaged
<1>4. engaged' = engaged
  BY <1>3 DEF engaged
<1> QED
  BY <1>1, <1>2, <1>4, PlaneIs, PlaneIsNext DEF Stutter

(* The run is gone: Stop is called on a plane that is down or up.          *)
LEMMA WaitedMaps ==
  ASSUME IInv, NEW c \in Callers, Waited(c)
  PROVE  Promise!BeginStop
<1>1. /\ pc[c] = "wait" /\ pc'[c] = "stopping"
      /\ \A d \in Callers : d # c => pc'[d] = pc[d]
      /\ UNCHANGED <<wanted, closed, rpc, core>>
      /\ \A r \in Runs : rpc[r] = "off"
  BY DEF Waited, Step, NoLiveRun, runVars, IInv, TypeOK
<1>2. \A d \in Callers : d # c => pc[d] \notin HoldPC
  BY <1>1 DEF IInv, LockInv, HoldPC
<1>3. ~InStartCall /\ ~InStopCall
  BY <1>1, <1>2 DEF InStartCall, InStopCall, HoldPC
<1>4. ~InStartCall' /\ InStopCall'
  BY <1>1, <1>2 DEF InStartCall, InStopCall, HoldPC
<1>5. engaged /\ engaged'
  BY <1>1 DEF engaged
<1>6. engaged' = engaged
  BY <1>5 DEF engaged
<1> QED
  BY <1>1, <1>3, <1>4, <1>5, <1>6, PlaneIs, PlaneIsNext DEF Promise!BeginStop

(* The steps of a holder that is alone with the plane.                     *)
LEMMA HolderMaps ==
  ASSUME IInv, NEW c \in Callers,
         \/ StopReturned(c) \/ CheckedStart(c) \/ CheckedStartFailed(c)
         \/ CheckedUndone(c)
  PROVE  Promise!EndStop \/ Promise!BeginStart \/ Promise!EndStart
<1> USE DEF Step, runVars, AlonePC, EngagedPC, HolderPlane
<1>1. CASE StopReturned(c)
  BY <1>1, HolderMoves DEF StopReturned, Promise!EndStop, engaged
<1>2. CASE CheckedStart(c)
  <2>1. wanted /\ ~closed /\ core = "down"
    BY <1>2 DEF CheckedStart, IInv, IntentInv, CoreInv, HoldPC
  <2> QED
    BY <1>2, <2>1, HolderMoves DEF CheckedStart, Promise!BeginStart, engaged
<1>3. CASE CheckedStartFailed(c)
  BY <1>3, HolderMoves DEF CheckedStartFailed, Promise!EndStart, engaged
<1>4. CASE CheckedUndone(c)
  BY <1>4, HolderMoves DEF CheckedUndone, Promise!EndStop, engaged
<1> QED
  BY <1>1, <1>2, <1>3, <1>4

(* RestartChecked's Start worked, the new run takes the plane over.        *)
LEMMA CheckedStartedMaps ==
  ASSUME IInv, NEW c \in Callers, CheckedStarted(c)
  PROVE  Promise!EndStart
<1>1. /\ pc[c] = "starting" /\ pc'[c] = "idle"
      /\ \A d \in Callers : d # c => pc'[d] = pc[d]
      /\ UNCHANGED <<wanted, closed>>
      /\ core' = "up"
  BY DEF CheckedStarted, Return, IInv, TypeOK
<1>2. PICK r \in Runs : Spawn(r, "up")
  BY DEF CheckedStarted
<1>3. \A d \in Callers : d # c => pc[d] \notin HoldPC
  BY <1>1 DEF IInv, LockInv, HoldPC
<1>4. \A q \in Runs : rpc'[q] \in {"off", "up"}
  BY <1>1, <1>2 DEF Spawn, IInv, TypeOK, RunInv, AlonePC
<1>5. InStartCall /\ ~InStartCall' /\ ~InStopCall'
  BY <1>1, <1>3, <1>4 DEF InStartCall, InStopCall, HoldPC
<1>6. engaged /\ engaged'
  BY <1>1, <1>2, ConnAssumption DEF engaged, Spawn
<1>7. engaged' = engaged
  BY <1>6 DEF engaged
<1> QED
  BY <1>1, <1>5, <1>7, PlaneIs, PlaneIsNext DEF Promise!EndStart

(* A run that ends is not near the plane.                                  *)
LEMMA CancelledMaps ==
  ASSUME IInv, NEW r \in Runs, RunCancelled(r) \/ WatchCancelled(r)
  PROVE  Stutter
<1> USE DEF RunCancelled, WatchCancelled, Exit, callerVars
<1>1. /\ rpc[r] \in {"loop", "prepared", "failed", "backoff", "watch"}
      /\ rpc'[r] = "off"
      /\ \A q \in Runs : q # r => rpc'[q] = rpc[q]
      /\ UNCHANGED <<wanted, closed, core, cancel, pc>>
  BY DEF IInv, TypeOK
<1>2. (InStartCall' <=> InStartCall) /\ (InStopCall' <=> InStopCall)
  BY <1>1 DEF InStartCall, InStopCall
<1>3. engaged' = engaged
  BY <1>1 DEF engaged
<1> QED
  BY <1>1, <1>2, <1>3, PlaneIs, PlaneIsNext DEF Stutter

(* The steps of a run that do not call Start or Stop or return from them.  *)
LEMMA RunPassesMaps ==
  ASSUME IInv, NEW r \in Runs,
         \/ RunLoop(r) \/ TakePre(r) \/ PrepareOk(r) \/ PrepareFailed(r)
         \/ BackoffOver(r) \/ RunUp(r) \/ HealthTick(r) \/ KickTaken(r)
         \/ CheckOk(r) \/ CheckPrivacy(r) \/ Recovered(r)
  PROVE  Stutter
<1> USE DEF RunLoop, TakePre, PrepareOk, PrepareFailed, BackoffOver, RunUp,
       HealthTick, KickTaken, CheckOk, CheckPrivacy, Recovered, Pass
<1> DEFINE Apart == RunPC \ {"off", "starting", "failStop", "rebuild"}
<1>1. \E from, to \in Apart : Move(r, from, to)
  BY DEF RunPC
<1>2. PICK from \in Apart, to \in Apart : Move(r, from, to)
  BY <1>1
<1>3. core' = core
  OBVIOUS
<1>4. RunPlane(from, core) = RunPlane(to, core')
  BY <1>2, <1>3 DEF RunPlane
<1>5. plane' = plane /\ engaged /\ engaged' /\ UNCHANGED <<wanted, closed>>
  BY <1>2, <1>4, RunMoves
<1>6. engaged' = engaged
  BY <1>5 DEF engaged
<1> QED
  BY <1>5, <1>6 DEF Stutter

(* The steps of a run that do.                                             *)
LEMMA RunActsMaps ==
  ASSUME IInv, NEW r \in Runs,
         \/ RunStart(r) \/ StartOk(r) \/ StartFailed(r) \/ CleanUp(r)
         \/ RunStopped(r) \/ AliveTick(r) \/ CheckCrash(r) \/ NotRecovered(r)
  PROVE  \/ Promise!BeginStart \/ Promise!EndStart
         \/ Promise!BeginStop \/ Promise!EndStop
<1> USE DEF RunPC, RunPlane, Pass
<1>0. engaged /\ engaged' => engaged' = engaged /\ engaged' = TRUE
  BY DEF engaged
<1>1. CASE RunStart(r)
  <2>1. core = "down"
    BY <1>1 DEF RunStart, Move, IInv, CoreInv, ServingPC
  <2> QED
    BY <1>0, <1>1, <2>1, RunMoves DEF RunStart, Promise!BeginStart
<1>2. CASE StartOk(r)
  BY <1>0, <1>2, RunMoves DEF StartOk, Promise!EndStart
<1>3. CASE StartFailed(r)
  <2>1. core = "down"
    BY <1>3 DEF StartFailed, Move, IInv, CoreInv, ServingPC
  <2> QED
    BY <1>0, <1>3, <2>1, RunMoves DEF StartFailed, Promise!EndStart
<1>4. CASE CleanUp(r)
  BY <1>0, <1>4, RunMoves DEF CleanUp, Promise!BeginStop
<1>5. CASE RunStopped(r)
  <2>1. PICK from \in {"failStop", "rebuild"} : Move(r, from, "backoff")
    BY <1>5 DEF RunStopped
  <2>2. core' = "down"
    BY <1>5 DEF RunStopped
  <2> QED
    BY <1>0, <2>1, <2>2, RunMoves DEF Promise!EndStop
<1>6. CASE AliveTick(r)
  BY <1>0, <1>6, RunMoves DEF AliveTick, Promise!BeginStop
<1>7. CASE CheckCrash(r)
  BY <1>0, <1>7, RunMoves DEF CheckCrash, Promise!BeginStop
<1>8. CASE NotRecovered(r)
  BY <1>0, <1>8, RunMoves DEF NotRecovered, Promise!BeginStop
<1> QED
  BY <1>1, <1>2, <1>3, <1>4, <1>5, <1>6, <1>7, <1>8

(* A failed check may be the one that begins a rebuild.                    *)
LEMMA CheckBadMaps ==
  ASSUME IInv, NEW r \in Runs, CheckBad(r)
  PROVE  Promise!BeginStop \/ Stutter
<1>1. PICK to \in {"watch", "recover", "rebuild"} : Move(r, "check", to)
  BY DEF CheckBad, NodeDown
<1>2. core' = core
  BY DEF CheckBad, NodeDown
<1>3. /\ plane = RunPlane("check", core) /\ plane' = RunPlane(to, core)
      /\ engaged /\ engaged'
      /\ UNCHANGED <<wanted, closed>>
  BY <1>1, <1>2, RunMoves DEF RunPC
<1>4. engaged' = engaged
  BY <1>3 DEF engaged
<1> QED
  BY <1>3, <1>4 DEF RunPlane, Promise!BeginStop, Stutter

(* What happens around the machine is no concern of the promise.           *)
LEMMA WorldMaps ==
  ASSUME IInv, CheckNow \/ CoreDies
  PROVE  Stutter
<1>1. /\ UNCHANGED <<wanted, closed, cancel, pc, rpc>>
      /\ core' = "down" <=> core = "down"
  BY DEF CheckNow, CoreDies, callerVars, runVars
<1>2. engaged' = engaged
  BY <1>1 DEF engaged
<1>3. (InStartCall' <=> InStartCall) /\ (InStopCall' <=> InStopCall)
  BY <1>1 DEF InStartCall, InStopCall
<1> QED
  BY <1>1, <1>2, <1>3, PlaneIs, PlaneIsNext DEF Stutter

(* Every step of the machine is a step of the promise or none.             *)
LEMMA StepMaps == IInv /\ [Next]_vars => [Promise!Next]_(Promise!promiseVars)
<1> SUFFICES ASSUME IInv, [Next]_vars
             PROVE  Promise!Next \/ Stutter
  BY DEF Stutter, Promise!promiseVars
<1> USE DEF Promise!Next
<1>1. ASSUME NEW c \in Callers, NewCall(c)
      PROVE  Promise!Next \/ Stutter
  BY <1>1, NewCallMaps
<1>2. ASSUME NEW c \in Callers, CallerStep(c)
      PROVE  Promise!Next \/ Stutter
  <2>1. CASE Restarted(c) \/ CheckedRetry(c)
    BY <2>1, ConnectMaps DEF Restarted, CheckedRetry, Return
  <2> QED
    BY <1>2, <2>1, CallerPassesMaps, TakeCancelMaps, WaitedMaps, HolderMaps,
       CheckedStartedMaps
       DEF CallerStep
<1>3. ASSUME NEW r \in Runs, RunStep(r)
      PROVE  Promise!Next \/ Stutter
  BY <1>3, CancelledMaps, RunPassesMaps, RunActsMaps, CheckBadMaps
     DEF RunStep
<1>4. CASE CheckNow \/ CoreDies
  BY <1>4, WorldMaps
<1>5. CASE UNCHANGED vars
  BY <1>5 DEF vars, callerVars, runVars, Stutter, plane, engaged, InStart,
     InStop
<1> QED
  BY <1>1, <1>2, <1>3, <1>4, <1>5 DEF Next

(* A new machine is disengaged over a plane that is down.                  *)
LEMMA InitMaps == Init => Promise!Init
<1> SUFFICES ASSUME Init
             PROVE  Promise!Init
  OBVIOUS
<1>1. engaged = FALSE
  BY DEF Init, engaged
<1>2. ~InStartCall /\ ~InStopCall /\ core = "down"
  BY DEF Init, InStartCall, InStopCall
<1> QED
  BY <1>1, <1>2, PlaneIs DEF Init, Promise!Init

(* The machine keeps the promise of ConnPromise.                           *)
THEOREM PromiseHeld == Spec => PromiseKept
BY InitMaps, StepMaps, Invariance, PTL DEF Spec, PromiseKept, Promise!Spec
=============================================================================

------------------------------ MODULE WfpGuard ------------------------------
(***************************************************************************)
(* How the guard is installed and removed on Windows: the transactions of  *)
(* internal/netmode/wfp against the filter engine's persistent store, and  *)
(* the goroutines that call them.  Within the service one mutex (wfp.mu)   *)
(* is held for a whole operation; another process (guard clear, uninstall) *)
(* runs the same Disable between any two transactions.                     *)
(*                                                                         *)
(* Filters are kept as groups: the persistent set and the two boot-time    *)
(* sets, in the old generation (bound to a service name) or the new one.   *)
(* The permit for the tunnel's adapter in the forwarding layer names an    *)
(* interface index and is kept apart.                                      *)
(***************************************************************************)
EXTENDS Integers, FiniteSets

CONSTANTS
  MaxWfpFaults,  \* failed transactions, crashes and flushes
  MaxApplies,    \* guards put up or taken down by the service
  MaxStarts,     \* starts of the core
  MaxTools       \* runs of the other process

ASSUME WfpConstants == {MaxWfpFaults, MaxApplies, MaxStarts, MaxTools} \subseteq Nat

VARIABLES
  store,    \* the groups of filters in the engine, of both generations
  base,     \* the generations whose provider and sublayer exist
  permit,   \* the interface index the tunnel permit names; 0: no permit
  adapter,  \* the tunnel adapter's interface index; 0: there is none
  running,  \* Core.running
  guardOn,  \* Daemon.guardOn
  pending,  \* Daemon.tunUpPending
  wiped,    \* history: a success that came late has overwritten a pending failure
  warned,   \* the warning gathered by Enable, then netmode.guardWarn
  mu,       \* who holds wfp.mu; NoOne: nobody
  pc,       \* what each goroutine, or the other process, is doing
  index,    \* the interface index a goroutine has looked up
  spent     \* operations and faults so far

wfpVars == <<store, base, permit, adapter, running, guardOn, pending, wiped, warned, mu, pc, index, spent>>

Service == {"guard", "core", "loop"}   \* syncGuard under guardMu; start and stop; nicIPv6Loop
Actors == Service \cup {"tool"}
NoOne == "no one"

Groups == {"oldrun", "oldboot", "run", "boot", "bootforward"}
Steps == {"idle", "legacy", "boot", "bootforward", "ready", "applied", "lookup", "tunup", "permit",
          "done", "failed", "close", "drop", "dropnow", "clear", "count", "cleanup"}

Sealed(s) == s \cap {"run", "oldrun"} # {}

Spent(k) == spent' = [spent EXCEPT ![k] = @ + 1]
MayFail == spent.fault < MaxWfpFaults

WfpInit ==
  \* an upgrade of an old version whose guard is on, or a fresh install
  /\ store \in {{}, {"oldrun", "oldboot"}}
  /\ base = (IF store = {} THEN {} ELSE {"old"})
  /\ permit = 0 /\ adapter = 0
  /\ running = FALSE /\ guardOn = FALSE /\ pending = FALSE /\ wiped = FALSE /\ warned = FALSE
  /\ mu = NoOne
  /\ pc = [a \in Actors |-> "idle"]
  /\ index = [a \in Actors |-> 0]
  /\ spent = [fault |-> 0, apply |-> 0, start |-> 0, tool |-> 0]

-----------------------------------------------------------------------------
Lock(a) == IF a = "tool" THEN UNCHANGED mu ELSE mu = NoOne /\ mu' = a
Unlock(a) == IF a = "tool" THEN UNCHANGED mu ELSE mu' = NoOne
Goto(a, step) == pc' = [pc EXCEPT ![a] = step]

memory == <<running, guardOn, pending, wiped, warned>>
engine == <<store, base, permit>>

(* isOurs, ourFilters: what is recognised as ours, of either generation.   *)
OurFilters(s) == s
Nothing == OurFilters(store) = {} /\ permit = 0

(* Enable.  The old filters are deleted and the new persistent set is      *)
(* installed in one transaction; on failure the old guard stays.           *)
\* mutant: the old filters are deleted in a transaction of their own
FaultySwap ==
  /\ pc["guard"] = "idle" /\ Lock("guard") /\ Goto("guard", "legacy")
  /\ spent.apply < MaxApplies /\ Spent("apply")
  /\ store' \in {{}, {"run"}} /\ base' = base \cup {"new"} /\ permit' = 0
  /\ UNCHANGED <<adapter, memory, index>>
Swap ==
  /\ pc["guard"] = "idle" /\ Lock("guard") /\ Goto("guard", "legacy")
  /\ spent.apply < MaxApplies /\ Spent("apply")
  /\ store' = (store \ OurFilters(store)) \cup {"run"}
  /\ base' = base \cup {"new"}
  /\ permit' = 0
  /\ warned' = FALSE
  /\ UNCHANGED <<adapter, running, guardOn, pending, wiped, index>>

SwapFails ==
  /\ pc["guard"] = "idle" /\ mu = NoOne
  /\ spent.apply < MaxApplies /\ MayFail
  /\ spent' = [spent EXCEPT !.apply = @ + 1, !.fault = @ + 1]
  /\ UNCHANGED <<engine, adapter, memory, mu, pc, index>>

(* dropLegacyBase; a failure is a warning.                                 *)
DropLegacy ==
  /\ pc["guard"] = "legacy" /\ Goto("guard", "boot")
  /\ \/ /\ store \cap {"oldrun", "oldboot"} = {}
        /\ base' = base \ {"old"}
        /\ UNCHANGED <<warned, spent>>
     \/ /\ store \cap {"oldrun", "oldboot"} # {} \/ MayFail
        /\ warned' = TRUE
        /\ IF store \cap {"oldrun", "oldboot"} # {} THEN UNCHANGED spent ELSE Spent("fault")
        /\ UNCHANGED base
  /\ UNCHANGED <<store, permit, adapter, running, guardOn, pending, wiped, mu, index>>

(* The boot-time sets, each in a transaction of its own.  Without our      *)
(* sublayer (the other process has just removed it) they cannot be added.  *)
AddBoot(group, next) ==
  /\ pc["guard"] = group /\ Goto("guard", next)
  /\ \/ /\ "new" \in base
        /\ store' = store \cup {group}
        /\ UNCHANGED <<warned, spent>>
     \/ /\ "new" \notin base \/ MayFail
        /\ warned' = TRUE
        /\ IF "new" \notin base THEN UNCHANGED spent ELSE Spent("fault")
        /\ UNCHANGED store
  /\ IF next = "ready" THEN Unlock("guard") ELSE UNCHANGED mu
  /\ UNCHANGED <<base, permit, adapter, running, guardOn, pending, wiped, index>>

(* ApplyGuard then asks the engine for the boot-time set.                  *)
\* mutant: what Enable itself reported is taken as the whole truth
FaultyBootGuardReady == UNCHANGED warned
BootGuardReady == warned' = (warned \/ ~({"boot", "bootforward"} \subseteq store))

Ready ==
  /\ pc["guard"] = "ready" /\ mu = NoOne
  /\ BootGuardReady
  /\ Goto("guard", "applied")
  /\ UNCHANGED <<engine, adapter, running, guardOn, pending, wiped, mu, index, spent>>

(* applyGuard: the guard is up; a running core's adapter is let through.   *)
\* mutant: the permit the new set has dropped is not put back
FaultyApplied ==
  /\ pc["guard"] = "applied"
  /\ guardOn' = TRUE
  /\ Goto("guard", "idle")
  /\ UNCHANGED <<engine, adapter, running, pending, wiped, warned, mu, index, spent>>
Applied ==
  /\ pc["guard"] = "applied"
  /\ guardOn' = TRUE
  /\ Goto("guard", IF running THEN "lookup" ELSE "idle")
  /\ UNCHANGED <<engine, adapter, running, pending, wiped, warned, mu, index, spent>>

-----------------------------------------------------------------------------
(* Daemon.guardTunUp: the interface is looked up before wfp.mu is taken,   *)
(* and what came of it is written down after wfp.mu is given back.         *)
Lookup(a) ==
  /\ pc[a] = "lookup"
  /\ index' = [index EXCEPT ![a] = IF guardOn THEN adapter ELSE 0]
  /\ Goto(a, IF ~guardOn THEN "idle" ELSE IF adapter = 0 THEN "failed" ELSE "tunup")
  /\ UNCHANGED <<engine, adapter, memory, mu, spent>>

(* TunUp: nothing to do without a guard.                                   *)
TunUp(a) ==
  /\ pc[a] = "tunup"
  /\ IF Nothing
     THEN mu = NoOne /\ UNCHANGED mu /\ Goto(a, "done")
     ELSE Lock(a) /\ Goto(a, "permit")
  /\ UNCHANGED <<engine, adapter, memory, index, spent>>

Permit(a) ==
  /\ pc[a] = "permit" /\ Unlock(a)
  /\ \/ "new" \in base /\ permit' = index[a] /\ Goto(a, "done") /\ UNCHANGED spent
     \/ /\ "new" \notin base \/ MayFail
        /\ Goto(a, "failed") /\ UNCHANGED permit
        /\ IF "new" \notin base THEN UNCHANGED spent ELSE Spent("fault")
  /\ UNCHANGED <<store, base, adapter, memory, index>>

Noted(a) ==
  /\ pc[a] \in {"done", "failed"} /\ Goto(a, "idle")
  /\ pending' = (pc[a] = "failed") /\ guardOn' = TRUE
  /\ wiped' = (pc[a] = "done" /\ permit = 0 /\ (pending \/ wiped))
  /\ index' = [index EXCEPT ![a] = 0]
  /\ UNCHANGED <<engine, adapter, running, warned, mu, spent>>

(* nicIPv6Loop and syncGuard try again what is pending.                    *)
Retry(a) ==
  /\ a \in {"loop", "guard"} /\ pc[a] = "idle"
  /\ pending /\ running
  /\ Goto(a, "lookup")
  /\ UNCHANGED <<engine, adapter, memory, mu, index, spent>>

-----------------------------------------------------------------------------
(* Disable: the filters, then a count, then provider and sublayer.         *)
StartClear(a) ==
  /\ pc[a] = "idle" /\ Goto(a, "clear")
  /\ IF a = "tool" THEN spent.tool < MaxTools /\ Spent("tool")
     ELSE a = "guard" /\ (guardOn \/ ~running) /\ spent.apply < MaxApplies /\ Spent("apply")
  /\ UNCHANGED <<engine, adapter, memory, mu, index>>

Clear(a) ==
  /\ pc[a] = "clear" /\ Lock(a) /\ Goto(a, "count")
  /\ store' = store \ OurFilters(store) /\ permit' = 0
  /\ UNCHANGED <<base, adapter, memory, index, spent>>

ClearFails(a) ==
  /\ pc[a] = "clear" /\ Goto(a, "idle")
  /\ MayFail /\ Spent("fault")
  /\ guardOn' = (a = "guard" \/ guardOn)
  /\ UNCHANGED <<engine, adapter, running, pending, wiped, warned, mu, index>>

Count(a) ==
  /\ pc[a] = "count"
  /\ IF Nothing
     THEN Goto(a, "cleanup") /\ UNCHANGED <<mu, guardOn>>
     ELSE Goto(a, "idle") /\ Unlock(a) /\ guardOn' = (a = "guard" \/ guardOn)
  /\ UNCHANGED <<engine, adapter, running, pending, wiped, warned, index, spent>>

(* A sublayer in use, or a failure, is a CleanupError: cleared all the     *)
(* same, with a warning.                                                   *)
Cleanup(a) ==
  /\ pc[a] = "cleanup" /\ Goto(a, "idle") /\ Unlock(a)
  /\ \/ /\ store = {} /\ permit = 0
        /\ base' = {} /\ UNCHANGED spent
        /\ warned' = (a = "tool" /\ warned)
     \/ /\ store # {} \/ permit # 0 \/ MayFail
        /\ warned' = (a = "guard" \/ warned)
        /\ IF store # {} \/ permit # 0 THEN UNCHANGED spent ELSE Spent("fault")
        /\ UNCHANGED base
  /\ guardOn' = (a = "tool" /\ guardOn)
  /\ UNCHANGED <<store, permit, adapter, running, pending, wiped, index>>

-----------------------------------------------------------------------------
(* The core: the adapter may be registered some time after the start.      *)
StartCore ==
  /\ pc["core"] = "idle" /\ ~running
  /\ spent.start < MaxStarts /\ Spent("start")
  /\ running' = TRUE
  /\ adapter' \in {0, spent.start + 1}
  /\ Goto("core", "lookup")
  /\ UNCHANGED <<engine, guardOn, pending, wiped, warned, mu, index>>

AdapterShows ==
  /\ running /\ adapter = 0
  /\ adapter' = spent.start
  /\ UNCHANGED <<engine, memory, mu, pc, index, spent>>

(* Core.Stop says it is stopped before it closes the box.                  *)
StopCore ==
  /\ pc["core"] = "idle" /\ running
  /\ running' = FALSE
  /\ Goto("core", "close")
  /\ UNCHANGED <<engine, adapter, guardOn, pending, wiped, warned, mu, index, spent>>

CloseBox ==
  /\ pc["core"] = "close"
  /\ adapter' = 0
  /\ Goto("core", "drop")
  /\ UNCHANGED <<engine, memory, mu, index, spent>>

(* dropTunPermit, TunDown: nothing to do without a permit.                 *)
Drop ==
  /\ pc["core"] = "drop"
  /\ \/ /\ ~guardOn \/ permit = 0
        /\ Goto("core", "idle") /\ UNCHANGED mu
        /\ guardOn => mu = NoOne
     \/ guardOn /\ permit # 0 /\ Lock("core") /\ Goto("core", "dropnow")
  /\ UNCHANGED <<engine, adapter, memory, index, spent>>

DropNow ==
  /\ pc["core"] = "dropnow" /\ Unlock("core") /\ Goto("core", "idle")
  /\ \/ permit' = 0 /\ UNCHANGED spent
     \/ MayFail /\ Spent("fault") /\ UNCHANGED permit
  /\ UNCHANGED <<store, base, adapter, memory, index>>

(* The service dies, or the computer restarts: the store is all that       *)
(* stays.  On a restart the other process is gone as well.                 *)
Crash(reboot) ==
  /\ MayFail /\ Spent("fault")
  /\ adapter' = 0 /\ running' = FALSE /\ guardOn' = FALSE /\ pending' = FALSE /\ wiped' = FALSE /\ warned' = FALSE
  /\ mu' = NoOne
  /\ pc' = [a \in Actors |-> IF a = "tool" /\ ~reboot THEN pc[a] ELSE "idle"]
  /\ index' = [a \in Actors |-> 0]
  /\ UNCHANGED engine

WfpNext ==
  \/ Swap \/ SwapFails \/ DropLegacy
  \/ AddBoot("boot", "bootforward") \/ AddBoot("bootforward", "ready")
  \/ Ready \/ Applied
  \/ \E a \in Service : Lookup(a) \/ TunUp(a) \/ Permit(a) \/ Noted(a) \/ Retry(a)
  \/ \E a \in {"guard", "tool"} : StartClear(a) \/ Clear(a) \/ ClearFails(a) \/ Count(a) \/ Cleanup(a)
  \/ StartCore \/ AdapterShows \/ StopCore \/ CloseBox \/ Drop \/ DropNow
  \/ \E reboot \in BOOLEAN : Crash(reboot)

(* Operations once begun are carried on; the loop runs for as long as the  *)
(* service does, so what is pending is tried again.                        *)
WfpFairness ==
  /\ WF_wfpVars(DropLegacy \/ AddBoot("boot", "bootforward") \/ AddBoot("bootforward", "ready")
                \/ Ready \/ Applied)
  /\ \A a \in Service : WF_wfpVars(Lookup(a) \/ TunUp(a) \/ Permit(a) \/ Noted(a))
  /\ \A a \in {"guard", "tool"} : WF_wfpVars(Clear(a) \/ Count(a) \/ Cleanup(a))
  /\ WF_wfpVars(CloseBox \/ Drop \/ DropNow)
  /\ WF_wfpVars(AdapterShows) /\ WF_wfpVars(Retry("loop"))

WfpSpec == WfpInit /\ [][WfpNext]_wfpVars /\ WfpFairness

-----------------------------------------------------------------------------
(* Type invariant                                                          *)
WfpTypeOK ==
  /\ store \subseteq Groups /\ base \subseteq {"old", "new"}
  /\ permit \in 0..MaxStarts /\ adapter \in 0..MaxStarts
  /\ running \in BOOLEAN /\ guardOn \in BOOLEAN /\ pending \in BOOLEAN
  /\ wiped \in BOOLEAN /\ warned \in BOOLEAN
  /\ mu \in Service \cup {NoOne}
  /\ pc \in [Actors -> Steps]
  /\ index \in [Actors -> 0..MaxStarts]
  /\ spent \in [fault : 0..MaxWfpFaults, apply : 0..MaxApplies,
                start : 0..MaxStarts, tool : 0..MaxTools]

(* A step opens the computer only by deleting the guard on request: no     *)
(* reinstall, upgrade, failure, crash or restart passes through a state    *)
(* without a persistent set (guard.go:142-150, 284-294).                   *)
NoGap == [][Sealed(store) /\ ~Sealed(store') =>
              \E a \in {"guard", "tool"} : pc[a] = "clear" /\ pc'[a] = "count"]_wfpVars

(* Whoever gets past the count of a Disable has left nothing behind, of    *)
(* either generation, but what the service has put up since.               *)
ClearedMeansGone ==
  \A a \in {"guard", "tool"} : pc[a] = "cleanup" =>
    /\ store \cap {"oldrun", "oldboot"} = {}
    /\ a = "guard" => store = {} /\ permit = 0

(* A guard that is reported without a warning has both boot-time sets, and *)
(* hangs on nothing of the old generation, whose service name can switch   *)
(* the filters off at the next start.                                      *)
WarningHonest ==
  [][pc["guard"] = "ready" /\ pc'["guard"] = "applied" /\ ~warned' =>
       {"boot", "bootforward"} \subseteq store /\ store \cap {"oldrun", "oldboot"} = {}
       /\ "old" \notin base]_wfpVars

(* What a caller is told of the guard is so.                               *)
ReportsAreHonest == []ClearedMeansGone /\ WarningHonest

(* While the core runs under a guard, the tunnel's adapter is let through  *)
(* in the forwarding layer in the end: a reinstall, which drops the        *)
(* permit, an adapter that shows late, or a failure is made good.  Excused *)
(* is a failure that has been wiped out: a TunUp that succeeded clears     *)
(* tunUpPending after giving wfp.mu back, and a reinstall whose own TunUp  *)
(* fails fits in between.                                                  *)
ForwardingComesBack ==
  <>[](running /\ guardOn /\ "run" \in store) => <>[](permit # 0 \/ wiped)

(* What TunDown is for (rules_forward.go:155-157): with the core stopped   *)
(* no permit is left for an index another adapter may get.                 *)
NoStalePermit ==
  guardOn /\ ~running /\ spent.fault = 0 /\ (\A a \in Service : pc[a] = "idle") => permit = 0
=============================================================================

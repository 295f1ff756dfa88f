----------------------------- MODULE DirectHold -----------------------------
(***************************************************************************)
(* What the service does outside the tunnel while no sealing guard is up,  *)
(* and how it stops when one comes up: internal/daemon/directhttp.go with  *)
(* guardArmed and applyGuard of refresh.go.                                *)
(*                                                                         *)
(* The filter lets the service itself through, so it cannot hold back the  *)
(* service's own direct packets: a latency probe that is running when the  *)
(* user connects has to be cancelled before the filter is up, and a        *)
(* download has to stop.  Both ask the record of the guard, not the filter.*)
(*                                                                         *)
(* The settings are abstracted to the guard they ask for: none, one that   *)
(* leaves direct rules open, or one that seals.                            *)
(***************************************************************************)
EXTENDS Integers, FiniteSets

CONSTANTS Probes, Downloads

Guards == {"none", "rule", "sealed"}
Installers == {"sync", "boot"}  \* syncGuard, one at a time by guardMu; reconcileGuard

VARIABLES
  wish,       \* the user wants to be connected
  spec,       \* the guard the settings ask for
  on,         \* guardOn: the record that there is a guard in the kernel
  arming,     \* guardArming
  held,       \* directHeld: the probes registered
  cancelled,  \* the probes whose context is cancelled
  probe,      \* [Probes -> [pc, sealed]]
  load,       \* [Downloads -> BOOLEAN]: reading a response directly
  inst        \* [Installers -> [pc, sealed, was, robbed]]

directVars == <<wish, spec, on, arming, held, cancelled, probe, load, inst>>
probeVars == <<held, probe>>
settingVars == <<wish, spec>>

NoProbe == [pc |-> "idle", sealed |-> FALSE]
\* robbed is history: another installer withdrew the arming this one relies on.
NoInstall == [pc |-> "idle", sealed |-> FALSE, was |-> FALSE, robbed |-> FALSE]
AtWork(i) == inst[i].pc # "idle" /\ inst[i].pc # "over"

\* The service begins with what it finds in the kernel as its record.
DirectInit ==
  /\ wish \in BOOLEAN
  /\ spec \in Guards
  /\ on \in BOOLEAN
  /\ arming = FALSE
  /\ held = {} /\ cancelled = {}
  /\ probe = [p \in Probes |-> NoProbe]
  /\ load = [d \in Downloads |-> FALSE]
  /\ inst = [i \in Installers |-> NoInstall]

\* guardArmed, with sealed the answer of the settings read before the lock.
Armed(sealed) == arming \/ (on /\ sealed)
ArmedNow == Armed(spec = "sealed")
GuardWanted == wish /\ spec # "none"

-----------------------------------------------------------------------------
(* Latency probes.                                                         *)

\* holdDirect comes before the question: registered first, asked second.
Hold(p) ==
  /\ probe[p].pc = "idle"
  /\ held' = held \cup {p}
  /\ probe' = [probe EXCEPT ![p].pc = "held"]
  /\ UNCHANGED <<settingVars, on, arming, cancelled, load, inst>>

\* guardArmed reads the settings, and then asks under the mutex.
ReadSealed(p) ==
  /\ probe[p].pc = "held"
  /\ probe' = [probe EXCEPT ![p] = [pc |-> "asks", sealed |-> spec = "sealed"]]
  /\ UNCHANGED <<settingVars, on, arming, held, cancelled, load, inst>>

Refused(p) ==
  /\ probe[p].pc = "asks" /\ Armed(probe[p].sealed)
  /\ probe' = [probe EXCEPT ![p] = NoProbe]
  /\ held' = held \ {p} /\ cancelled' = cancelled \ {p}
  /\ UNCHANGED <<settingVars, on, arming, load, inst>>

Admitted(p) ==
  /\ probe[p].pc = "asks" /\ ~Armed(probe[p].sealed)
  /\ probe' = [probe EXCEPT ![p] = [pc |-> "probing", sealed |-> FALSE]]
  /\ UNCHANGED <<settingVars, on, arming, held, cancelled, load, inst>>

\* mutant: looks for an installation under way only.
FaultyWatchTick(p) ==
  /\ probe[p].pc = "probing" /\ arming /\ p \notin cancelled
  /\ cancelled' = cancelled \cup {p}
  /\ UNCHANGED <<settingVars, on, arming, probeVars, load, inst>>

\* cancelOnGuard looks every 100 milliseconds.
WatchTick(p) ==
  /\ probe[p].pc = "probing" /\ ArmedNow /\ p \notin cancelled
  /\ cancelled' = cancelled \cup {p}
  /\ UNCHANGED <<settingVars, on, arming, probeVars, load, inst>>

\* The probes are done, or the context is.
ProbeEnds(p) ==
  /\ probe[p].pc = "probing"
  /\ probe' = [probe EXCEPT ![p] = NoProbe]
  /\ held' = held \ {p} /\ cancelled' = cancelled \ {p}
  /\ UNCHANGED <<settingVars, on, arming, load, inst>>

-----------------------------------------------------------------------------
(* Downloads by the client SelfHTTP gives while no sealing guard is up.    *)

\* SelfHTTP and RoundTrip both ask.
Request(d) ==
  /\ ~load[d] /\ ~ArmedNow
  /\ load' = [load EXCEPT ![d] = TRUE]
  /\ UNCHANGED <<settingVars, on, arming, probeVars, cancelled, inst>>

\* The body asks before each read.
ReadStops(d) ==
  /\ load[d] /\ ArmedNow
  /\ load' = [load EXCEPT ![d] = FALSE]
  /\ UNCHANGED <<settingVars, on, arming, probeVars, cancelled, inst>>

ReadEnds(d) ==
  /\ load[d] /\ ~ArmedNow
  /\ load' = [load EXCEPT ![d] = FALSE]
  /\ UNCHANGED <<settingVars, on, arming, probeVars, cancelled, inst>>

-----------------------------------------------------------------------------
(* Installing and removing the guard.                                      *)

Go(i, pc) == inst' = [inst EXCEPT ![i].pc = pc]
Finish(i) == IF i = "boot" THEN "over" ELSE "idle"

\* syncGuard and refreshRuleGuard: there is no guard, it has another specification
\* than the settings (then wanted or not, if a transaction holds it or the rules
\* changed), or the kernel has lost a part of it, which can happen at any time.
SyncInstall ==
  /\ inst["sync"].pc = "idle"
  /\ GuardWanted \/ on
  /\ Go("sync", "apply")
  /\ UNCHANGED <<settingVars, on, arming, probeVars, cancelled, load>>

\* reconcileGuard installs whatever its record says, without guardMu.
BootInstall ==
  /\ inst["boot"].pc = "idle"
  /\ GuardWanted
  /\ Go("boot", "apply")
  /\ UNCHANGED <<settingVars, on, arming, probeVars, cancelled, load>>

\* Removing fails or not; if it fails the guard stays on record.
Clear(i) ==
  /\ inst[i].pc = "idle" /\ ~GuardWanted /\ (i = "sync" => on)
  /\ Go(i, Finish(i))
  /\ \E cleared \in BOOLEAN : on' = ~cleared
  /\ UNCHANGED <<settingVars, arming, probeVars, cancelled, load>>

\* applyGuard for a sealing guard: cancelDirect says that one is coming and cancels
\* every probe registered, under one lock.  guardSpec reads the settings again after
\* that: what is installed may seal although this reading did not.
StartApply(i) ==
  /\ inst[i].pc = "apply"
  /\ inst' = [inst EXCEPT ![i].pc = "install",
                           ![i].sealed = (spec = "sealed"), ![i].was = on]
  /\ IF spec = "sealed"
       THEN arming' = TRUE /\ cancelled' = cancelled \cup held
       ELSE UNCHANGED <<arming, cancelled>>
  /\ UNCHANGED <<settingVars, on, probeVars, load>>

\* netmode.ApplyGuard, one transaction, and then the record of it.
Install(i) ==
  /\ inst[i].pc = "install"
  /\ Go(i, "record")
  /\ UNCHANGED <<settingVars, on, arming, probeVars, cancelled, load>>

\* mutant: the early return misses the deferred endArming.
FaultyInstallFails(i) ==
  /\ inst[i].pc = "install"
  /\ on' = inst[i].was
  /\ inst' = [inst EXCEPT ![i] = [NoInstall EXCEPT !.pc = Finish(i)]]
  /\ UNCHANGED <<settingVars, arming, probeVars, cancelled, load>>

\* It fails: the record is what it was when the installation began.
InstallFails(i) ==
  /\ inst[i].pc = "install"
  /\ on' = inst[i].was
  /\ Go(i, "end")
  /\ UNCHANGED <<settingVars, arming, probeVars, cancelled, load>>

Record(i) ==
  /\ inst[i].pc = "record"
  /\ on' = TRUE
  /\ Go(i, "end")
  /\ UNCHANGED <<settingVars, arming, probeVars, cancelled, load>>

\* mutant: deferred by every installation, sealing or not.
FaultyEndArming(i) ==
  /\ inst[i].pc = "end"
  /\ inst' = [j \in Installers |->
       IF j = i THEN [NoInstall EXCEPT !.pc = Finish(i)]
       ELSE [inst[j] EXCEPT !.robbed = @ \/ (inst[i].sealed /\ inst[j].sealed)]]
  /\ arming' = FALSE
  /\ UNCHANGED <<settingVars, on, probeVars, cancelled, load>>

\* The deferred endArming, of a sealing installation only.
EndArming(i) ==
  /\ inst[i].pc = "end"
  /\ inst' = [j \in Installers |->
       IF j = i THEN [NoInstall EXCEPT !.pc = Finish(i)]
       ELSE [inst[j] EXCEPT !.robbed = @ \/ (inst[i].sealed /\ inst[j].sealed)]]
  /\ arming' = IF inst[i].sealed THEN FALSE ELSE arming
  /\ UNCHANGED <<settingVars, on, probeVars, cancelled, load>>

\* The user connects, disconnects, or changes the settings.
UserActs ==
  /\ \/ wish' = ~wish /\ UNCHANGED spec
     \/ spec' \in Guards \ {spec} /\ UNCHANGED wish
  /\ UNCHANGED <<on, arming, probeVars, cancelled, load, inst>>

-----------------------------------------------------------------------------
ProbeStep(p) == ReadSealed(p) \/ Refused(p) \/ Admitted(p)
InstallStep(i) ==
  StartApply(i) \/ Install(i) \/ InstallFails(i) \/ Record(i) \/ EndArming(i)

DirectNext ==
  \/ \E p \in Probes : Hold(p) \/ ProbeStep(p) \/ WatchTick(p) \/ ProbeEnds(p)
  \/ \E d \in Downloads : Request(d) \/ ReadStops(d) \/ ReadEnds(d)
  \/ SyncInstall \/ BootInstall
  \/ \E i \in Installers : Clear(i) \/ InstallStep(i)
  \/ UserActs

\* A ticker, a read in a loop and an installation under way go on; nothing makes a
\* probe that was not cancelled end.
DirectFairness ==
  /\ \A p \in Probes : WF_directVars(WatchTick(p))
  /\ \A d \in Downloads : WF_directVars(ReadStops(d))
  /\ \A i \in Installers : WF_directVars(InstallStep(i))

DirectSpec == DirectInit /\ [][DirectNext]_directVars /\ DirectFairness

-----------------------------------------------------------------------------
(* Properties.                                                             *)

DirectTypeOK ==
  /\ wish \in BOOLEAN /\ on \in BOOLEAN /\ arming \in BOOLEAN
  /\ spec \in Guards
  /\ held \subseteq Probes /\ cancelled \subseteq Probes
  /\ probe \in [Probes -> [pc: {"idle", "held", "asks", "probing"}, sealed: BOOLEAN]]
  /\ load \in [Downloads -> BOOLEAN]
  /\ inst \in [Installers ->
       [pc: {"idle", "apply", "install", "record", "end", "over"},
        sealed: BOOLEAN, was: BOOLEAN, robbed: BOOLEAN]]

Loose(p) == probe[p].pc = "probing" /\ p \notin cancelled

\* From the moment an installation that seals has cancelled what was registered until
\* it is over, no probe is out that nobody cancelled: neither one that was running,
\* nor one that registered meanwhile, nor one that had read other settings before.
\* The exception is named: while the boot reconciliation, which does not take
\* guardMu, overlaps another installation, the end of one clears the flag of both.
SealingFindsNoProbe ==
  \A i \in Installers :
    AtWork(i) /\ inst[i].pc # "apply" /\ inst[i].sealed /\ ~inst[i].robbed
      => \A p \in Probes : ~Loose(p)

\* A probe the mutual exclusion misses - the overlap above, settings tightened between
\* the two times applyGuard reads them, or a guard that seals only since the settings
\* changed - is still cancelled, and a download stops, once a sealing guard is on
\* record for good.
SealedStopsDirect ==
  <>[](on /\ spec = "sealed")
    => <>[](/\ \A p \in Probes : ~Loose(p)
            /\ \A d \in Downloads : ~load[d])

\* The flag does not outlive the installations: stuck, it would forbid every update
\* check and probe until the service restarts, connected or not.
ArmingEnds == arming ~> ~arming
=============================================================================

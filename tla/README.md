# A verification of the GodusEVPN service

GodusEVPN is a VPN client: a background service (the *daemon*) runs a sing-box
core, user interfaces (desktop app, tray, command line, web panel, Android)
tell it over a local control channel what the user wants, and the daemon keeps
the operating system in the state the user asked for: a tunnel, a packet
filter that lets nothing out around it (the *guard*), network adapters without
public IPv6 addresses, a system resolver pointed into the tunnel. Most of that
state outlives the process, most of it is changed by several goroutines, and
some of it by a second process.

This directory holds TLA+ models of the parts where that is hard to get right,
the configurations TLC checks them with, and proofs checked by TLAPS.

| module | what it is | models |
| --- | --- | --- |
| `ConnPromise` | abstract specification: what the connection state machine promises about the data plane | `internal/state` |
| `ConnMachine` | the state machine in full, one action per section under its mutex; shown to implement `ConnPromise` | `internal/state/machine.go` |
| `MCConnMachine` | symmetry for TLC | |
| `ConnMachineProofs` | the theorems about `ConnMachine` | |
| `GuardSync` | who installs and removes the guard, and when | `internal/daemon` (daemon.go, refresh.go), uses of `state` and `netmode` |
| `MCGuardSync` | symmetry for TLC | |
| `GuardSyncProofs` | the theorems about `GuardSync` | |
| `NicScripts` | the two scripts that switch IPv6 off and on for the adapters, line by line, and the files they keep | `internal/netmode/nic_windows.go`, `niclock_windows.go` |
| `NicIPv6` | who runs those scripts, and when; EXTENDS `NicScripts` | `internal/daemon/daemon.go`, `internal/guardfix` |
| `MCNicIPv6` | what TLC starts them from | |
| `NicIPv6Proofs` | the theorems about both | |
| `SessionWatch` | when a QUIC session is condemned, and who sets it up again | `internal/core/session_watch.go`, `internal/daemon/session_policy.go` |
| `DirectHold` | what the service does outside the tunnel, against a guard coming up | `internal/daemon/directhttp.go`, `refresh.go` |
| `ExitLookup` | the exit address shown to the user, and the lookups that race for it | `internal/daemon/daemon.go`, `startfail.go` |
| `MCServices` | these three, one at a time, for TLC | |
| `ServicesProofs` | the theorems about the three | |
| `PacketFilter` | what the filters of the three systems let through, and a contract for it | `internal/netmode` (wfp/, guard_linux.go, guard_darwin.go) |
| `RouteConfig` | the core's routing and DNS rules, the firewall's share of them, and which changes go live | `internal/builder`, `internal/daemon/daemon.go` |
| `WfpGuard` | the transactions that install and remove the guard on Windows | `internal/netmode/wfp/guard.go`, `rules_forward.go` |
| `MCFilters` | these three, one at a time, for TLC | |
| `FiltersProofs` | the theorems about the last two, and about the three together | |
| `Subscriptions` | settings, fetched lists, prepared configuration, running core | `internal/daemon` (daemon.go, manual.go, refresh.go), `internal/core/core.go` |
| `LinuxBoot` | a Linux computer from power-on to the service, and after uninstallation | `internal/netmode` (guard_linux.go, nic_linux.go), `internal/svc/init_linux.go` |
| `PfGuard` | the guard of macOS among other users of pf | `internal/netmode/guard_darwin.go`, `internal/svc/init_darwin.go` |
| `Versions` | which of two versions is newer, a pure operator | `internal/update/update.go` |
| `Update` | from a publisher's uploads to a restarted program | `internal/update`, `internal/uiapi` (service.go, install_unix.go) |
| `SubscriptionsProofs`, `UpdateProofs` | the theorems about `Subscriptions`, and about `Update` and `Versions` | |
| `MCHost` | `Subscriptions`, `LinuxBoot`, `PfGuard`, `Update`, one at a time, for TLC | |
| `HostProofs` | the theorems about `LinuxBoot`, about `PfGuard`, and about the four together | |

To repeat a run: `tlc -config <cfg> <module>`; the proofs: `tlapm
<module>Proofs.tla`. `PROJECT.json` names the module and the cfg of every
run and the source lines behind every definition.

## 1. Inventory

Packages are under `src/internal` unless a path is given.

### 1.1 The daemon and what it drives

**Connection state machine** (`state`). State: the user's wish `wanted`,
`closed`, the cancel function of the current run, a configuration `pre` left
for the next run, a kick channel, the snapshot shown to the user. Operations:
Connect, Disconnect, Shutdown, Restart, RestartChecked, CheckNow, and the run
goroutine they start: prepare, start, watch, recover, rebuild, back off. Hard:
operations overlap with each other (one goroutine per control connection) and
with the run; preparation takes minutes, without the lock; a failed start has
to be undone. Correct when: one actor at a time on the data plane, the wish is
followed and never revived, the status does not lie, the retry loop never
ends by itself.

**Guard alignment** (`daemon`: syncGuard, applyGuard, guardReady,
reconcileGuard, guardWatchLoop, restartForPrivacySettings, the handlers of
MConnect, MDisconnect, MSetMode, MSetSettings, MRemoveProfile). State: wish and
settings in memory and on disk, whether each could be read, the record of what
was installed (`guardOn`, `guardApplied`), the hold of a transaction, and the
filter itself, which is in the kernel. Hard: everything is shared between
handlers, run, watchdog and boot; the filter outlives the process and can be
flushed by others; every failure must leave the safer state. Correct when: the
filter ends as wish and settings demand, is removed only when the user asked,
and repairs itself.

**Adapter IPv6** (`daemon`: syncNICIPv6, reconcileNICIPv6, nicReady,
nicIPv6Loop; `netmode`: nic_*.go; `guardfix`). State: the bindings themselves,
a backup of the user's settings, a waiting list of adapters that were absent,
flags in memory. Hard: scripts can be cut short at any line, adapters come and
go, two processes do it, and a mistake leaves a user without IPv6 for ever or
exposes an address. Correct when: the user's own setting can always be put
back, nothing of theirs is switched on, and the adapters end as wanted.

**Settings and publication** (`daemon`: setSettings, settingsSnapshot,
preparedMatchesCurrent, modeSwitch; `settings`). A generation number ties a
configuration that took minutes to prepare to the settings it was built from.
Handlers read, change and write back the whole record, most of them without
the mutex the privacy transactions use. Correct when: a core never starts with
a configuration of other settings, and no change is lost.

**Direct HTTP during startup** (`daemon/directhttp.go`). Subscriptions and rule
sets are fetched around the tunnel only while no guard forbids it; a request in
flight has to be cancelled when the guard comes up.

**Probing, exit lookup, subscription refresh** (`daemon`: probe.go, refresh.go,
session_policy.go). Results arrive late and out of order and must not be
attributed to a node or a session they are not about.

**Core session** (`core`). Starts and stops sing-box, watches whether it died,
keeps the open connections' list for the interface.

**Packet filter, protection of DNS and routes, gateway mode** (`netmode`:
guard_*.go, wfp/, boot_*.go, gateway_linux.go, local_*.go, atomic.go). One
implementation per system. Correct when: a replacement never passes through a
state that lets traffic out, and what was changed can be undone after a crash.

**Configuration builder** (`builder`). Pure: settings, profile and rules to a
sing-box configuration and to the guard's list of destinations let through.

**Profiles and node links** (`profile`, `nodelink`). Pure parsing, and a cache
on disk.

**Devices, LAN scan, diagnosis, crash reports** (`daemon`: devices_*.go,
lanscan.go, diag*.go, crash*.go, startfail.go, selfproc_*.go).

**Rule sets, TLS roots, Clash API client** (`ruleset`, `tlsroots`, `clash`).

**Logs** (`logx`). A ring in memory and a rotating file; a filter rewrites what
has been written when the user turns the log off.

**Update** (`update`). Asks two sources for the latest version, compares, and
downloads with a checksum and a signature.

### 1.2 Between the daemon and the user

**Control channel** (`ipc`): a server with one goroutine per connection, a
deadline, and panics caught. **Web panel** (`web`): sessions, failures counted
per address, server-sent events. **Interface service** (`uiapi`), **command
line** (`cli`), **Android binding** (`mobile`), **desktop app** (`cmd/godusevpn`,
`web/`), **Android app** (`android/`). They keep no state of the system; they
call the daemon. **"Restore network"** (`guardfix`) is a process of its own
that undoes what the service did when the service does not answer.

**Installation** (`svc`, `cmd/godusevpn-svc`, `cmd/godusevpn-daemon`,
`autostart`, `installer`, `deploy`): service registration and the uninstall
path. **Helpers** (`paths`, `redact`, `buildinfo`).

### 1.3 How they interact

```
 UI / CLI / web / Android --ipc--> handlers --+--> state.Machine --run--> prepare/start/stop/health (Deps)
                                              |                              |        |
                               settings file, state file                 builder    core (sing-box)
                                              |                              |
   boot: New -> Run -> reconcile* ------------+--> syncGuard ---------> netmode guard (kernel filter)
   loops: guardWatchLoop, nicIPv6Loop, probe -+--> syncNICIPv6 -------> netmode NIC scripts (PowerShell)
                                                                              ^ named mutex
   guardfix ("restore network", another process) ----------------------------+--> ipc, settings file, filter
```

The machine calls the daemon back (`Deps`), the daemon calls the machine: locks
are taken in the order connOpMu / settingsOpMu, opMu, guardMu or nicMu, mu.
`PROJECT.json` lists under "hazards" where each part can go wrong.

## 2. How the project is put together

The modules were written in the order of what users depend on most: the
connection (3), the guard (4), the adapters (5), the services behind the
connection (6), what the filters and rules say and how they are installed (7),
what the service keeps on the computer (8). Each section names the runs, their
bounds, what they show and what they leave out. Section 9 lists what the code
does not do although a comment or a reader would expect it, section 10 what is
proved, section 11 what is not modelled.

Components compose where they act on each other: `NicIPv6` EXTENDS `NicScripts`;
`Update` EXTENDS `Versions`; `ConnMachine` implements `ConnPromise`:
`Promise == INSTANCE ConnPromise WITH wanted <- wanted, closed <- closed,
engaged <- engaged, plane <- plane`, `PromiseKept` a property of the run and a
theorem. `GuardSync` and `NicIPv6` contain the part of the machine and of the
handlers they depend on. Components that share no state are checked side by
side: in `MCServices`, `MCFilters` and `MCHost` a variable `part` chooses at the
start whose behaviour it is and the others stay as they begin. The states are
the union of theirs, not the product, and nothing is shared that a composition
could break.

| run | module, cfg | question |
| --- | --- | --- |
| `conn_safety`, `conn_live` | `ConnMachine*.cfg` | one actor, wish followed, status honest, promise kept; it connects and every operation ends |
| `guard_safety`, `guard_live` | `GuardSync*.cfg` | the filter ends as wanted, is opened only on request, repairs itself |
| `nic_safety`, `nic_live` | `NicIPv6*.cfg` | the user's own setting survives, adapters end as wanted; it connects, unseen |
| `services` | `Services.cfg` | sessions, direct requests, exit lookups |
| `filters` | `Filters.cfg` | packet filters, routing rules, WFP transactions |
| `host` | `Host.cfg` | subscriptions, Linux boot, pf, update |
| `guard_boot`, `nic_pending`, `boot_ra` | one property each | expected violations: what a comment says and the code does not do (section 9) |

## 3. ConnMachine

State is the fields of `Machine` under their own names (`wanted`, `closed`,
`cancel`, `pre`, `kick`, `snap`), the holder of `opMu`, a program counter per
caller (`pc`, with the operation `op`) and per run goroutine (`rpc`), the
run's context, its count of failures and its one Recover, and the data plane
(`core`). A section under `mu` is one action; each call into the data plane is
two (it begins, it returns), so anything can happen during it. Actions bear
the names of the methods, or of the step of the method they are.

Abstracted: time (a timer may fire whenever it is armed); a configuration, to
whether there is one; the retry count, error codes and texts in the snapshot.
Not modelled: the branches for a nil Health or Recover, which the daemon never
leaves nil.

*Runs.* `conn_safety`: three callers, six operations, two run identities, so
that an operation can overlap two others and the run of a third; `GiveUp` = 4
as in the code. Six operations are enough for connect, restart, disconnect,
connect with two overlapping it. `PlaneHasOneActor`, `LoopMatchesIntent`,
`StatusIsHonest` (nothing left behind when stopped; "disconnected" only over a
plane that is down; two failed checks are shown), `RequestsAreKept` (a withdrawn
wish is not revived, a check that was asked for is made), `TeardownIsJustified`,
`PromiseKept` (the abstract specification), `TypeOK`. `conn_live`: two callers,
three operations, no symmetry: `ConnectsAtLast` and `OperationsEnd` (every
operation returns, and what it asked for comes about).
Fairness there: weak fairness for every step a caller or a run can take (the Go
scheduler; timers fire; calls into the data plane return, each has a timeout),
strong fairness for the run's noticing that its context is cancelled (select
picks at random among the ready cases), and strong fairness for a success of
Prepare and of Start: the assumption on the world that makes "connects at
last" worth asking.

*Proofs* (`ConnMachineProofs`, 935 obligations). Every safety property above holds for
any set of callers and runs, any `GiveUp` >= 2 and any number of calls. None is
inductive. The invariant `IInv` adds to `TypeOK`: `LockInv` (a caller inside an
operation holds opMu), `RunInv` (which runs are alive, who may cancel them, and that at
most one is), `CoreInv` (a plane that is up has someone who serves or stops it),
`IntentInv` (what the operation in progress implies about the wish), `StatusInv` (what
may go on under each status, and how the count of failures stands to it). Each action
has a lemma that it keeps `IInv`; `Invariance` puts them together. The action properties
follow from `IInv` step by step. `PromiseHeld` is the refinement: `plane` and `engaged`
map the state, and each action maps to an action of `ConnPromise` or leaves the mapped
variables alone. Assumed: `ConnAssumption` only.

## 4. GuardSync

State: wish and settings on disk (`disk`, `file`) and in memory (`wanted`,
`bootWanted`, `settings`, `trusted`), the machine's `closed` and context, the
data plane as far as it matters (`plane`: down, sealed for strict mode, plain),
the filter in the kernel (`fw`) and the daemon's record (`guardOn`,
`guardApplied`, `guardHold`). Settings are one of three: strict (guard and
global mode), rule (guard, rule mode), off. Goroutines: two handlers, the run,
the watchdog, boot; mutexes (connOpMu, settingsOpMu, opMu, guardMu) are read
off the program counters. syncGuard is sync, queue, decide, install / record
or clear / cleared; guardReady and guardTunUp act without guardMu, as in the
code. A handler keeps what it read (`loc`: the settings before its transaction, those
it asks for). History variables say what a property excuses: `owed` (the last
alignment failed, was withheld, left out or misled), `asked` (the wish last carried
out), `late` (wish or settings changed since guardMu was taken), `early` (a
handler was called before the boot sequence was over, or after the stop began),
`undone` (a removal wrote settings back over newer ones); the last two are of one life
of the process. An alignment that judged before such a change settles no debt
(`StillOwed`).

Environment: `Tamper` (another program flushes the filter, on Linux and macOS),
failures of the filter, of files and of builds, `Kill`, `Stop`.

*Runs.* `guard_safety`: two handlers, two calls, one fault, all interleavings;
about a million states. Two calls suffice to overlap any two requests with the
run, the watchdog and one fault; handlers begin once boot has finished
(`EarlyCalls` = FALSE), because the other case is `guard_boot`. `GuardMatches`:
when all have answered, the filter is what settings and wish demand.
`OpenedOnlyOnRequest`: it is removed only if the wish last carried out was to
disconnect, or settings ask for no guard, or by the reconciliation at boot behind the
back of a handler called early. `guard_live`: one handler, all
operations, failing disk: `GuardConverges`.
Fairness: weak for each goroutine, strong for guardMu. Nothing is assumed of
the user, the disk or the flushing program except that faults are finite in
number.

`guard_boot` is a violation: reconcileGuard removes the left-over filter without
guardMu while handlers are already being served (section 9).

*Proofs* (`GuardSyncProofs`; assumed: `GuardConstants`). The inductive invariant has
three layers, each proved with the ones before it. `Shape` says which goroutine is
where: one is in guardMu, one changes the data plane, at most one privacy transaction is
open, and what each has read is of the kind its place needs; `GuardTypes` and
`GuardAlways` follow. `Judged` says what whoever is about to remove the filter knows:
the wish and the settings it read are those of now, or one has changed since and `late`
tells; `GuardOpensOnRequest` is a step from there. `Settling` is about work still owed:
whenever filter and demand disagree, somebody is on the way to align them who has not
judged yet, or the disagreement is excused; `GuardSettles` is the case in which nobody
is on the way any more.

Both theorems are for all values of the constants: handlers that are served while the
boot sequence is under way (`EarlyCalls`; daemon.go:308-312 does serve them), a disk
that takes no writes, removed subscriptions. What these cases break is excused by name,
where it happened in this life of the process. `GuardOpensOnRequest` excuses
reconcileGuard, and nobody else, for a removal behind an early handler (`guard_boot`).
`GuardSettles` is `GuardMatches` while neither `early` nor `undone`: the removal of a
subscription reads the settings, drops an entry and writes the record back, which undoes
what another handler has saved meanwhile (daemon.go:2400, 2411); a handler that saves the
newer settings once more then compares them with what it had read, and does not align. A restart and a rollback that both fail release the hold and return without
an alignment (daemon.go:1199), and what was withheld for the transaction is made up for
by nobody but the watchdog: that is a debt (`owed`), and where the settings changed
before the transaction was through, the next alignment settles it only if it judged
after the change. Both statements hold in TLC's run with every constant at its widest as
well (two handlers, two calls, one fault; ten million states, too many for a run kept
here).

The first attempt at `Settling` failed on five calls beyond the bounds of the run: an
alignment withheld for a connect whose settings could not be read is a debt (`owed`); an
older one, judged before the connect, cleared it; saving the same settings again
makes them trusted without an alignment. The code does what it should; the history
variable excused too little. `StillOwed` is the correction.

Deadlock checking is off here and in `NicIPv6`: when the bounds are used up
and the user is disconnected, an idle service has nothing to do.

Not modelled: the texts of `guardErr`; DNS and routes; `GuardPersistentReady`
(folded into "is the filter there"); a first save of settings that fails
(nothing changes).

## 5. NicScripts and NicIPv6

`NicScripts` has the adapters (`orig`: the user's own setting, `enabled`,
`present`), the two files (`filed`, `backup`, `waiting`), the copies of unreadable rows
in the .bad file (`evidence`), the adapters whose loss was reported (`told`) and, per
process, the script it runs, at which line,
with what it read at the start. One action per effect: a file replaced, an
adapter changed, a listing taken. Copying an unreadable row to .bad may fail, and
the script goes on; reporting it is the process's, after the script has ended
(`Report`, before the backup is removed once more; `Reap`, after a disabling), and a
script that throws, a power cut or a process that dies first (`Dies`) leaves it
unreported: `missed` remembers a row that is then nowhere. Processes are `Owner`s; a
PowerShell child whose process died goes on in an `Orphan` slot, outside the mutex. Its own
`NicSpec` lets any process run any script at any time; `NicIPv6` restricts who
does.

`NicIPv6` has the service's goroutines (one handler at a time, run, watch loop,
boot), nicMu read off their program counters, the flags in memory and the
"restore network" tool with its detours over the control channel. Settings are
one of three: strict, loose (connect even if switching off fails), leave.

*Runs.* All with one adapter, removable, on a network with public addresses:
its absence gives the states with no adapter, and for more than one the theorems
below speak. `nic_safety` has two kinds of behaviour (`MCNicIPv6`). The service: one
call, one plug or unplug, one fault, a crash whose script goes on. One call is enough to
overlap a handler with the run, the loop, boot and (instead) the tool; the tool's own
two calls come on top. And the two scripts by themselves, run by two processes and an
orphan at any time, with three faults and two plugs: what it takes to damage a row, lose
its copy and then die before the report. `UsersChoiceKept` is `OriginalsKept` (a setting
of the user's that is off now is in the backup, on the waiting list or in .bad, or its
loss was reported or is about to be by whoever holds the script's result) and
`UsersOffKept` (nothing of theirs is switched on); `NicMatches`.
`nic_live`: the service alone, without orphans, on an adapter the user has IPv6 on
for (another never shows an address): `ConnectionSettles`, which is `StaysDark` and
`ConnectsInTheEnd`. Fairness: weak for every goroutine, for the tool and for every
script (nothing kills a PowerShell that works).

`OriginalsKept` excuses two situations by name, and TLC finds the setting lost in either
when the excuse is taken away: a script starts next to an orphan (`overlap`), since an
abandoned mutex is granted; and a row could not be copied to .bad and its report was cut
off (`missed`).

`nic_pending` is a violation (section 9).

*Proofs* (`NicIPv6Proofs`). `OriginalsKept` and `UsersOffKept` hold
of both specifications for any adapters, any orphan slots and any bounds on faults and
on plugging; of `NicSpec` also for any set of processes. Neither is inductive.
`UsersOffKept` needs that no row, list or plan says "on" of an adapter the user has off
(`OffStore`, `OnlyTheirs`). `OriginalsKept` needs more, since the scripts act on what
they read earlier: while there was no overlap one script is at work at a time (`Alone`),
and at each of its lines every setting that is lost if it stops there is in the files,
or in .bad, or reported or still owed a report (`Owes`), or in its plan for the lines to
come (`PlannedByDisable`, `PlannedByRestore`); a row that is wrong about the user is one
that was given up in one of these ways, or `missed` (`KeptStore`). Each action has a lemma; those of one script go through `Moves` or
`Ends`, the start of one through `Starts`, the rest through `Stops`. `NicIPv6Proofs`
classifies the steps of the service and the tool as one of these or as `Calm`. Assumed:
`NicConstants` and `ServiceConstants`.

`NicMatches` is about the moment when everybody has finished, and what it says of that
moment is true because of what was decided long before, by four goroutines that look at
settings and wish under different locks. Its invariant `MatchInv` holds of the service at
every step. `Types`, `Places`, `Returns`, `CallShape` and `Wish` say where each goroutine
may be, where an alignment returns to, and how wish, disk and request fit. `Exclusive`:
one goroutine is past nicMu, and the service's script is that one's. `Honestly`: what a
script without a rival has done by its lines, namely that switching off has seen every
adapter that is there, and that switching on ends with no backup. `Decided`: who is past
nicMu does what settings and wish ask now, or somebody is sure to take nicMu and decide
again (`SureSync`: a handler that has still to settle, a run that has not been ready, a
boot that is not through). `Aligned`: if nobody is past nicMu or sure to be, and nothing
failed, the adapters are as asked. Each action has a lemma for each part it can disturb.
`AdaptersAlwaysMatch` and `NicTypesCorrect` are for any adapters, orphan slots, calls,
crashes and faults. The liveness properties are model-checked only.

Not modelled: the variant for macOS (Linux is in `LinuxBoot`); an enumeration of adapters
that fails or errs; the back-off of the watch loop (it delays, never stops);
warnings' wording; two handlers at a time (GuardSync has that).

## 6. SessionWatch, DirectHold and ExitLookup

Checked in one run, `services`.

`SessionWatch` keeps the fields of `sessionWatch` and `watchedConn`. Time is a
tick of 20 seconds and instants are ages, capped above every threshold they are
compared with, so the model is finite without a bound on the length of a
behaviour. The counting of a failure is a step apart from the stream's decision
that it failed: data may come between. Setting a session up again is a goroutine
of its own with its attempts. `tally` (failures by age) and `owed` (torn down in
use and not set up since) are history. Bounds: one stream of which everything
happens in any order, and any number of failed dials beside it, which is what
other streams amount to for the counters; two failures condemn instead of five,
two attempts instead of three; window, cooldown and the order between them as in
the code (2 ticks, 3 ticks), and a handshake window of less than a tick.
`SickIsRight`: a session is condemned only for enough failures within the window
on a session that delivers nothing, never overlooked when there are, and one
stream counts once. `OneWarmer`: one goroutine sets it up, and the flag tells.

`DirectHold` has the settings as the guard they ask for, the record `guardOn`, the
flag `guardArming`, the register of probes, and two installers: syncGuard under
guardMu and reconcileGuard without it. `robbed` is history: another installer
cleared the flag this one relies on. The filter itself is not in the model, since
nothing here asks it (GuardSync has it). `SealingFindsNoProbe` names the exception;
without it TLC shows boot and a handler installing at once, the first failing, its
endArming letting a probe out while the second installs. `SealedStopsDirect` says
that what got through such gaps still stops. Bounds: one probe and one download;
each touches only its own entry of the register, and the theorem is for any number.

`ExitLookup` has the core's two groups (the node in use, the automatic choice),
the exit that is shown with the node it is ascribed to and whether it is ten
minutes old, and a few slots for lookups, which are begun by a connection, a
choice of a node, the settings, a health check or a recovery, and end in any
order or not at all. The generation number is kept as what it is compared for:
is this the latest lookup? `ShownExitIsValid`: an answer never brings back an
address from before the exit was last cleared, and none is shown once lookups are
switched off, except after a rollback (`reverted`, section 9): settings that need a
rebuilt connection are saved first, and a rebuild that fails under tightened ones puts
the old ones back. The third part of `BackgroundEnds` says that with nothing but time
passing the address of the node in use is found and stays. Bounds: two nodes, two
lookups at a time, one request or one surprise (a move of the group, a check out
of turn), one stop, one failure (of a lookup, a rebuild or a rollback).

`BackgroundEnds` is liveness for all three: warming up ends, arming ends, the exit
settles. Fairness: goroutines that were started run on, installations return, the
ticker of a probe ticks, a body is read until it ends, health checks go on. Nothing
makes a probe end by itself.

*Proofs* (`ServicesProofs`). `SealingAlwaysFindsNoProbe`: the invariant adds that a
probe that has begun is registered (`Registered`), so cancelDirect reaches it, and that
a sealing installation has its flag up unless robbed (`FlagUp`), so none is admitted
after that. `AlwaysOneWarmer` and `SickAlwaysRight` are for any thresholds and any
number of goroutines. The second rests on two links between the row the code counts (a
number and the instant of its first failure) and the failures that happened (`tally`):
those of this instant are all in the row, so a burst is not overlooked (`StreamInv`),
and the row has no more than happened since its first, so a verdict is earned
(`RowInv`, by injections from the older failures to the newer ones: one more at a
failure, a shift at a tick). `ExitAlwaysValid`: the invariant adds that one lookup at
most is the latest (`OneLast`), that it asks for a node that has been in use since the
exit was last cleared, and not while the address is hidden, unless by a rollback
(`LastIsSince`). Assumed:
`SessionConstants`, `ExitConstants`. `ServicesTypeCorrect` puts the types of the three
together.

Not modelled: the choice of a resolver and a client for a subscription fetched
behind the guard; throttling of `touch` to once a second, far below a tick; the
latency that is shown beside the exit; in mode "direct" nothing is looked up.

## 7. PacketFilter, RouteConfig and WfpGuard

Checked in one run, `filters`.

`PacketFilter` writes the three filters down as their systems evaluate them: WFP
filters with layer, weight and conditions, of which the heaviest that matches
decides (`WfpSet`, `WfpPasses`); nftables chains and pf rules as sequences of which
the first that matches does (`outputChain`, `forwardChain`, `guardRules`). A packet
is one of about a thousand classes: direction, family, what it leaves through, who
sent it, to what kind of address (168.63.129.16 among them, the cloud platform's, which the Linux
filter opens for root together with the LAN), which service. A guard specification says whether
it is the rule guard, whether the LAN, the gateway and DNS are included, and what
the rules send direct. The contract (`MayLeave`, `MayForward`) has no order and no
weights; `FilterIsRight` says for every specification and every packet that nothing
else leaves, on any system and in the seconds of a boot before the full set is in
force; that what has to work passes; and that a sealed guard that has lost a filter
and still counts as complete lets nothing more out. All specifications are checked,
not a sample.

`RouteConfig` has the settings that shape a configuration, the core's rules and DNS
rules as `buildConfig` and `dnsRules` order them, and the list the firewall gets
(`RuleGuard`, laid from the last rule to the first). `DirectIsMeant` compares the
two: what the firewall lets out while the core is down is what the rules send
direct, the strict global mode has nothing direct but nodes and an allowed LAN and
asks no DNS in the clear, and a name is asked outside the tunnel only if its
connections go there. `SwitchIsFaithful` is about `SetMode` and `SetSettings`:
a change the daemon switches live leaves the core behaving as one started from the
new settings, for every connection and every name. Which settings there are is a
parameter: the lists of rule groups (`Lists`), what a behaviour starts with (`Starts`),
what it moves among (`Families`) and whether it goes on doing so while an older
configuration is kept (`Onwards`). The run combines lists of up to two groups out of
eight with all other settings (overlaps, every kind of condition and outbound, a
group that is off); two suffice for an order to matter, and the theorems are for lists
of any length.

`WfpGuard` has the engine's store as groups of filters (of an old version, the full
set, the two boot-time sets), the objects they hang on, the permit for the tunnel's
interface index, and four actors: syncGuard, start and stop of the core, the retry
loop, and another process that clears the guard. One WFP transaction is one action.
`NoGap`: nothing opens the computer but a removal somebody asked for, not an upgrade
from the old generation, a failure or a crash; `ReportsAreHonest`: a removal that is
reported has left nothing, a guard reported without a warning covers the boot;
`ForwardingComesBack` (liveness): shared connections get the tunnel again after every
reinstall. A TunUp that succeeded clears tunUpPending (refresh.go:511) only after it has
given wfp.mu back, an action of its own: a reinstall whose own TunUp fails and notes it
fits in between, and its note is wiped. That case is excused by name (`wiped`). Bounds:
two operations on the guard, a start of the core, one run of the other process, one
fault. Fairness: what has begun goes on, the adapter shows up,
the loop retries.

*Proofs* (`FiltersProofs`). `DirectAlwaysMeant` compares two lists that are laid in
opposite orders, for any number of groups. Both are recursive functions over the length
of the list, and induction is by a least counterexample (`LeastOf`, `UpTo`): of the
groups that claim a connection the first decides (`GroupsDecide`), and of the layers
over an address the one of the first group shows (`LayersMean`). The rules before the
groups, the groups and the defaults each say which connections they decide and how
(`RuleRoute`), and the two lists agree (`FallbackSame`). For names, a query that goes
out in the clear is one no group ahead wants for the proxy (`LocalMeans`, `NamesSame`).
`StrictIsSealed` is the part about the strict global mode, stated by itself.
`SwitchesAreFaithful`: a change that is switched live leaves everything the
configuration is built from alone but the mode, and each rule looks at the mode either
when it is built or when it is matched, so that the two agree. `GuardHasNoGap` and
`GuardReportsAreHonest` are for any number of operations, starts, foreign clearings and
faults; the invariant adds what each transaction has seen by the line it stands at,
given that another process may clear the store between any two. `FiltersAlwaysRight` is
about whichever part the run is in. Assumed: `RouteConstants` (the lists are lists of
groups, the settings are settings) and `WfpConstants` (bounds are numbers).

`FilterIsRight` has no theorem and needs none: `PacketFilter` has no constants, so that
TLC's run goes through all there is.

Not modelled: WFP conditions below the classes (interface types, exact ranges);
the gateway's NAT; a filter deleted while the gateway or the rule guard is on, where
`guardCovers` does not claim to notice; sing-box beyond first match.

## 8. Subscriptions, LinuxBoot, PfGuard and Update

Checked in one run, `host`, each with the small families of bounds named in
`MCHost`; a family has a member for every hazard that needs it (a change of the list
and a request; a stale list and a restart; two boots; two faults of other programs).

`Subscriptions` has one control handler, the timed refresh and the connection loop.
State: settings (addresses, the active subscription, the chosen node), the cache with
its files, what the panel answers, the configuration that is prepared and whether the
settings are still its own, the running core with its list and its group's choice,
what cache.db remembers, `d.running`, and who is refreshing what. Actions are the
parts of a handler between two calls that wait. The machine is reduced to its
mutex, its wish and the loop; of its failures there is the one whose recovery looks for
another node (`LooksForAnother`, `RecoverRoute`: the core is told another choice, the
settings keep the user's, and nothing switches back before the next start or choice;
`borrowed` in the core says so). Two lists differ as the code sees it: a node is gone,
or has other parameters. `RunningIsHonest`: the record by which refreshes and choices
are judged is the core's list, and the core runs the subscription the settings call
active, also when a request was taken back; `SelectedIsInForce`: the core uses the
node the settings name, whatever cache.db says, unless it was borrowed by a recovery;
`WaitersAreAnswered`: who shares
another's fetch is never left waiting. Excused (`failed`): a request that failed half
way and said so. Two subscriptions, one of which may be the user's own list.

`LinuxBoot` runs through a list of steps, since every step of ApplyGuard, ClearGuard,
DisableNICIPv6 and RestoreNICIPv6 is an effect the power can fail before. Whatever a
step loads, writes or deletes may fail, and the list goes on or is given up as the code
does; a disabling that failed counts as done when no public address shows (nicResult).
There may be no nft command (`nft`), which the code supports with the guard off. The
boot unit acts on what is on disk (`ApplyBootGuard`), networkd turns IPv6 on again, a
router advertises. `BootIsQuiet`: with a guard that was put up without a warning the
computer is never on the network without it, even if the file is damaged, and a
disabled adapter gets no public address before the service is up - but for what nft did
not put up at that very boot (`bare`): the unit fails then, and the network does not
wait for it. `ClearedStaysCleared`: what was taken away does not come back, what blocks
is known to the service, and an uninstallation leaves nothing but what it tried to
delete and could not (`stuck`: the sysctl.d file, the unit, the block of router
advertisements; DropNICReboot, DropBootRA and the removal of the units ignore their
errors, and success is reported). All init systems the code distinguishes, with and
without nft; two requests with two faults, with a fault and a reconfiguration, or two
boots with a request and a fault.

`PfGuard`: rules in an anchor, pf's references and the file of their tokens, the
service and the boot guard without a lock between them, and other programs that use
or break pf. `PfMatches`: held while it is wanted, by a reference of the service's own;
gone with everything that belongs to it once it is not. Excused, each by a history
variable: what others took away since, or a failed ApplyGuard that would have been
needed has not put up (`shaken`), another program's reference that an old token or a
service just started took for its own (`borrowed`), a token that could not be written
down (`lost`), what the boot guard or a failed installation put up behind the service's
back (`behind`).

`Update`: releases with packages, checksums and signatures that are uploaded one after
the other and replaced; two checkers and two calls of ApplyUpdate; a file is replaced
by rename; systemd, launchd or procd start what ended. `UpdatesAreGenuine`: whatever
runs was signed and whole, and no start goes back to an older version, however checks,
uploads, crashes and updates overlap; `NotLeftDown`: an update does not leave the
service down. `Versions` is the comparison itself, over any numbers and suffixes.

*Proofs.* `SubscriptionsProofs`: `RunningIsHonest`, `SelectedIsInForce` and
`WaitersAreAnswered` hold for any set of subscriptions and any number of requests,
refreshes, changes of the panel and deaths of the service. They are about moments when no
request is under way; `SubInv` is about all others. `Threading` says where each of the
three goroutines may be and what it carries there, `Handling` what the handler's request
is about at each line, `Fetches` that a fetch is registered by a goroutine that is at it
and will answer, `Plane` how core, loop and the machine's mutex fit, and `Honest` that a
core that does not run what the settings name, or not with the node they name though none
was borrowed, is about to be replaced, by a configuration not yet made or by a restart already under way. Lemmas
about the parts say which moves of a goroutine keep them (what each action does to the
goroutines is said once, in `XTo`), and one lemma for each action goes through the parts.
Assumed: `SubConstants`. `New` is any identifier that is not in use and that no goroutine,
no prepared configuration and no core carries: `NewID` draws it at random, and draws none
twice.

`HostProofs`, first part: `BootIsQuiet` and `ClearedStaysCleared` hold after any
number of boots, requests and faults. Neither is inductive, since the service may die
before any step of its list. `BootInv` adds what a list can look like (`Shape`: which
steps come in pairs, and that unregistering is last), what is known when a step is the
next one (`NextSteps`: at "unlink" the table is gone, at "dropBackup" no adapter is
turned off at a boot any more), what an uninstallation has behind it (`UninstallInv`),
when the service has nothing to do (`RunInv`), and the two properties in a form a boot
keeps (`CoverInv`, `AdapterInv`), each with its excuse.

Second part: `PfMatches` holds after any number of boots, requests, faults and
interventions, with any supply of tokens. `PfInv` follows both processes line by line
(`Listed`: each has the rest of its list before it). `HeldInv` has what ApplyGuard has
done by each of its lines, unless pf was shaken; `ArmedInv` the same of ApplyBootGuard;
`KnownInv` says whose each reference is, in the file, in somebody's hand or lost, and what
ClearGuard leaves at each line, given that the boot guard may put its rules and its
reference behind any of them; `Orderly` that a token in hand is on its way to the file, and
that rules that were removed arm no boot guard. Assumed: `PfConstants`.

Third part: `HostSpec` implements the specification of each component, so that
`HostTypeOK` and all that is proved of the four holds of it (`HostAlwaysRight`).

`UpdateProofs`: `UpdatesAreGenuine` and `NotLeftDown`
for any versions and any number of uploads, checks and calls; the invariant adds that
one call is past the lock (`OneJob`), what each has verified at which line (`Stage`),
against which version it compared (`Compared`), and that nothing found by a process
outlives it (`Forgotten`). Assumed: `UpdConstants`. `NewerTransitive`, `NewerAsymmetric`
and `NewerIrreflexive` say that the comparison orders the versions that parse, and need
no assumption.

Deadlock checking is off in `filters` and `host`: with the bounds used up nothing is
left to do.

Not modelled: two handlers of the interface at a time in `Subscriptions` (GuardSync has
them for the privacy transaction); several adapters on Linux, and a damaged backup there (`NicScripts` has it for Windows);
pf's main ruleset beyond the hook; the Windows installer, the macOS desktop script and
Android's hand-over to its package installer; the rename without fsync of
installUpdate (an ordering of the file system, not of the program).

## 9. What the code does not do

Expected violations, each with its trace in words in `PROJECT.json`:

- `guard_boot`: reconcileGuard clears a left-over filter without guardMu; a connect
  served meanwhile may find its own filter removed, until the watchdog looks.
- `nic_pending`: "restore network" judges by the backup alone and misses an adapter
  that waits to be plugged in again.
- `boot_ra`: the block of router advertisements is lifted together with the guard,
  although the adapters' IPv6 is still on.

Stated in the modules, refuted by TLC when added to the run, and not part of any run
(the hazards in `PROJECT.json` have the traces):

- `NoConfigLeftBehind` (`ConnMachine`): a configuration outlives the run it was for.
- `RecordHonest` (`GuardSync`): guardReady records "off" without guardMu.
- `TornDownIsWarmed` (`SessionWatch`): a change of network between a goroutine's
  success and its return leaves the session down until the next request.
- `ExitIsOfItsNode` (`ExitLookup`): the group moves between beginExit and the
  request; the address is ascribed to the other node for up to ten minutes.
- `HiddenMeansHidden` (`ExitLookup`) without `~reverted`: MSetSettings allows lookups,
  begins one (daemon.go:2717), and the rebuild that other settings of the same request
  call for fails; setSettings(prev) (1193) hides the address again without clearExit, and
  the answer, which carries the latest generation, is stored and shown.
- `DevicesAgree` (`RouteConfig`): a device with policy direct goes out in both
  families while the core is down.
- `NoStalePermit` (`WfpGuard`): TunUp with an index looked up before the core stopped.
- `ForwardingComesBack` (`WfpGuard`) without `wiped`: the success of one TunUp overwrites
  the note of a later failure (refresh.go:511); the permit is gone and nobody retries.
- `OriginalsKept` (`NicScripts`) without `missed`: a row that cannot be read and could not
  be copied to .bad is reported only after the script has ended; a script that throws
  after that (nic_windows.go:65) or a crash swallows the report.
- `SelectedIsInForce` (`Subscriptions`) without `borrowed`: as recoverRoute intends
  (startfail.go:60, "it does not switch back").
- `BootIsQuiet` (`LinuxBoot`) without `bare`, `ClearedStaysCleared` without `stuck`: nft
  fails at a boot, and an uninstallation leaves a file and says that it is done.
- `GuardMatches` (`GuardSync`) with removals and four calls: MRemoveProfile writes back
  the settings it read, the mode and the guard among them, over what was saved meanwhile;
  who has read the newer ones before, and saves them once more, finds nothing changed
  and does not align (daemon.go:2733).
- `PrepareHasNodes`, `RefreshIsNotLost` (`Subscriptions`): prepare goes on with nil
  when the subscription is removed during its refresh; a refresh that ends while a
  restart has the core down does not lead to a reconnection.
- `ReferenceIsOurs`, `DownStaysDown` (`PfGuard`): an old token counts as a reference;
  the boot guard may put up what the service has just taken down.

Seen while reading, not modelled: modeSwitchIsLive compares settings with settings, so
after a relaxing rebuild that failed a later switch goes live on the old configuration
(daemon.go:1126); a 60-second deadline of the control channel covers the handler's own
time (ipc/server.go); guardTunUp reports success for a guard it did not check.

## 10. What is proved

TLAPS checks these for every value of the constants; TLC checked each of the properties
on a small instance first. `PROJECT.json` lists them under "theorems".

| module | theorem | property | assumes |
| --- | --- | --- | --- |
| `ConnMachineProofs` | `TypeCorrect`, `OneActor`, `IntentFollowed`, `StatusAlwaysHonest`, `RequestsAlwaysKept`, `TeardownJustified` | `TypeOK`, `PlaneHasOneActor`, `LoopMatchesIntent`, `StatusIsHonest`, `RequestsAreKept`, `TeardownIsJustified` | `ConnAssumption` |
| | `PromiseHeld` | `PromiseKept`: `ConnMachine` implements `ConnPromise` | `ConnAssumption` |
| `NicIPv6Proofs` | `NicTypeCorrect`, `UsersChoiceAlwaysKept` | `UsersChoiceKept`, of any processes | `NicConstants` |
| | `ServiceKeepsUsersChoice`, `NicTypesCorrect`, `AdaptersAlwaysMatch` | `UsersChoiceKept`, `TypeOK`, `NicMatches`, of the service | `NicConstants`, `ServiceConstants` |
| `GuardSyncProofs` | `GuardTypes`, `GuardAlways` | `TypeOK` | `GuardConstants` |
| | `GuardOpensOnRequest` | `OpenedOnlyOnRequest` | `GuardConstants` |
| | `GuardSettles` | `GuardMatches`, while neither `early` nor `undone` | `GuardConstants` |
| `ServicesProofs` | `AlwaysOneWarmer`, `SessionTypeCorrect`, `SickAlwaysRight` | `OneWarmer`, `SickIsRight` | `SessionConstants` |
| | `DirectTypeCorrect`, `SealingAlwaysFindsNoProbe` | `SealingFindsNoProbe` | |
| | `ExitTypeCorrect`, `ExitAlwaysValid` | `ShownExitIsValid` | `ExitConstants` |
| | `ServicesTypeCorrect` | `ServicesTypeOK` | `SessionConstants`, `ExitConstants` |
| `FiltersProofs` | `DirectAlwaysMeant`, `StrictIsSealed` | `DirectIsMeant` | `RouteConstants` |
| | `RouteTypes`, `SwitchesAreFaithful` | `SwitchIsFaithful` | `RouteConstants` |
| | `WfpTypes`, `GuardHasNoGap`, `GuardReportsAreHonest` | `NoGap`, `ReportsAreHonest` | `WfpConstants` |
| | `FiltersAlwaysRight` | `FiltersTypeOK`, `DirectIsMeant`, `SwitchIsFaithful` | `RouteConstants`, `WfpConstants` |
| `SubscriptionsProofs` | `SubTypeCorrect`, `RunningAlwaysHonest`, `SelectedAlwaysInForce`, `WaitersAlwaysAnswered` | `RunningIsHonest`, `SelectedIsInForce`, `WaitersAreAnswered` | `SubConstants` |
| `HostProofs` | `BootTypeCorrect`, `BootAlwaysQuiet`, `ClearedAlwaysStaysCleared` | `BootIsQuiet`, `ClearedStaysCleared` | |
| | `PfTypeCorrect`, `PfAlwaysMatches` | `PfMatches` | `PfConstants` |
| | `HostTypeCorrect`, `HostAlwaysRight` | `HostTypeOK` and the properties of the four | those of the four |
| `UpdateProofs` | `UpdTypeCorrect`, `UpdatesAlwaysGenuine`, `NeverLeftDown` | `UpdatesAreGenuine`, `NotLeftDown` | `UpdConstants` |
| | `NewerIrreflexive`, `NewerAsymmetric`, `NewerTransitive` | the comparison orders versions that parse | |

The assumptions say what the code's constants are (thresholds are positive, sets are
disjoint, bounds are numbers); TLC evaluates them in every run. Each proof has the same
shape: an inductive invariant in named parts, one lemma per action that it is kept, the
properties as consequences. The bounds on faults, requests and boots are constants
too, so "any number" includes every behaviour of the unbounded program up to any length.

Model-checked only: all liveness properties (fairness and ENABLED are out of the
prover's reach), `SealedStopsDirect` among them; and `FilterIsRight`, where the run is
exhaustive (section 7).

## 11. What is not modelled

- Conversions without a state: parsing of profiles, links and subscriptions, the texts
  of errors, `crashreport`, `diagnose`, the formats of `ipc` and of the control panel.
- Devices, LAN scan, rule sets, TLS roots, the Clash API client, logs: bookkeeping behind
  one lock each, or other programs' services seen from outside.
- User interfaces: the web panel's pages, the command line, the Android binding, the
  desktop and Android applications. They send the requests the models draw freely.
- The macOS variant of the adapters (networksetup), Android's stubs; system DNS on macOS
  and the return routes of the gateway (`Protect`).
- The Windows installer and the desktop scripts, and Android's hand-over of an update.
- Time beyond the order of events, except in `SessionWatch`, whose windows matter.

`PROJECT.json` has the list by component, with what is missing in those that are
modelled in part.

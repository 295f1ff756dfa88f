----------------------------- MODULE LinuxBoot -----------------------------
(***************************************************************************)
(* What protects a Linux computer from power-on until the service is up    *)
(* (internal/netmode/guard_linux.go, nic_linux.go, internal/svc/           *)
(* init_linux.go, cmd/godusevpn-daemon/main.go).  The nftables table and   *)
(* the sysctls that keep the adapters without IPv6 are gone after a        *)
(* reboot; a unit that runs before the network puts them back from what    *)
(* is on disk, and holds router advertisements off, since networkd turns   *)
(* IPv6 on again while it configures an adapter.                           *)
(*                                                                         *)
(* All adapters are one, and their backup is never damaged (NicScripts has *)
(* that).  The service works through a list of steps; the power may fail,  *)
(* or the process die, before any of them, and what a step writes, loads   *)
(* or deletes may fail.                                                    *)
(***************************************************************************)
EXTENDS Naturals, Sequences

CONSTANT BootBounds \* how many boots, requests, faults and reconfigurations of the network

VARIABLES
  kind,       \* the init system; Entware mounts its disk too late for a guard
  nft,        \* there is an nft command
  installed,  \* the service's own unit
  unit,       \* the unit of the boot guard, enabled
  guardMode,  \* what the settings want of the guard: nothing, rule or global mode
  nicSetting, \* wantNICOff(settings)
  trusted,    \* the settings can be read
  wish,       \* state.json: does the user want to be connected?
  file,       \* BootGuardFile
  backup,     \* nic-ipv6-backup.json
  conf,       \* 90-godusevpn-ipv6.conf
  power,
  table,      \* the guard's table
  ra,         \* the table that drops router advertisements
  nic,        \* IPv6 of the adapter
  addr,       \* it has a public address
  up,         \* the service runs
  todo,       \* what it, or an uninstallation, has still to do
  wants,      \* machine.Wanted or bootWanted
  on,         \* d.guardOn
  pending,    \* d.nicDisablePending
  said,       \* what the user was told of the guard last: put up for every boot, taken away
  fresh,      \* the service has not run, nor been removed, since the computer was turned on
  bare,       \* what nft did not put up at this boot, nor since: the table, the block
  stuck,      \* what the last uninstallation could not delete, and said nothing of
  left        \* what is left of the bounds

diskVars == <<installed, unit, guardMode, nicSetting, trusted, wish, file, backup, conf>>
netVars == <<power, table, ra, nic, addr>>
procVars == <<up, todo, wants, on, pending>>
fixedVars == <<kind, nft>>
pastVars == <<said, fresh, bare, stuck>>
bootVars == <<fixedVars, diskVars, netVars, procVars, pastVars, left>>

Uses(what) == left[what] > 0 /\ left' = [left EXCEPT ![what] = @ - 1]
Faulty == Uses("faults")

Now(step) == todo # <<>> /\ Head(todo) = step
Then(steps) == todo' = steps \o Tail(todo)

Load == <<"load", "write">>
Clear == <<"delete", "unlink">>
Disable == <<"record", "turnOff">>
Restore == <<"turnOn", "dropConf", "dropBackup">>

(***************************************************************************)
(* ApplyGuard and ClearGuard                                               *)
(***************************************************************************)
\* A transaction: what fails leaves the old table.
LoadTable ==
  /\ Now("load")
  /\ \/ /\ nft /\ table' = "guard" /\ bare' = bare \ {"table"}
        /\ said' = (IF said = "on" THEN "on" ELSE "nothing") /\ Then(<<>>) /\ UNCHANGED left
     \/ /\ IF nft THEN Faulty ELSE UNCHANGED left
        /\ todo' = Tail(Tail(todo)) /\ UNCHANGED <<table, bare>>
        /\ said' = (IF said = "on" /\ table = "none" THEN "nothing" ELSE said)
  /\ UNCHANGED <<fixedVars, diskVars, power, ra, nic, addr, up, wants, on, pending, fresh, stuck>>

WriteBootGuard ==
  /\ Now("write") /\ Then(<<>>) /\ on' = TRUE
  /\ \/ file' = "good" /\ said' = (IF unit THEN "on" ELSE "nothing") /\ UNCHANGED left
     \/ Faulty /\ said' = "nothing" /\ UNCHANGED file
  /\ UNCHANGED <<fixedVars, installed, unit, guardMode, nicSetting, trusted, wish, backup, conf,
                 netVars, up, wants, pending, fresh, bare, stuck>>

DeleteTable ==
  /\ Now("delete") /\ said' = "nothing"
  /\ \/ table' = "none" /\ Then(<<>>) /\ UNCHANGED <<on, left>>
     \/ /\ Faulty /\ table # "none" /\ on' = TRUE
        /\ todo' = (IF up THEN Tail(Tail(todo)) ELSE <<>>) /\ UNCHANGED table
  /\ UNCHANGED <<fixedVars, diskVars, power, ra, nic, addr, up, wants, pending, fresh, bare, stuck>>

\* DropBootRA, whose error nobody looks at
LiftsBlock ==
  \/ ra' = FALSE /\ UNCHANGED left
  \/ ra /\ Faulty /\ UNCHANGED ra

\* mutant: the file stays
FaultyUnlink ==
  /\ Now("unlink") /\ LiftsBlock /\ on' = FALSE /\ said' = "gone" /\ Then(<<>>)
  /\ stuck' = (IF ra' THEN stuck \cup {"ra"} ELSE stuck)
  /\ UNCHANGED <<fixedVars, diskVars, power, table, nic, addr, up, wants, pending, fresh, bare>>

\* The file goes after the table, and with it what the boot guard put up besides.
Unlink ==
  /\ Now("unlink")
  /\ \/ /\ file' = "none" /\ LiftsBlock /\ on' = FALSE /\ said' = "gone" /\ Then(<<>>)
        /\ stuck' = (IF ra' THEN stuck \cup {"ra"} ELSE stuck)
     \/ /\ Faulty /\ file # "none" /\ on' = TRUE
        /\ todo' = (IF up THEN Tail(todo) ELSE <<>>) /\ UNCHANGED <<file, ra, said, stuck>>
  /\ UNCHANGED <<fixedVars, installed, unit, guardMode, nicSetting, trusted, wish, backup, conf,
                 power, table, nic, addr, up, wants, pending, fresh, bare>>

(***************************************************************************)
(* DisableNICIPv6 and RestoreNICIPv6                                       *)
(***************************************************************************)
\* What is off already is not recorded. Nothing is turned off that is not on record; that it will not
\* stay off is a warning.
Record ==
  /\ Now("record")
  /\ \/ /\ nic = "on" /\ backup' = TRUE /\ conf' = (kind = "systemd") /\ Then(<<>>)
        /\ UNCHANGED <<pending, left>>
     \/ nic = "on" /\ Faulty /\ backup' = TRUE /\ Then(<<>>) /\ UNCHANGED <<conf, pending>>
     \/ nic = "on" /\ Faulty /\ todo' = Tail(Tail(todo)) /\ pending' = TRUE /\ UNCHANGED <<backup, conf>>
     \/ nic = "off" /\ todo' = Tail(Tail(todo)) /\ pending' = FALSE /\ UNCHANGED <<backup, conf, left>>
  /\ UNCHANGED <<fixedVars, installed, unit, guardMode, nicSetting, trusted, wish, file, netVars,
                 up, wants, on, pastVars>>

\* nicResult: what failed counts only if an adapter has a public address.
TurnOff ==
  /\ Now("turnOff") /\ Then(<<>>)
  /\ \/ nic' = "off" /\ addr' = FALSE /\ pending' = FALSE /\ UNCHANGED left
     \/ Faulty /\ pending' = addr /\ UNCHANGED <<nic, addr>>
  /\ UNCHANGED <<fixedVars, diskVars, power, table, ra, up, wants, on, pastVars>>

\* There may be nothing to restore. An uninstallation goes on when it fails.
TurnOn ==
  /\ Now("turnOn")
  /\ \/ backup /\ nic' = "on" /\ Then(<<>>) /\ UNCHANGED left
     \/ ~backup /\ todo' = Tail(Tail(Tail(todo))) /\ UNCHANGED <<nic, left>>
     \/ backup /\ Faulty /\ todo' = Tail(Tail(Tail(todo))) /\ UNCHANGED nic
  /\ UNCHANGED <<fixedVars, diskVars, power, table, ra, addr, up, wants, on, pending, pastVars>>

\* writeNICSysctl(nil): as long as the file is there the backup stays.
DropConf ==
  /\ Now("dropConf")
  /\ \/ conf' = FALSE /\ Then(<<>>) /\ UNCHANGED left
     \/ conf /\ Faulty /\ todo' = Tail(Tail(todo)) /\ UNCHANGED conf
  /\ UNCHANGED <<fixedVars, installed, unit, guardMode, nicSetting, trusted, wish, file, backup,
                 netVars, up, wants, on, pending, pastVars>>

DropBackup ==
  /\ Now("dropBackup") /\ Then(<<>>)
  /\ \/ backup' = FALSE /\ pending' = FALSE /\ UNCHANGED left
     \/ backup /\ Faulty /\ UNCHANGED <<backup, pending>>
  /\ UNCHANGED <<fixedVars, installed, unit, guardMode, nicSetting, trusted, wish, file, conf,
                 netVars, up, wants, on, pastVars>>

DropBootRA ==
  /\ Now("dropRA") /\ Then(<<>>)
  /\ \/ ~pending /\ LiftsBlock
     \/ pending /\ UNCHANGED <<ra, left>>
  /\ UNCHANGED <<fixedVars, diskVars, power, table, nic, addr, up, wants, on, pending, pastVars>>

(***************************************************************************)
(* The service: reconciliation when it starts, synchronization later       *)
(***************************************************************************)
\* Refresh, which may fail; then Run takes the guard it finds for its own.
StartService ==
  /\ power = "online" /\ installed /\ ~up /\ todo = <<>>
  /\ \/ unit' = (kind # "entware") /\ UNCHANGED left
     \/ Faulty /\ UNCHANGED unit
  /\ up' = TRUE /\ fresh' = FALSE /\ todo' = <<"reconcileGuard", "reconcileNic">>
  /\ wants' = (wish = "yes" /\ trusted) /\ on' = (table # "none") /\ pending' = FALSE
  /\ UNCHANGED <<fixedVars, installed, guardMode, nicSetting, trusted, wish, file, backup, conf,
                 netVars, said, bare, stuck>>

reconcileGuard ==
  /\ Now("reconcileGuard")
  /\ Then(IF ~trusted \/ (wish = "unknown" /\ (table = "none" \/ guardMode = "off")) THEN <<>>
          ELSE IF wish = "no" \/ guardMode = "off" THEN Clear
          ELSE Load)
  /\ UNCHANGED <<fixedVars, diskVars, netVars, up, wants, on, pending, pastVars, left>>

Drifted == nic = "on"

NicSteps(want) ==
  (IF want THEN IF ~backup \/ pending \/ Drifted THEN Disable ELSE <<>>
   ELSE IF backup THEN Restore ELSE <<>>) \o <<"dropRA">>

\* keepNICWhenIntentUnknown: what is not known is not relaxed.
reconcileNic ==
  /\ Now("reconcileNic")
  /\ Then(IF ~trusted \/ (wish = "unknown" /\ ((guardMode = "strict" /\ nicSetting) \/ table # "none")) THEN <<"dropRA">>
          ELSE NicSteps(wish = "yes" /\ nicSetting))
  /\ UNCHANGED <<fixedVars, diskVars, netVars, up, wants, on, pending, pastVars, left>>

syncGuard ==
  /\ Now("syncGuard")
  /\ Then(IF ~trusted /\ wants THEN <<>>
          ELSE IF wants /\ guardMode # "off" THEN Load
          ELSE IF on THEN Clear ELSE <<>>)
  /\ UNCHANGED <<fixedVars, diskVars, netVars, up, wants, on, pending, pastVars, left>>

syncNic ==
  /\ Now("syncNic")
  /\ Then(IF ~trusted /\ wants THEN <<>> ELSE NicSteps(wants /\ nicSetting))
  /\ UNCHANGED <<fixedVars, diskVars, netVars, up, wants, on, pending, pastVars, left>>

\* The user connects, disconnects or saves other settings.
Asks ==
  /\ up /\ todo = <<>> /\ Uses("requests")
  /\ todo' = <<"syncGuard", "syncNic">>
  /\ \/ \E w \in BOOLEAN : /\ wants' = w /\ wish' = (IF w THEN "yes" ELSE "no")
                           /\ UNCHANGED <<guardMode, nicSetting, trusted>>
     \/ /\ guardMode' \in {"off", "rule", "strict"} /\ nicSetting' \in BOOLEAN /\ trusted' = TRUE
        /\ UNCHANGED <<wants, wish>>
  /\ UNCHANGED <<fixedVars, installed, unit, file, backup, conf, netVars, up, on, pending, pastVars>>

\* nicIPv6Loop, every five seconds, under the lock the steps above hold
NicTick ==
  /\ up /\ wants /\ nicSetting /\ Drifted
  /\ \A i \in 1 .. Len(todo) : todo[i] \in {"syncNic", "load", "write", "delete", "unlink"}
  /\ backup' = TRUE /\ conf' = (kind = "systemd")
  /\ \/ nic' = "off" /\ addr' = FALSE /\ LiftsBlock /\ pending' = FALSE
     \/ Faulty /\ pending' = addr /\ ra' = (ra /\ addr) /\ UNCHANGED <<nic, addr>>
  /\ UNCHANGED <<fixedVars, installed, unit, guardMode, nicSetting, trusted, wish, file, power, table,
                 up, todo, wants, on, pastVars>>

(***************************************************************************)
(* Installation and uninstallation                                         *)
(***************************************************************************)
Install ==
  /\ power = "online" /\ ~installed /\ todo = <<>> /\ Uses("requests")
  /\ installed' = TRUE /\ unit' = (kind # "entware") /\ fresh' = FALSE
  /\ UNCHANGED <<fixedVars, guardMode, nicSetting, trusted, wish, file, backup, conf, netVars, procVars,
                 said, bare, stuck>>

\* main: the guard must be gone before the program is; the adapters need not, but shall not be
\* turned off at a boot (DropNICReboot).
Uninstall ==
  /\ power = "online" /\ installed /\ todo = <<>> /\ Uses("requests")
  /\ up' = FALSE /\ todo' = Clear \o Restore \o <<"dropReboot", "deregister">>
  /\ wants' = FALSE /\ pending' = FALSE /\ fresh' = FALSE /\ stuck' = {}
  /\ UNCHANGED <<fixedVars, diskVars, netVars, on, said, bare>>

\* Nobody looks at the error.
DropNICReboot ==
  /\ Now("dropReboot") /\ Then(<<>>)
  /\ \/ conf' = FALSE /\ UNCHANGED <<stuck, left>>
     \/ conf /\ Faulty /\ stuck' = stuck \cup {"conf"} /\ UNCHANGED conf
  /\ UNCHANGED <<fixedVars, installed, unit, guardMode, nicSetting, trusted, wish, file, backup,
                 netVars, up, wants, on, pending, said, fresh, bare>>

\* Nor at those of disabling and removing the units; success is reported. A service whose unit is
\* left is still installed.
Deregister ==
  /\ Now("deregister") /\ Then(<<>>)
  /\ \/ installed' = FALSE /\ unit' = FALSE /\ UNCHANGED <<stuck, left>>
     \/ /\ Faulty /\ installed' \in BOOLEAN /\ unit' \in {FALSE, unit}
        /\ stuck' = (IF unit' THEN stuck \cup {"unit"} ELSE stuck)
  /\ UNCHANGED <<fixedVars, guardMode, nicSetting, trusted, wish, file, backup, conf, netVars,
                 up, wants, on, pending, said, fresh, bare>>

(***************************************************************************)
(* The process dies, the power fails, the computer boots                   *)
(***************************************************************************)
Dead == up' = FALSE /\ todo' = <<>> /\ wants' = FALSE /\ on' = FALSE /\ pending' = FALSE

ProcessDies ==
  /\ (up \/ todo # <<>>) /\ Faulty /\ Dead
  /\ UNCHANGED <<fixedVars, diskVars, netVars, pastVars>>

\* A file may be damaged meanwhile.
PowerFails ==
  /\ power = "online" /\ Uses("boots") /\ Dead
  /\ power' = "off" /\ table' = "none" /\ ra' = FALSE /\ nic' = "on" /\ addr' = FALSE
  /\ file' \in {file, IF file = "none" THEN "none" ELSE "bad"}
  /\ trusted' \in {trusted, FALSE} /\ wish' \in {wish, "unknown"}
  /\ stuck' = stuck \ {"ra"}
  /\ UNCHANGED <<fixedVars, installed, unit, guardMode, nicSetting, backup, conf, said, fresh, bare>>

\* mutant: a file that cannot be read is no guard
FaultyBootTable == IF unit /\ file = "good" THEN "guard" ELSE "none"

\* The guard, or the strictest one when the file is no good.
BootTable == IF ~unit THEN "none" ELSE [none |-> "none", good |-> "guard", bad |-> "strict"][file]

BootBlocks == unit /\ backup

\* What nft does not do: everything where there is none; otherwise it is a fault.
NftFails == IF ~unit THEN {{}} ELSE IF nft THEN SUBSET {"table", "ra"} ELSE {{"table", "ra"}}

\* Before the network is up, which comes up whatever failed here; sysctl.d turns the adapters off too.
ApplyBootGuard ==
  /\ power = "off" /\ power' = "early" /\ fresh' = TRUE
  /\ bare' \in NftFails /\ IF nft /\ bare' # {} THEN Faulty ELSE UNCHANGED left
  /\ table' = (IF "table" \in bare' THEN "none" ELSE BootTable)
  /\ ra' = (BootBlocks /\ "ra" \notin bare')
  /\ nic' = (IF (unit /\ backup) \/ conf THEN "off" ELSE "on")
  /\ UNCHANGED <<fixedVars, diskVars, addr, procVars, said, stuck>>

\* networkd and NetworkManager turn IPv6 on while they configure an adapter.
Reconfigures ==
  /\ power \in {"early", "online"} /\ power' = "online"
  /\ \/ power = "early" /\ UNCHANGED <<nic, left>>
     \/ nic = "off" /\ Uses("drifts") /\ nic' = "on"
  /\ UNCHANGED <<fixedVars, diskVars, table, ra, addr, procVars, pastVars>>

Advertised ==
  /\ power = "online" /\ nic = "on" /\ ~ra /\ ~addr /\ addr' = TRUE
  /\ UNCHANGED <<fixedVars, diskVars, power, table, ra, nic, procVars, pastVars, left>>

\* Some version of it is installed; an old one did not have the boot guard.
BootInit ==
  /\ kind \in {"systemd", "procd", "entware"} /\ nft \in BOOLEAN
  /\ installed = TRUE /\ unit \in {FALSE, kind # "entware"}
  /\ guardMode \in {"off", "rule", "strict"} /\ nicSetting \in BOOLEAN
  /\ trusted = TRUE /\ wish \in {"yes", "no", "unknown"}
  /\ file = "none" /\ backup = FALSE /\ conf = FALSE
  /\ power = "online" /\ table = "none" /\ ra = FALSE /\ nic = "on" /\ addr \in BOOLEAN
  /\ up = FALSE /\ todo = <<>> /\ wants = FALSE /\ on = FALSE /\ pending = FALSE
  /\ said = "nothing" /\ fresh = FALSE /\ bare = {} /\ stuck = {}
  /\ left \in BootBounds

BootNext ==
  \/ LoadTable \/ WriteBootGuard \/ DeleteTable \/ Unlink
  \/ Record \/ TurnOff \/ TurnOn \/ DropConf \/ DropBackup \/ DropBootRA
  \/ StartService \/ reconcileGuard \/ reconcileNic \/ syncGuard \/ syncNic \/ Asks \/ NicTick
  \/ Install \/ Uninstall \/ DropNICReboot \/ Deregister
  \/ ProcessDies \/ PowerFails \/ ApplyBootGuard \/ Reconfigures \/ Advertised

BootSpec == BootInit /\ [][BootNext]_bootVars

(***************************************************************************)
(* Properties                                                              *)
(***************************************************************************)
Steps ==
  {"load", "write", "delete", "unlink", "record", "turnOff", "turnOn", "dropConf", "dropBackup", "dropRA",
   "reconcileGuard", "reconcileNic", "syncGuard", "syncNic", "dropReboot", "deregister"}

DiskTypeOK ==
  /\ kind \in {"systemd", "procd", "entware"} /\ (kind = "entware" => ~unit)
  /\ installed \in BOOLEAN /\ unit \in BOOLEAN /\ guardMode \in {"off", "rule", "strict"}
  /\ nicSetting \in BOOLEAN /\ trusted \in BOOLEAN /\ wish \in {"yes", "no", "unknown"}
  /\ file \in {"none", "good", "bad"} /\ backup \in BOOLEAN /\ conf \in BOOLEAN

NetTypeOK ==
  /\ power \in {"off", "early", "online"} /\ table \in {"none", "guard", "strict"}
  /\ ra \in BOOLEAN /\ nic \in {"on", "off"} /\ addr \in BOOLEAN

ProcTypeOK ==
  /\ up \in BOOLEAN /\ todo \in Seq(Steps) /\ wants \in BOOLEAN /\ on \in BOOLEAN
  /\ pending \in BOOLEAN

PastTypeOK ==
  /\ nft \in BOOLEAN /\ said \in {"nothing", "on", "gone"} /\ fresh \in BOOLEAN
  /\ bare \subseteq {"table", "ra"} /\ stuck \subseteq {"conf", "unit", "ra"}

\* The variables keep their types; without the unit's file there is no early guard.
BootTypeOK == DiskTypeOK /\ NetTypeOK /\ ProcTypeOK /\ PastTypeOK

\* Once the guard is up and no warning was given, and the unit is there, the computer is never on the
\* network without it until somebody takes it away, whatever dies and however
\* often it boots: not between the boot and the service, and not when the file
\* of the boot guard is damaged. Excused: nft failed at this boot, for the file and for the strictest
\* guard, and nothing was loaded since; the unit fails then, which nothing waits for.
BootCovered == said = "on" /\ power = "online" => table # "none" \/ "table" \in bare

\* From the boot to the start of the service, or its removal, an adapter whose IPv6 was turned off
\* gets no public address, although networkd turns its IPv6 on again. Excused: nft failed at this
\* boot, or is not there.
NoAddressAtBoot == fresh /\ unit /\ backup /\ "ra" \notin bare => ~addr

\* A boot shows neither.
BootIsQuiet == BootCovered /\ NoAddressAtBoot

\* A guard the service has taken away does not come back by itself, at the next
\* boot for example; a guard that blocks is one the service knows of, so that it can
\* be taken away; an adapter that is turned off at every boot is on record, so that a
\* restoration turns it on again; and an uninstallation, whatever fails on its way, leaves nothing
\* that acts at a boot but what it tried to delete and could not, whose errors it does not look at:
\* the file for sysctl.d, the unit, the block of router advertisements (which a unit that is left
\* puts up again).
ClearedStaysCleared ==
  /\ said = "gone" => table = "none" /\ file = "none"
  /\ up /\ todo = <<>> /\ table # "none" => on
  /\ conf => backup
  /\ ~installed => /\ table = "none" /\ file = "none"
                   /\ unit => "unit" \in stuck
                   /\ conf => "conf" \in stuck
                   /\ ra => "ra" \in stuck \/ unit

\* "The daemon lifts it once it has disabled the adapters again; as long as that
\* has not been done it stays" (guard_linux.go, bootRATable): while the daemon knows that it has not.
AdvertisementsWait ==
  [][up /\ up' /\ trusted /\ wants /\ nicSetting /\ pending /\ ra /\ ~ra' => nic' = "off"]_bootVars
=============================================================================

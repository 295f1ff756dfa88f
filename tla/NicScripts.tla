----------------------------- MODULE NicScripts -----------------------------
(***************************************************************************)
(* Switching the adapters' IPv6 binding off and back on, on Windows        *)
(* (internal/netmode/nic_windows.go).                                      *)
(*                                                                         *)
(* The binding outlives processes and reboots, so the user's own choice    *)
(* for each adapter must survive in one of two files whatever happens: the *)
(* backup, which exists while the adapters are switched off, and the       *)
(* waiting list of adapters that were unplugged when the others were       *)
(* restored.  Two PowerShell scripts do the work, a line at a time; a      *)
(* script can be cut short after any of its steps, an adapter can come and *)
(* go under it, and two processes run them, serialised by a named mutex.   *)
(***************************************************************************)
EXTENDS Naturals

CONSTANTS
    Nic,          \* network adapters, our own tunnel excluded
    Removable,    \* those that can be plugged in and pulled out
    Owner,        \* the processes that run the scripts
    Orphan,       \* slots for scripts that outlived their process
    MaxFaults,    \* bound on failures, corruptions and crashes
    MaxPlugs      \* bound on adapters coming and going

ASSUME NicConstants ==
    /\ Removable \subseteq Nic
    /\ Owner \cap Orphan = {}
    /\ MaxFaults \in Nat /\ MaxPlugs \in Nat

VARIABLES
    orig,         \* the user's own setting: is IPv6 on for this adapter?
    enabled,      \* the binding as it is
    present,      \* the adapters that are plugged in
    filed,        \* the backup file exists
    backup,       \* its rows, one per adapter
    waiting,      \* the waiting list
    evidence,     \* adapters whose unreadable row is kept in the .bad file
    told,         \* adapters whose unreadable row has been reported
    missed,       \* history: neither, and nobody is left to report it
    script,       \* the script each process is running
    overlap,      \* history: a script was started while an orphan was at work
    faults, plugs \* what remains of the bounds

lossVars == <<evidence, told, missed>>
files   == <<filed, backup, waiting, lossVars>>
nicVars == <<orig, enabled, present, files, script, overlap, faults, plugs>>

Row == {"none", "on", "off", "bad"}     \* "bad": a line that cannot be read
NoRows == [n \in Nic |-> "none"]
Known == {n \in Nic : backup[n] \in {"on", "off"}}
Bad == {n \in Nic : backup[n] = "bad"}

Slots == Owner \cup Orphan
Stages == {"idle", "evidence", "save", "unlist", "strike", "enable", "list",
           "drop", "report", "sweep", "ended"}
Scripts == [kind : {"none", "disable", "restore"}, at : Stages,
            todo : SUBSET Nic,     \* adapters still to be changed
            seen : SUBSET Nic,     \* adapters to be checked at the end
            rows : [Nic -> Row],   \* the backup the script will write
            moved : SUBSET Nic,    \* to leave, or to join, the waiting list
            waited : SUBSET Nic,   \* came from the waiting list
            bad : SUBSET Nic, failed : BOOLEAN]
NoScript == [kind |-> "none", at |-> "idle", todo |-> {}, seen |-> {},
             rows |-> NoRows, moved |-> {}, waited |-> {}, bad |-> {},
             failed |-> FALSE]

\* withNamedLock: whoever runs a script holds the mutex, unless his process
\* is gone (an abandoned mutex is granted to the next)
Running(o) == script[o].at \notin {"idle", "ended"}
NicLockFree == \A o \in Owner : ~Running(o)
Overlap == overlap' = (overlap \/ \E o \in Orphan : Running(o))

Fault == faults > 0 /\ faults' = faults - 1
NoFault == UNCHANGED faults
World == <<orig, present, plugs>>
Quiet == <<World, overlap>>

Set(o, s) == script' = [script EXCEPT ![o] = s]
At(o, stage) == Set(o, [script[o] EXCEPT !.at = stage])

\* The unreadable rows a script has dealt with and that nobody has reported yet,
\* and those of them that are in no file any more
Owes(s) == IF s.at \in {"idle", "enable", "evidence"} THEN {} ELSE s.bad
Unkept(s) == {n \in Owes(s) : backup[n] # "bad"} \ evidence

\* The result is left for the process, if there is one to take it; without one, or
\* when the script has thrown, nobody hears of the unreadable rows.
End(o, failed, owes) ==
    /\ Set(o, IF o \in Orphan THEN NoScript
              ELSE [NoScript EXCEPT !.at = "ended", !.failed = failed, !.bad = owes])
    /\ missed' = IF o \notin Orphan /\ owes = Owes(script[o]) THEN missed
                 ELSE missed \cup Unkept(script[o])
    /\ UNCHANGED <<evidence, told>>

Throws(o) == Fault /\ End(o, TRUE, {})

-----------------------------------------------------------------------------
(* DisableNICIPv6                                                          *)

\* mutant: every adapter without a row is recorded as on
FaultyStartDisable(o) ==
    /\ script[o].at = "idle" /\ NicLockFree
    /\ Set(o, [NoScript EXCEPT
         !.kind = "disable",
         !.at = IF Bad # {} THEN "evidence"
                ELSE IF present \subseteq Known THEN "strike" ELSE "save",
         !.todo = {n \in present : enabled[n]},
         !.seen = present,
         !.rows = [n \in Nic |-> IF n \in Known THEN backup[n]
                                 ELSE IF n \in present THEN "on" ELSE "none"],
         !.moved = (present \ Known) \cap waiting,
         !.bad = Bad])
    /\ Overlap
    /\ UNCHANGED <<World, enabled, files, faults>>

\* The script lists the bindings and reads both files, and plans the new
\* backup: rows already there are kept, an adapter without a row is recorded
\* as it is now, one from the waiting list as on.
StartDisable(o) ==
    LET fresh == present \ Known IN
    /\ script[o].at = "idle" /\ NicLockFree
    /\ Set(o, [NoScript EXCEPT
         !.kind = "disable",
         !.at = IF Bad # {} THEN "evidence"
                ELSE IF fresh = {} THEN "strike" ELSE "save",
         !.todo = {n \in present : enabled[n]},
         !.seen = present,
         !.rows = [n \in Nic |->
                      CASE n \in Known -> backup[n]
                        [] n \in fresh -> IF n \in waiting \/ enabled[n]
                                          THEN "on" ELSE "off"
                        [] n \notin Known \cup fresh -> "none"],
         !.moved = fresh \cap waiting,
         !.bad = Bad])
    /\ Overlap
    /\ UNCHANGED <<World, enabled, files, faults>>

\* Unreadable rows are moved to .bad before the backup changes.  When that fails
\* the script goes on, and only says so.
Evidence(o) ==
    /\ script[o].at = "evidence"
    /\ \/ evidence' = evidence \cup script[o].bad /\ NoFault
       \/ Fault /\ UNCHANGED evidence        \* CORRUPT-LOST
    /\ At(o, IF script[o].kind = "disable" THEN "save" ELSE "list")
    /\ UNCHANGED <<Quiet, enabled, filed, backup, waiting, told, missed>>

\* The whole backup is replaced by renaming, or the script throws
SaveBackup(o) ==
    /\ script[o].at = "save"
    /\ \/ /\ filed' = TRUE /\ backup' = script[o].rows
          /\ At(o, IF script[o].moved # {} THEN "unlist" ELSE "strike")
          /\ NoFault /\ UNCHANGED lossVars
       \/ /\ Throws(o)
          /\ UNCHANGED <<filed, backup>>
    /\ UNCHANGED <<Quiet, enabled, waiting>>

\* Only now do the adapters that are in the backup leave the waiting list
Unlist(o) ==
    /\ script[o].at = "unlist"
    /\ \/ /\ waiting' = waiting \ script[o].moved
          /\ At(o, "strike") /\ NoFault /\ UNCHANGED lossVars
       \/ /\ Throws(o)
          /\ UNCHANGED waiting
    /\ UNCHANGED <<Quiet, enabled, filed, backup>>

\* Disable-NetAdapterBinding, one adapter; it may have been pulled out since
Strike(o, n) ==
    /\ script[o].at = "strike" /\ n \in script[o].todo
    /\ \/ /\ enabled' = [enabled EXCEPT ![n] = FALSE]
          /\ Set(o, [script[o] EXCEPT !.todo = @ \ {n}])
          /\ NoFault
       \/ /\ IF n \in present THEN Fault ELSE NoFault
          /\ Set(o, [script[o] EXCEPT !.todo = @ \ {n}, !.failed = TRUE])
          /\ UNCHANGED enabled
    /\ UNCHANGED <<Quiet, files>>

\* The bindings are listed again
Verify(o) ==
    /\ script[o].at = "strike" /\ script[o].todo = {}
    /\ End(o, script[o].failed \/ \E n \in script[o].seen : enabled[n], script[o].bad)
    /\ UNCHANGED <<Quiet, enabled, filed, backup, waiting, faults>>

-----------------------------------------------------------------------------
(* RestoreNICIPv6                                                          *)

NothingToRestore == ~filed /\ waiting = {}

StartRestore(o) ==
    LET extra == waiting \ Known IN
    /\ script[o].at = "idle" /\ NicLockFree
    /\ ~NothingToRestore
    /\ Set(o, [NoScript EXCEPT
         !.kind = "restore", !.at = "enable",
         !.todo = {n \in Nic : backup[n] = "on"} \cup extra,
         !.waited = extra,
         !.bad = Bad])
    /\ Overlap
    /\ UNCHANGED <<World, enabled, files, faults>>

\* Put n where it can be found next time
Keep(s, n) ==
    IF n \in s.waited THEN [s EXCEPT !.moved = @ \cup {n}]
    ELSE [s EXCEPT !.rows = [@ EXCEPT ![n] = "on"], !.failed = TRUE]

\* Enable-NetAdapterBinding, tried on pulled-out adapters as well.  One that
\* is there and refuses stays in the backup, one that is not joins the list.
Enable(o, n) ==
    LET rest == [script[o] EXCEPT !.todo = @ \ {n}] IN
    /\ script[o].at = "enable" /\ n \in script[o].todo
    /\ \/ /\ enabled' = [enabled EXCEPT ![n] = TRUE]
          /\ Set(o, [rest EXCEPT !.seen = @ \cup {n}])
          /\ NoFault
       \/ /\ n \in present /\ Fault
          /\ Set(o, Keep(rest, n)) /\ UNCHANGED enabled
       \/ /\ n \notin present /\ NoFault
          /\ Set(o, [rest EXCEPT !.moved = @ \cup {n}]) /\ UNCHANGED enabled
    /\ UNCHANGED <<Quiet, files>>

\* Those reported as done are listed again (an adapter that was pulled out
\* stays registered, and is listed as well)
Confirm(o) ==
    LET s == script[o]
        off == {n \in s.seen : ~enabled[n]}
    IN
    /\ s.at = "enable" /\ s.todo = {}
    /\ Set(o, [s EXCEPT
         !.at = IF s.bad # {} THEN "evidence" ELSE "list",
         !.moved = @ \cup (off \cap s.waited),
         !.rows = [n \in Nic |-> IF n \in off \ s.waited THEN "on" ELSE s.rows[n]],
         !.failed = @ \/ off \ s.waited # {}])
    /\ UNCHANGED <<Quiet, enabled, files, faults>>

\* First the waiting list, then the backup
List(o) ==
    /\ script[o].at = "list"
    /\ \/ /\ waiting' = script[o].moved
          /\ At(o, "drop") /\ NoFault /\ UNCHANGED lossVars
       \/ /\ waiting # {} \/ script[o].moved # {}
          /\ Throws(o)
          /\ UNCHANGED waiting
    /\ UNCHANGED <<Quiet, enabled, filed, backup>>

NoBackup == filed' = FALSE /\ backup' = NoRows

Drop(o) ==
    /\ script[o].at = "drop"
    /\ \/ /\ IF script[o].failed THEN filed' = TRUE /\ backup' = script[o].rows ELSE NoBackup
          /\ At(o, "report") /\ NoFault /\ UNCHANGED lossVars
       \/ /\ ~script[o].failed /\ Fault       \* SilentlyContinue
          /\ At(o, "report") /\ UNCHANGED <<filed, backup, lossVars>>
       \/ /\ script[o].failed                 \* Write-Lines throws
          /\ Throws(o) /\ UNCHANGED <<filed, backup>>
    /\ UNCHANGED <<Quiet, enabled, waiting>>

\* The script is over and the process reads what it said: recordNICLoss, before
\* anything else.  The process of an orphan is no longer there to do it.
Report(o) ==
    /\ script[o].at = "report"
    /\ IF o \in Orphan THEN End(o, FALSE, {})
       ELSE /\ told' = told \cup script[o].bad
            /\ Set(o, [script[o] EXCEPT !.at = "sweep", !.bad = {}])
            /\ UNCHANGED <<evidence, missed>>
    /\ UNCHANGED <<Quiet, enabled, filed, backup, waiting, faults>>

\* The process keeps the backup of what failed for the next time; otherwise it
\* removes the backup once more, for a script cut short.
Sweep(o) ==
    /\ script[o].at = "sweep"
    /\ \/ /\ IF script[o].failed THEN UNCHANGED <<filed, backup>> ELSE NoBackup
          /\ End(o, script[o].failed, {}) /\ NoFault
       \/ /\ ~script[o].failed /\ Throws(o)
          /\ UNCHANGED <<filed, backup>>
    /\ UNCHANGED <<Quiet, enabled, waiting>>

ScriptStep(o) ==
    \/ Evidence(o) \/ SaveBackup(o) \/ Unlist(o) \/ Verify(o)
    \/ Confirm(o) \/ List(o) \/ Drop(o) \/ Report(o) \/ Sweep(o)
    \/ \E n \in Nic : Strike(o, n) \/ Enable(o, n)

\* The process that ran the script has its result, without the mutex; what a
\* disabling has to report is reported only now (disableOutcome).
Reap(o) ==
    /\ script[o].at = "ended"
    /\ told' = told \cup script[o].bad
    /\ Set(o, NoScript)
    /\ UNCHANGED <<Quiet, enabled, filed, backup, waiting, evidence, missed, faults>>

-----------------------------------------------------------------------------
(* The world around the scripts                                            *)

\* The power fails: every script stops where it is
PowerLoss ==
    /\ script' = [o \in Slots |-> NoScript]
    /\ missed' = missed \cup UNION {Unkept(script[o]) : o \in Slots}
    /\ Fault
    /\ UNCHANGED <<Quiet, enabled, filed, backup, waiting, evidence, told>>

\* PowerShell is at work: what comes after it is done by the process
AtWork(o) == Running(o) /\ script[o].at \notin {"report", "sweep"}

\* A process dies: PowerShell, its child, goes on
Outlive(o, p) ==
    /\ AtWork(o) /\ p \in Orphan /\ script[p].at = "idle"
    /\ script' = [script EXCEPT ![p] = script[o], ![o] = NoScript]
    /\ overlap' = (overlap \/ \E q \in Orphan : Running(q))
    /\ UNCHANGED <<World, enabled, files>>

\* With it dies what it has not reported yet
Dies(o) ==
    IF AtWork(o) THEN \E p \in Orphan : Outlive(o, p)
    ELSE /\ Set(o, NoScript)
         /\ missed' = missed \cup Unkept(script[o])
         /\ UNCHANGED <<Quiet, enabled, filed, backup, waiting, evidence, told>>

\* A removable adapter comes or goes; its binding is kept in the registry
Plug(n) ==
    /\ n \in Removable
    /\ plugs > 0 /\ plugs' = plugs - 1
    /\ present' = IF n \in present THEN present \ {n} ELSE present \cup {n}
    /\ UNCHANGED <<orig, enabled, files, script, overlap, faults>>

\* A row of the backup is damaged while no script is at work
Damage(n) ==
    /\ \A o \in Slots : ~Running(o)
    /\ n \in Known
    /\ backup' = [backup EXCEPT ![n] = "bad"]
    /\ Fault
    /\ UNCHANGED <<Quiet, enabled, filed, waiting, lossVars, script>>

-----------------------------------------------------------------------------
NicInit ==
    /\ orig \in [Nic -> BOOLEAN] /\ enabled = orig
    /\ present \in SUBSET Nic /\ Nic \ Removable \subseteq present
    /\ filed = FALSE /\ backup = NoRows /\ waiting = {}
    /\ evidence = {} /\ told = {} /\ missed = {}
    /\ script = [o \in Slots |-> NoScript] /\ overlap = FALSE
    /\ faults \in 0 .. MaxFaults /\ plugs \in 0 .. MaxPlugs

\* Any process may run either script at any time
NicNext ==
    \/ \E o \in Owner : StartDisable(o) \/ StartRestore(o)
    \/ \E o \in Slots : ScriptStep(o)
    \/ \E o \in Owner : Reap(o)
    \/ PowerLoss
    \/ \E o \in Owner : Dies(o) /\ Fault
    \/ \E n \in Nic : Plug(n) \/ Damage(n)

NicSpec == NicInit /\ [][NicNext]_nicVars

-----------------------------------------------------------------------------
(* Properties                                                              *)

NicTypeOK ==
    /\ orig \in [Nic -> BOOLEAN] /\ enabled \in [Nic -> BOOLEAN]
    /\ {present, waiting, evidence, told, missed} \subseteq SUBSET Nic
    /\ filed \in BOOLEAN /\ backup \in [Nic -> Row]
    /\ script \in [Slots -> Scripts] /\ overlap \in BOOLEAN
    /\ faults \in 0 .. MaxFaults /\ plugs \in 0 .. MaxPlugs

\* Adapters whose row was unreadable and was given up
Struck == evidence \cup told \cup missed \cup UNION {Owes(script[o]) : o \in Slots}

\* The user's choice for an adapter whose binding is off is written down, or its
\* unreadable row is kept in .bad or has been reported or is about to be, at every
\* moment: between any two steps of a script, after a power cut, with adapters
\* pulled out meanwhile (DisableNICIPv6: "merged, not overwritten"; restoreScript:
\* "first the list, then the backup").
\* Excused once a script has been started next to one whose process died, which
\* the mutex does not cover; and for a row that could not be kept in .bad and whose
\* report was lost with a crash, a power cut or a script that threw (missed).
OriginalsKept ==
    ~overlap => \A n \in Nic : orig[n] /\ ~enabled[n] =>
        backup[n] \in {"on", "bad"} \/ n \in waiting \/ n \in Struck

\* IPv6 is never switched on for an adapter on which the user has it off: the
\* scripts cannot mistake the user's own "off" for theirs, nor the reverse.
UsersOffKept ==
    \A n \in Nic : enabled[n] => orig[n]

\* The user's choice for every adapter survives, both ways.
UsersChoiceKept == OriginalsKept /\ UsersOffKept
=============================================================================

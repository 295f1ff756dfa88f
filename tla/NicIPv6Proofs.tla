--------------------------- MODULE NicIPv6Proofs ---------------------------
(***************************************************************************)
(* Theorems about the scripts that switch IPv6 off and on (NicScripts) and *)
(* about the service and the "restore network" tool that run them          *)
(* (NicIPv6), for any adapters, any processes, any orphaned scripts, and   *)
(* any number of failures, crashes, requests and unplugged adapters.       *)
(*                                                                         *)
(* The argument for UsersOffKept: no row, list or plan ever says "on" of   *)
(* an adapter the user has off (OffStore, OnlyTheirs).  For OriginalsKept: *)
(* as long as no script was started next to an orphan, one script at a     *)
(* time is at work (Alone), so what it read at its start still holds, and  *)
(* at each of its lines every lost setting is in the files or in the       *)
(* script's own plan to write them (PlannedByDisable, PlannedByRestore).   *)
(*                                                                         *)
(* Each step of NicIPv6 is a step of a script, the start of one, one of    *)
(* the events around them, or touches neither adapters nor files; so the   *)
(* invariant of the scripts holds of the service as well.                  *)
(*                                                                         *)
(* For NicMatches: as long as the adapters do not match what               *)
(* nicIPv6Wanted says, some goroutine is in an alignment or on its way to  *)
(* one, or an excuse NicMatches names applies (Aligned).  What carries     *)
(* that over a step is MatchInv, and the bulk of it is control: where each *)
(* goroutine may be, and what the wish on disk is meanwhile.               *)
(***************************************************************************)
EXTENDS NicIPv6, TLAPS

(* The settings that are only in the files: off now, on by the user.       *)
Lost == {n \in Nic : orig[n] /\ ~enabled[n]}

Active(s) == s.at \notin {"idle", "ended"}

StoreType ==
    /\ orig \in [Nic -> BOOLEAN] /\ enabled \in [Nic -> BOOLEAN]
    /\ present \in SUBSET Nic /\ waiting \in SUBSET Nic
    /\ evidence \in SUBSET Nic /\ told \in SUBSET Nic /\ missed \in SUBSET Nic
    /\ filed \in BOOLEAN /\ backup \in [Nic -> Row]
    /\ overlap \in BOOLEAN

DisableStages == {"evidence", "save", "unlist", "strike"}
RestoreStages == {"enable", "evidence", "list", "drop", "report", "sweep"}

(* Each script is at one of its own lines.                                 *)
KindOK(s) ==
    Active(s) => \/ s.kind = "disable" /\ s.at \in DisableStages
                 \/ s.kind = "restore" /\ s.at \in RestoreStages

Alone == ~overlap => \A o, p \in Slots : Running(o) /\ Running(p) => o = p

(* Nothing would switch on an adapter that the user has off.               *)
OffStore ==
    \A n \in Nic : ~orig[n] => /\ ~enabled[n]
                               /\ backup[n] # "on" /\ n \notin waiting

OnlyTheirs(s) ==
    \A n \in Nic : ~orig[n] =>
        /\ s.rows[n] # "on" /\ n \notin s.moved
        /\ s.kind = "restore" => n \notin s.todo \cup s.seen

(* What has been lost is in the files, and a row is wrong about the user   *)
(* only if an unreadable one was given up.                                 *)
KeptStore ==
    /\ \A n \in Lost : backup[n] \in {"on", "bad"} \/ n \in waiting \/ n \in Struck
    /\ \A n \in Nic : orig[n] /\ backup[n] = "off" => n \in Struck

(* Given up, or about to be.                                               *)
Reported(s) == Struck \cup s.bad

PlannedByDisable(s) ==
    /\ s.at \in {"evidence", "save"} =>
         /\ \A n \in Lost : s.rows[n] = "on" \/ n \in waiting \/ n \in Reported(s)
         /\ \A n \in s.todo : s.rows[n] = "on" \/ n \in Reported(s)
         /\ \A n \in s.moved : s.rows[n] = "on"
         /\ \A n \in Nic : orig[n] /\ s.rows[n] = "off" => n \in Reported(s)
         /\ \A n \in Nic : s.rows[n] # "bad"
    /\ s.at = "unlist" => \A n \in s.moved : backup[n] = "on"
    /\ s.at \in {"unlist", "strike"} =>
         \A n \in s.todo : backup[n] = "on" \/ n \in Reported(s)

PlannedByRestore(s) ==
    /\ \A n \in Nic : s.rows[n] \in {"none", "on"} /\ (s.rows[n] = "on" => s.failed)
    /\ s.at \in {"enable", "evidence", "list"} =>
         \A n \in Nic : s.rows[n] = "on" => backup[n] = "on"
    /\ s.at = "enable" =>
         /\ \A n \in (s.todo \cup s.seen) \ s.waited : backup[n] = "on"
         /\ \A n \in Lost : \/ n \in s.todo \cup s.seen \cup s.moved
                            \/ s.rows[n] = "on" \/ n \in Reported(s)
    /\ s.at \in {"evidence", "list"} =>
         \A n \in Lost : n \in s.moved \/ s.rows[n] = "on" \/ n \in Reported(s)
    /\ s.at = "drop" =>
         \A n \in Lost : n \in waiting \/ s.rows[n] = "on" \/ n \in Reported(s)
    /\ s.at \in {"report", "sweep"} /\ ~s.failed =>
         \A n \in Lost : n \in waiting \/ n \in Reported(s)
    /\ s.at = "sweep" => s.bad = {}

(* A row that cannot be read is not lost sight of.                         *)
Planned(s) == /\ s.kind = "disable" => PlannedByDisable(s)
              /\ s.kind = "restore" => PlannedByRestore(s)
              /\ Bad \subseteq s.bad \cup told

NicInv ==
    /\ StoreType /\ script \in [Slots -> Scripts]
    /\ Alone
    /\ OffStore
    /\ \A o \in Slots : KindOK(script[o]) /\ OnlyTheirs(script[o])
    /\ ~overlap => KeptStore /\ \A o \in Slots : Running(o) => Planned(script[o])

-----------------------------------------------------------------------------
(* How a step of one script carries NicInv over.                           *)

LEMMA NoScriptIsOne ==
  /\ NoRows \in [Nic -> Row] /\ NoScript \in Scripts
  /\ \A f \in BOOLEAN, w \in SUBSET Nic :
       [NoScript EXCEPT !.at = "ended", !.failed = f, !.bad = w] \in Scripts
BY DEF NoScript, Scripts, NoRows, Row, Stages

(* The script that moves on is, unless there was an overlap, the only one: *)
(* it is enough to look at its new state and at the files.                 *)
LEMMA Moves ==
  ASSUME NicInv, NEW o \in Slots, Running(o), NEW t \in Scripts, Set(o, t),
         overlap' = overlap, orig' = orig,
         StoreType', OffStore', KindOK(t), OnlyTheirs(t)',
         ~overlap => KeptStore' /\ (Active(t) => Planned(t)')
  PROVE  NicInv'
<1>1. /\ script' \in [Slots -> Scripts] /\ script'[o] = t
      /\ \A p \in Slots : p # o => script'[p] = script[p]
  BY DEF NicInv, Set
<1>2. Alone'
  BY <1>1 DEF NicInv, Alone, Running
<1>3. \A p \in Slots : KindOK(script[p])' /\ OnlyTheirs(script[p])'
  <2> TAKE p \in Slots
  <2>1. CASE p = o
    BY <1>1, <2>1 DEF KindOK, Active, OnlyTheirs
  <2>2. CASE p # o
    BY <1>1, <2>2 DEF NicInv, KindOK, Active, OnlyTheirs
  <2> QED
    BY <2>1, <2>2
<1>4. ASSUME ~overlap', NEW p \in Slots, Running(p)'
      PROVE  Planned(script[p])'
  <2>1. p = o
    BY <1>1, <1>4 DEF NicInv, Alone, Running
  <2>2. Planned(t)'
    BY <1>1, <1>4, <2>1 DEF Running, Active
  <2>3. script'[p] = t
    BY <1>1, <2>1
  <2> QED
    BY <2>2, <2>3
       DEF Planned, PlannedByDisable, PlannedByRestore, Reported, Lost, Struck, Bad
<1> QED
  BY <1>1, <1>2, <1>3, <1>4 DEF NicInv

(* What was given up stays given up as long as the script knows of it.     *)
LEMMA StruckStays ==
  ASSUME NicInv, NEW o \in Slots, NEW t \in Scripts, Set(o, t),
         evidence \subseteq evidence', told \subseteq told', missed \subseteq missed',
         Owes(script[o]) \subseteq Owes(t) \cup told'
  PROVE  Struck \subseteq Struck' /\ Owes(t) \subseteq Struck'
<1>1. /\ script'[o] = t
      /\ \A p \in Slots : p # o => script'[p] = script[p]
  BY DEF NicInv, Set
<1>2. Owes(t) \subseteq Struck'
  BY <1>1 DEF Struck, Owes
<1>3. ASSUME NEW n \in Struck
      PROVE  n \in Struck'
  <2>1. CASE n \in evidence \cup told \cup missed
    BY <2>1 DEF Struck
  <2>2. CASE \E p \in Slots : n \in Owes(script[p])
    <3>1. PICK p \in Slots : n \in Owes(script[p])
      BY <2>2
    <3>2. CASE p # o
      BY <1>1, <3>1, <3>2 DEF Struck, Owes
    <3>3. CASE p = o
      BY <1>2, <3>1, <3>3 DEF Struck
    <3> QED
      BY <3>2, <3>3
  <2> QED
    BY <2>1, <2>2 DEF Struck
<1> QED
  BY <1>2, <1>3

(* When a script stops, only rows that can still be found are forgotten.   *)
LEMMA StruckAtEnd ==
  ASSUME NicInv, NEW o \in Slots, NEW f \in BOOLEAN, NEW w, End(o, f, w)
  PROVE  /\ StoreType => {evidence', told', missed'} \subseteq SUBSET Nic
         /\ \A n \in Struck : n \in Struck' \/ n \in Owes(script[o]) \cap Bad
<1>1. /\ script'[o] = IF o \in Orphan THEN NoScript
                      ELSE [NoScript EXCEPT !.at = "ended", !.failed = f, !.bad = w]
      /\ \A p \in Slots : p # o => script'[p] = script[p]
  BY DEF NicInv, Set, End
<1>2. script[o] \in Scripts
  BY DEF NicInv
<1>3. Owes(script[o]) \subseteq Nic
  BY <1>2 DEF Owes, Scripts
<1>4. /\ UNCHANGED <<evidence, told>>
      /\ missed' = IF o \notin Orphan /\ w = Owes(script[o]) THEN missed
                   ELSE missed \cup Unkept(script[o])
  BY DEF End
<1>5. ASSUME NEW n \in Struck
      PROVE  n \in Struck' \/ n \in Owes(script[o]) \cap Bad
  <2>1. CASE n \in evidence \cup told \cup missed
    BY <1>4, <2>1 DEF Struck
  <2>2. CASE \E p \in Slots : n \in Owes(script[p])
    <3>1. PICK p \in Slots : n \in Owes(script[p])
      BY <2>2
    <3>2. CASE p # o
      BY <1>1, <3>1, <3>2 DEF Struck, Owes
    <3>3. CASE p = o /\ o \notin Orphan /\ w = Owes(script[o])
      <4>1. Owes(script'[o]) = w
        BY <1>1, <3>3 DEF Owes, NoScript
      <4> QED
        BY <3>1, <3>3, <4>1 DEF Struck, Owes
    <3>4. CASE p = o /\ ~(o \notin Orphan /\ w = Owes(script[o]))
      <4>1. n \in missed' \/ n \in evidence' \/ n \in Bad
        BY <1>3, <1>4, <3>1, <3>4 DEF Unkept, Bad
      <4> QED
        BY <3>1, <3>4, <4>1 DEF Struck
    <3> QED
      BY <3>2, <3>3, <3>4
  <2> QED
    BY <2>1, <2>2 DEF Struck
<1>6. StoreType => {evidence', told', missed'} \subseteq SUBSET Nic
  BY <1>3, <1>4 DEF StoreType, Unkept
<1> QED
  BY <1>5, <1>6

(* A script that ends leaves nothing to look at but the files.             *)
LEMMA Ends ==
  ASSUME NicInv, NEW o \in Slots, Running(o), NEW f \in BOOLEAN,
         NEW w \in SUBSET Nic, End(o, f, w),
         overlap' = overlap, orig' = orig, StoreType', OffStore',
         ~overlap => KeptStore'
  PROVE  NicInv'
<1> DEFINE t == IF o \in Orphan THEN NoScript
                ELSE [NoScript EXCEPT !.at = "ended", !.failed = f, !.bad = w]
<1>1. t \in Scripts /\ Set(o, t)
  BY NoScriptIsOne DEF End
<1>2. ~Active(t) /\ OnlyTheirs(t)'
  BY DEF Active, NoScript, NoRows, OnlyTheirs
<1>3. KindOK(t)
  BY <1>2 DEF KindOK
<1> HIDE DEF t
<1> QED
  BY <1>1, <1>2, <1>3, Moves

(* In particular one that ends without touching them.                      *)
LEMMA EndsThere ==
  ASSUME NicInv, NEW o \in Slots, Running(o), NEW f \in BOOLEAN,
         NEW w \in SUBSET Nic, End(o, f, w),
         UNCHANGED <<orig, enabled, present, overlap, filed, backup, waiting>>
  PROVE  NicInv'
<1>1. StoreType' /\ OffStore'
  BY StruckAtEnd DEF NicInv, StoreType, OffStore
<1>2. ~overlap => KeptStore'
  BY StruckAtEnd DEF NicInv, KeptStore, Lost, Bad
<1> QED
  BY <1>1, <1>2, Ends

(* A script that begins finds the adapters and the files as they are; the  *)
(* mutex, or the note of an overlap, sees to it that it is the only one.   *)
LEMMA Starts ==
  ASSUME NicInv, NEW o \in Owner, NicLockFree, Overlap,
         UNCHANGED <<orig, enabled, present, files>>, NEW t \in Scripts, Set(o, t),
         OnlyTheirs(t)', KindOK(t), ~overlap => Struck \subseteq Struck' /\ Planned(t)'
  PROVE  NicInv'
<1>1. /\ script' \in [Slots -> Scripts] /\ script'[o] = t /\ o \in Slots
      /\ \A p \in Slots : p # o => script'[p] = script[p]
  BY DEF NicInv, Set, Slots
<1>2. ASSUME ~overlap', NEW p \in Slots, Running(p)'
      PROVE  p = o
  BY <1>1, <1>2 DEF Overlap, NicLockFree, Running, Slots
<1>3. Alone' /\ StoreType' /\ OffStore' /\ (~overlap' => ~overlap)
  BY <1>2 DEF NicInv, StoreType, OffStore, Alone, Overlap, files, lossVars
<1>4. \A p \in Slots : KindOK(script[p])' /\ OnlyTheirs(script[p])'
  <2> TAKE p \in Slots
  <2>1. CASE p = o
    BY <1>1, <2>1 DEF KindOK, Active, OnlyTheirs
  <2>2. CASE p # o
    BY <1>1, <2>2 DEF NicInv, KindOK, Active, OnlyTheirs
  <2> QED
    BY <2>1, <2>2
<1>5. ~overlap' => KeptStore'
  BY <1>3 DEF NicInv, KeptStore, Lost, files
<1>6. ASSUME ~overlap', NEW p \in Slots, Running(p)'
      PROVE  Planned(script[p])'
  <2>1. script'[p] = t
    BY <1>1, <1>2, <1>6
  <2>2. Planned(t)'
    BY <1>3, <1>6
  <2> QED
    BY <2>1, <2>2
       DEF Planned, PlannedByDisable, PlannedByRestore, Reported, Lost, Struck, Bad
<1> QED
  BY <1>1, <1>3, <1>4, <1>5, <1>6 DEF NicInv

(* Steps that touch neither adapters nor files, while some scripts stop.   *)
LEMMA Stops ==
  ASSUME NicInv, StoreType', UNCHANGED <<orig, enabled, filed, backup, waiting, overlap>>,
         script' \in [Slots -> Scripts], told \subseteq told',
         \A n \in Struck : n \in Struck' \/ n \in Bad,
         \A o \in Slots : script'[o] = script[o] \/ script'[o] = NoScript
  PROVE  NicInv'
<1>1. \A o \in Slots : Running(o)' => Running(o) /\ script'[o] = script[o]
  BY DEF Running, NoScript
<1>2. Alone' /\ OffStore'
  BY <1>1 DEF NicInv, Alone, OffStore
<1>3. OnlyTheirs(NoScript)' /\ KindOK(NoScript)
  BY DEF OnlyTheirs, NoScript, NoRows, KindOK, Active
<1>4. \A o \in Slots : KindOK(script[o])' /\ OnlyTheirs(script[o])'
  BY <1>3 DEF NicInv, KindOK, Active, OnlyTheirs
<1>5. ~overlap' => KeptStore'
  BY DEF NicInv, KeptStore, Lost, Bad
<1>6. ASSUME ~overlap', NEW o \in Slots, Running(o)'
      PROVE  Planned(script[o])'
  <2>1. Planned(script[o]) /\ script'[o] = script[o] /\ UNCHANGED <<Bad, Lost>>
    BY <1>1, <1>6 DEF NicInv, Bad, Lost
  <2>2. told' \subseteq Struck'
    BY DEF Struck
  <2>3. Reported(script[o]) \subseteq Reported(script[o])'
    BY <2>1, <2>2 DEF Planned, Reported
  <2>4. PlannedByDisable(script[o]) => PlannedByDisable(script[o])'
    BY <2>1, <2>3 DEF PlannedByDisable
  <2>5. PlannedByRestore(script[o]) => PlannedByRestore(script[o])'
    BY <2>1, <2>3 DEF PlannedByRestore
  <2> QED
    BY <2>1, <2>4, <2>5 DEF Planned
<1> QED
  BY <1>2, <1>4, <1>5, <1>6 DEF NicInv

-----------------------------------------------------------------------------
(* DisableNICIPv6, line by line.                                           *)

(* What a disable that begins has read and will write.                     *)
LEMMA DisablePlan ==
  ASSUME NicInv, NEW o \in Owner, StartDisable(o)
  PROVE  \E t \in Scripts :
           /\ Set(o, t) /\ t.kind = "disable"
           /\ t.todo = {n \in present : enabled[n]} /\ t.bad = Bad
           /\ t.moved = (present \ Known) \cap waiting
           /\ t.at \in {"evidence", "save", "strike"}
           /\ Bad # {} => t.at = "evidence"
           /\ t.at = "strike" => present \subseteq Known
           /\ \A n \in Known : t.rows[n] = backup[n]
           /\ \A n \in present \ Known :
                t.rows[n] = IF n \in waiting \/ enabled[n] THEN "on" ELSE "off"
           /\ \A n \in Nic : n \notin present \cup Known => t.rows[n] = "none"
<1> DEFINE fresh == present \ Known
           rows == [n \in Nic |->
                      CASE n \in Known -> backup[n]
                        [] n \in fresh -> IF n \in waiting \/ enabled[n]
                                          THEN "on" ELSE "off"
                        [] n \notin Known \cup fresh -> "none"]
           at == IF Bad # {} THEN "evidence"
                 ELSE IF fresh = {} THEN "strike" ELSE "save"
           todo == {n \in present : enabled[n]}
           t == [NoScript EXCEPT !.kind = "disable", !.at = at, !.todo = todo,
                   !.seen = present, !.rows = rows, !.moved = fresh \cap waiting,
                   !.bad = Bad]
<1>1. Set(o, t)
  BY DEF StartDisable
<1>2. /\ rows \in [Nic -> Row]
      /\ \A n \in Known : rows[n] = backup[n]
      /\ \A n \in fresh : rows[n] = IF n \in waiting \/ enabled[n] THEN "on" ELSE "off"
      /\ \A n \in Nic : n \notin present \cup Known => rows[n] = "none"
  BY DEF NicInv, StoreType, Row, Known
<1>3. /\ at \in {"evidence", "save", "strike"}
      /\ Bad # {} => at = "evidence"
      /\ at = "strike" => present \subseteq Known
  OBVIOUS
<1>4. todo \subseteq Nic /\ fresh \cap waiting \subseteq Nic /\ Bad \subseteq Nic
      /\ present \subseteq Nic
  BY DEF NicInv, StoreType, Bad
<1> HIDE DEF rows, at, todo
<1>6. t \in Scripts
  BY <1>2, <1>3, <1>4 DEF Scripts, Stages, NoScript, NoRows
<1>7. /\ t.kind = "disable" /\ t.todo = todo /\ t.bad = Bad /\ t.at = at
      /\ t.moved = fresh \cap waiting /\ t.rows = rows
  BY DEF NoScript
<1> HIDE DEF t
<1> QED
  BY <1>1, <1>2, <1>3, <1>6, <1>7 DEF todo

LEMMA StartDisableKeeps ==
  ASSUME NicInv, NEW o \in Owner, StartDisable(o)
  PROVE  NicInv'
<1>1. PICK t \in Scripts :
        /\ Set(o, t) /\ t.kind = "disable"
        /\ t.todo = {n \in present : enabled[n]} /\ t.bad = Bad
        /\ t.moved = (present \ Known) \cap waiting
        /\ t.at \in {"evidence", "save", "strike"}
        /\ Bad # {} => t.at = "evidence"
        /\ t.at = "strike" => present \subseteq Known
        /\ \A n \in Known : t.rows[n] = backup[n]
        /\ \A n \in present \ Known :
             t.rows[n] = IF n \in waiting \/ enabled[n] THEN "on" ELSE "off"
        /\ \A n \in Nic : n \notin present \cup Known => t.rows[n] = "none"
  BY DisablePlan
<1>2. NicLockFree /\ Overlap /\ UNCHANGED <<orig, enabled, present, files>>
  BY DEF StartDisable, World
<1>3. OnlyTheirs(t)' /\ KindOK(t)
  BY <1>1, <1>2 DEF NicInv, StoreType, OffStore, OnlyTheirs, KindOK,
     DisableStages, Known, files
<1>4. /\ Struck \subseteq Struck' /\ Owes(script[o]) = {} /\ o \in Slots
      /\ UNCHANGED <<Lost, Bad, told>>
  <2>1. Owes(script[o]) = {} /\ o \in Slots
    BY DEF StartDisable, Owes, Slots
  <2> QED
    BY <1>1, <1>2, <2>1, StruckStays DEF files, lossVars, Lost, Bad
<1>5. ASSUME ~overlap
      PROVE  PlannedByDisable(t)'
  <2>1. \A n \in Lost : t.rows[n] = "on" \/ n \in waiting \/ n \in Struck \cup Bad
    BY <1>1, <1>5 DEF NicInv, KeptStore, Lost, Known, Bad
  <2>2. \A n \in t.todo : /\ t.rows[n] = "on" \/ n \in Struck
                          /\ n \in Known => backup[n] = "on" \/ n \in Struck
    BY <1>1, <1>5 DEF NicInv, KeptStore, OffStore, Known, StoreType
  <2>3. \A n \in t.moved : t.rows[n] = "on"
    BY <1>1
  <2>4. \A n \in Nic : orig[n] /\ t.rows[n] = "off" => n \in Struck \cup Bad
    BY <1>1, <1>5 DEF NicInv, KeptStore, StoreType, Known, Bad, Lost
  <2>5. \A n \in Nic : t.rows[n] # "bad"
    BY <1>1 DEF NicInv, StoreType, Known
  <2>6. Struck \cup Bad \subseteq Reported(t)'
    BY <1>1, <1>4 DEF Reported
  <2>7. t.at = "strike" => \A n \in t.todo : n \in Known
    BY <1>1
  <2> QED
    BY <1>1, <1>2, <1>4, <2>1, <2>2, <2>3, <2>4, <2>5, <2>6, <2>7
       DEF PlannedByDisable, files
<1>6. ~overlap => Planned(t)'
  BY <1>1, <1>4, <1>5 DEF Planned
<1> QED
  BY <1>1, <1>2, <1>3, <1>4, <1>6, Starts

(* The unreadable rows are kept, or the script remembers them.             *)
LEMMA EvidenceKeeps ==
  ASSUME NicInv, NEW o \in Slots, Evidence(o)
  PROVE  NicInv'
<1>1. Running(o) /\ script[o] \in Scripts /\ KindOK(script[o])
      /\ OnlyTheirs(script[o]) /\ (~overlap => KeptStore /\ Planned(script[o]))
  BY DEF NicInv, Evidence, Running
<1>2. PICK t \in Scripts :
        /\ Set(o, t)
        /\ t = [script[o] EXCEPT !.at = IF script[o].kind = "disable"
                                        THEN "save" ELSE "list"]
  BY <1>1 DEF Evidence, At, Scripts, Stages
<1>3. /\ t.at = IF t.kind = "disable" THEN "save" ELSE "list"
      /\ t.kind = script[o].kind /\ t.todo = script[o].todo
      /\ t.seen = script[o].seen /\ t.rows = script[o].rows
      /\ t.moved = script[o].moved /\ t.bad = script[o].bad
      /\ t.failed = script[o].failed
  BY <1>1, <1>2 DEF Scripts
<1>4. /\ script[o].at = "evidence" /\ evidence' \in {evidence, evidence \cup t.bad}
      /\ UNCHANGED <<orig, enabled, present, overlap, filed, backup, waiting, told, missed>>
  BY <1>3 DEF Evidence, Quiet, World
<1>5. StoreType' /\ OffStore'
  BY <1>1, <1>3, <1>4 DEF NicInv, StoreType, OffStore, Scripts
<1>6. KindOK(t) /\ OnlyTheirs(t)'
  BY <1>1, <1>3, <1>4 DEF KindOK, Active, DisableStages, RestoreStages, OnlyTheirs
<1>7. Struck \subseteq Struck' /\ t.bad \subseteq Struck'
  <2>1. Owes(script[o]) = {} /\ Owes(t) = t.bad
    BY <1>3, <1>4 DEF Owes
  <2> QED
    BY <1>2, <1>4, <2>1, StruckStays
<1>8. ASSUME ~overlap
      PROVE  KeptStore' /\ Planned(t)'
  <2>1. KeptStore'
    BY <1>1, <1>4, <1>7, <1>8 DEF KeptStore, Lost
  <2>2. Reported(script[o]) \subseteq Reported(t)' /\ UNCHANGED <<Lost, Bad>>
    BY <1>3, <1>4, <1>7 DEF Reported, Lost, Bad
  <2>3. t.kind = "disable" => PlannedByDisable(t)'
    BY <1>1, <1>3, <1>4, <1>8, <2>2 DEF Planned, PlannedByDisable
  <2>4. t.kind = "restore" => PlannedByRestore(t)'
    BY <1>1, <1>3, <1>4, <1>8, <2>2 DEF Planned, PlannedByRestore
  <2> QED
    BY <1>1, <1>3, <1>4, <1>8, <2>1, <2>2, <2>3, <2>4 DEF Planned
<1> QED
  BY <1>1, <1>2, <1>4, <1>5, <1>6, <1>8, Moves

(* The new backup is there before any adapter is touched, or nothing is.   *)
LEMMA SaveBackupKeeps ==
  ASSUME NicInv, NEW o \in Slots, SaveBackup(o)
  PROVE  NicInv'
<1>1. Running(o) /\ script[o] \in Scripts /\ KindOK(script[o])
      /\ OnlyTheirs(script[o]) /\ (~overlap => KeptStore /\ Planned(script[o]))
      /\ script[o].at = "save"
  BY DEF NicInv, SaveBackup, Running
<1>2. UNCHANGED <<orig, enabled, present, overlap, waiting>>
  BY DEF SaveBackup, Quiet, World
<1>3. CASE UNCHANGED <<filed, backup>> /\ Throws(o)
  BY <1>1, <1>2, <1>3, EndsThere DEF Throws
<1>4. CASE /\ filed' = TRUE /\ backup' = script[o].rows
           /\ At(o, IF script[o].moved # {} THEN "unlist" ELSE "strike")
           /\ UNCHANGED lossVars
  <2>1. PICK t \in Scripts :
          /\ Set(o, t)
          /\ t = [script[o] EXCEPT !.at = IF script[o].moved # {}
                                          THEN "unlist" ELSE "strike"]
    BY <1>1, <1>4 DEF At, Scripts, Stages
  <2>2. /\ t.at \in {"unlist", "strike"} /\ t.bad = script[o].bad
        /\ t.kind = script[o].kind /\ t.todo = script[o].todo
        /\ t.rows = script[o].rows /\ t.moved = script[o].moved
    BY <1>1, <2>1 DEF Scripts
  <2>3. t.kind = "disable"
    BY <1>1, <2>2 DEF KindOK, Active, RestoreStages
  <2>4. StoreType' /\ OffStore'
    BY <1>1, <1>2, <1>4 DEF NicInv, StoreType, OffStore, OnlyTheirs, Scripts, lossVars
  <2>5. KindOK(t) /\ OnlyTheirs(t)'
    BY <1>1, <1>2, <2>2, <2>3 DEF KindOK, DisableStages, OnlyTheirs
  <2>6. Struck \subseteq Struck' /\ t.bad \subseteq Struck'
    <3>1. Owes(script[o]) = t.bad /\ Owes(t) = t.bad
      BY <1>1, <2>2 DEF Owes
    <3> QED
      BY <1>4, <2>1, <3>1, StruckStays DEF lossVars
  <2>7. ASSUME ~overlap
        PROVE  KeptStore' /\ Planned(t)'
    <3>1. /\ \A n \in Lost : t.rows[n] = "on" \/ n \in waiting \/ n \in Struck'
          /\ \A n \in t.todo : t.rows[n] = "on" \/ n \in Struck'
          /\ \A n \in t.moved : t.rows[n] = "on"
          /\ \A n \in Nic : orig[n] /\ t.rows[n] = "off" => n \in Struck'
          /\ \A n \in Nic : t.rows[n] # "bad"
      BY <1>1, <2>2, <2>3, <2>6, <2>7 DEF Planned, PlannedByDisable, Reported
    <3>2. backup' = t.rows /\ Bad' = {}
      BY <1>4, <2>2, <3>1 DEF Bad
    <3>3. Struck' \subseteq Reported(t)'
      BY DEF Reported
    <3> QED
      BY <1>2, <2>2, <2>3, <3>1, <3>2, <3>3
         DEF KeptStore, Lost, Planned, PlannedByDisable
  <2> QED
    BY <1>1, <1>2, <2>1, <2>4, <2>5, <2>7, Moves
<1> QED
  BY <1>3, <1>4 DEF SaveBackup

(* What leaves the list is in the backup.                                  *)
LEMMA UnlistKeeps ==
  ASSUME NicInv, NEW o \in Slots, Unlist(o)
  PROVE  NicInv'
<1>1. Running(o) /\ script[o] \in Scripts /\ KindOK(script[o])
      /\ OnlyTheirs(script[o]) /\ (~overlap => KeptStore /\ Planned(script[o]))
      /\ script[o].at = "unlist"
  BY DEF NicInv, Unlist, Running
<1>2. UNCHANGED <<orig, enabled, present, overlap, filed, backup>>
  BY DEF Unlist, Quiet, World
<1>3. CASE UNCHANGED waiting /\ Throws(o)
  BY <1>1, <1>2, <1>3, EndsThere DEF Throws
<1>4. CASE waiting' = waiting \ script[o].moved /\ At(o, "strike") /\ UNCHANGED lossVars
  <2>1. PICK t \in Scripts : Set(o, t) /\ t = [script[o] EXCEPT !.at = "strike"]
    BY <1>1, <1>4 DEF At, Scripts, Stages
  <2>2. /\ t.at = "strike" /\ t.bad = script[o].bad
        /\ t.kind = script[o].kind /\ t.todo = script[o].todo
        /\ t.rows = script[o].rows /\ t.moved = script[o].moved
    BY <1>1, <2>1 DEF Scripts
  <2>3. t.kind = "disable"
    BY <1>1, <2>2 DEF KindOK, Active, RestoreStages
  <2>4. StoreType' /\ OffStore'
    BY <1>2, <1>4 DEF NicInv, StoreType, OffStore, lossVars
  <2>5. KindOK(t) /\ OnlyTheirs(t)'
    BY <1>1, <1>2, <2>2, <2>3 DEF KindOK, DisableStages, OnlyTheirs
  <2>6. Struck \subseteq Struck' /\ told' = told
    <3>1. Owes(script[o]) = Owes(t)
      BY <1>1, <2>2 DEF Owes
    <3> QED
      BY <1>4, <2>1, <3>1, StruckStays DEF lossVars
  <2>7. ASSUME ~overlap
        PROVE  KeptStore' /\ Planned(t)'
    <3>1. /\ \A n \in t.moved : backup[n] = "on"
          /\ \A n \in t.todo : backup[n] = "on" \/ n \in Reported(script[o])
          /\ Bad \subseteq t.bad \cup told
      BY <1>1, <2>2, <2>3, <2>7 DEF Planned, PlannedByDisable
    <3>2. waiting' = waiting \ t.moved /\ Reported(script[o]) \subseteq Reported(t)'
      BY <1>4, <2>2, <2>6 DEF Reported
    <3>3. KeptStore'
      BY <1>1, <1>2, <2>6, <2>7, <3>1, <3>2 DEF KeptStore, Lost
    <3>4. PlannedByDisable(t)' /\ Bad' = Bad
      BY <1>2, <2>2, <3>1, <3>2 DEF PlannedByDisable, Bad
    <3> QED
      BY <2>3, <2>6, <3>1, <3>3, <3>4 DEF Planned
  <2> QED
    BY <1>1, <1>2, <2>1, <2>4, <2>5, <2>7, Moves
<1> QED
  BY <1>3, <1>4 DEF Unlist

(* An adapter is switched off only with its row in the backup.             *)
LEMMA StrikeKeeps ==
  ASSUME NicInv, NEW o \in Slots, NEW n \in Nic, Strike(o, n)
  PROVE  NicInv'
<1>1. Running(o) /\ script[o] \in Scripts /\ KindOK(script[o])
      /\ OnlyTheirs(script[o]) /\ (~overlap => KeptStore /\ Planned(script[o]))
      /\ script[o].at = "strike" /\ n \in script[o].todo
  BY DEF NicInv, Strike, Running
<1>2. UNCHANGED <<orig, present, overlap, filed, backup, waiting, lossVars>>
  BY DEF Strike, Quiet, World, files
<1>3. PICK t \in Scripts :
        /\ Set(o, t)
        /\ \/ t = [script[o] EXCEPT !.todo = @ \ {n}]
           \/ t = [script[o] EXCEPT !.todo = @ \ {n}, !.failed = TRUE]
  BY <1>1 DEF Strike, Scripts
<1>4. /\ t.at = "strike" /\ t.kind = script[o].kind /\ t.bad = script[o].bad
      /\ t.todo = script[o].todo \ {n}
      /\ t.rows = script[o].rows /\ t.moved = script[o].moved
  BY <1>1, <1>3 DEF Scripts
<1>5. t.kind = "disable"
  BY <1>1, <1>4 DEF KindOK, Active, RestoreStages
<1>6. enabled' = enabled \/ enabled' = [enabled EXCEPT ![n] = FALSE]
  BY DEF Strike
<1>7. StoreType' /\ OffStore'
  BY <1>2, <1>6 DEF NicInv, StoreType, OffStore, lossVars
<1>8. KindOK(t) /\ OnlyTheirs(t)'
  BY <1>1, <1>2, <1>4, <1>5 DEF KindOK, DisableStages, OnlyTheirs
<1>9. Struck \subseteq Struck' /\ script[o].bad \subseteq Struck'
  <2>1. Owes(script[o]) = t.bad /\ Owes(t) = t.bad
    BY <1>1, <1>4 DEF Owes
  <2> QED
    BY <1>2, <1>3, <1>4, <2>1, StruckStays DEF lossVars
<1>10. ASSUME ~overlap
       PROVE  KeptStore' /\ Planned(t)'
  <2>1. /\ \A m \in script[o].todo : backup[m] = "on" \/ m \in Struck'
        /\ \A m \in t.todo : m \in script[o].todo
        /\ Bad \subseteq t.bad \cup told
    BY <1>1, <1>4, <1>5, <1>9, <1>10 DEF Planned, PlannedByDisable, Reported
  <2>2. \A m \in Lost' : m \in Lost \/ m = n
    BY <1>2, <1>6 DEF NicInv, StoreType, Lost
  <2>3. KeptStore'
    BY <1>1, <1>2, <1>9, <1>10, <2>1, <2>2 DEF KeptStore
  <2>4. PlannedByDisable(t)' /\ Bad' = Bad /\ told' = told
    BY <1>2, <1>4, <2>1 DEF PlannedByDisable, Bad, Reported, lossVars
  <2> QED
    BY <1>5, <2>1, <2>3, <2>4 DEF Planned
<1> QED
  BY <1>1, <1>2, <1>3, <1>7, <1>8, <1>10, Moves

(* The adapters are listed again; the script is over.                      *)
LEMMA VerifyKeeps ==
  ASSUME NicInv, NEW o \in Slots, Verify(o)
  PROVE  NicInv'
<1>1. Running(o) /\ script[o] \in Scripts
  BY DEF NicInv, Verify, Running
<1>2. UNCHANGED <<orig, enabled, present, overlap, filed, backup, waiting>>
  BY DEF Verify, Quiet, World
<1>3. PICK f \in BOOLEAN : End(o, f, script[o].bad)
  BY <1>1 DEF Verify, Scripts, NicInv, StoreType
<1>4. script[o].bad \in SUBSET Nic
  BY <1>1 DEF Scripts
<1> QED
  BY <1>1, <1>2, <1>3, <1>4, EndsThere

-----------------------------------------------------------------------------
(* RestoreNICIPv6, line by line.                                           *)

(* What a restore that begins has read.                                    *)
LEMMA RestorePlan ==
  ASSUME NicInv, NEW o \in Owner, StartRestore(o)
  PROVE  \E t \in Scripts :
           /\ Set(o, t) /\ t.kind = "restore" /\ t.at = "enable"
           /\ t.todo = {n \in Nic : backup[n] = "on"} \cup (waiting \ Known)
           /\ t.waited = waiting \ Known /\ t.bad = Bad
           /\ t.seen = {} /\ t.moved = {} /\ t.rows = NoRows
<1> DEFINE todo == {n \in Nic : backup[n] = "on"} \cup (waiting \ Known)
           t == [NoScript EXCEPT !.kind = "restore", !.at = "enable",
                   !.todo = todo, !.waited = waiting \ Known, !.bad = Bad]
<1>1. Set(o, t)
  BY DEF StartRestore
<1>2. todo \subseteq Nic /\ waiting \ Known \subseteq Nic /\ Bad \subseteq Nic
  BY DEF NicInv, StoreType, Bad
<1> HIDE DEF todo
<1>3. t \in Scripts
  BY <1>2, NoScriptIsOne DEF Scripts, Stages, NoScript
<1>4. /\ t.kind = "restore" /\ t.at = "enable" /\ t.todo = todo
      /\ t.waited = waiting \ Known /\ t.bad = Bad
      /\ t.seen = {} /\ t.moved = {} /\ t.rows = NoRows
  BY DEF NoScript
<1> HIDE DEF t
<1> QED
  BY <1>1, <1>3, <1>4 DEF todo

(* Every lost setting is on the plan, or about to be reported.             *)
LEMMA StartRestoreKeeps ==
  ASSUME NicInv, NEW o \in Owner, StartRestore(o)
  PROVE  NicInv'
<1>1. PICK t \in Scripts :
        /\ Set(o, t) /\ t.kind = "restore" /\ t.at = "enable"
        /\ t.todo = {n \in Nic : backup[n] = "on"} \cup (waiting \ Known)
        /\ t.waited = waiting \ Known /\ t.bad = Bad
        /\ t.seen = {} /\ t.moved = {} /\ t.rows = NoRows
  BY RestorePlan
<1>2. NicLockFree /\ Overlap /\ UNCHANGED <<orig, enabled, present, files>>
  BY DEF StartRestore, World
<1>3. OnlyTheirs(t)' /\ KindOK(t)
  BY <1>1, <1>2 DEF NicInv, OffStore, OnlyTheirs, KindOK, RestoreStages, NoRows
<1>4. /\ Struck \subseteq Struck' /\ UNCHANGED <<Lost, Bad, told>>
  <2>1. Owes(script[o]) = {} /\ o \in Slots
    BY DEF StartRestore, Owes, Slots
  <2> QED
    BY <1>1, <1>2, <2>1, StruckStays DEF files, lossVars, Lost, Bad
<1>5. ASSUME ~overlap
      PROVE  PlannedByRestore(t)'
  <2>1. \A n \in Nic : t.rows[n] = "none"
    BY <1>1 DEF NoRows
  <2>2. Struck \cup Bad \subseteq Reported(t)'
    BY <1>1, <1>4 DEF Reported
  <2>3. \A n \in Lost : n \in t.todo \/ n \in Struck \cup Bad
    BY <1>1, <1>5 DEF NicInv, KeptStore, Lost, Known, Bad
  <2>4. \A n \in (t.todo \cup t.seen) \ t.waited : backup[n] = "on"
    BY <1>1
  <2> QED
    BY <1>1, <1>2, <1>4, <2>1, <2>2, <2>3, <2>4 DEF PlannedByRestore, files
<1>6. ~overlap => Planned(t)'
  BY <1>1, <1>4, <1>5 DEF Planned
<1> QED
  BY <1>1, <1>2, <1>3, <1>4, <1>6, Starts

(* An adapter is switched on, or put where it will be found.               *)
LEMMA EnableKeeps ==
  ASSUME NicInv, NEW o \in Slots, NEW n \in Nic, Enable(o, n)
  PROVE  NicInv'
<1>1. Running(o) /\ script[o] \in Scripts /\ KindOK(script[o])
      /\ OnlyTheirs(script[o]) /\ (~overlap => KeptStore /\ Planned(script[o]))
      /\ script[o].at = "enable" /\ n \in script[o].todo
  BY DEF NicInv, Enable, Running
<1>2. UNCHANGED <<orig, present, overlap, filed, backup, waiting, lossVars>>
  BY DEF Enable, Quiet, World, files
<1>3. script[o].kind = "restore" /\ orig[n]
  BY <1>1 DEF KindOK, Active, DisableStages, OnlyTheirs
<1>4. PICK t \in Scripts :
        /\ Set(o, t)
        /\ t.at = "enable" /\ t.kind = "restore" /\ t.bad = script[o].bad
        /\ t.todo = script[o].todo \ {n} /\ t.waited = script[o].waited
        /\ \/ /\ enabled' = [enabled EXCEPT ![n] = TRUE]
              /\ t.seen = script[o].seen \cup {n} /\ t.rows = script[o].rows
              /\ t.moved = script[o].moved /\ t.failed = script[o].failed
           \/ /\ UNCHANGED enabled
              /\ t.seen = script[o].seen /\ t.rows = script[o].rows
              /\ t.moved = script[o].moved \cup {n} /\ t.failed = script[o].failed
           \/ /\ UNCHANGED enabled /\ n \notin script[o].waited
              /\ t.seen = script[o].seen /\ t.moved = script[o].moved
              /\ t.rows = [script[o].rows EXCEPT ![n] = "on"] /\ t.failed = TRUE
  <2> DEFINE rest == [script[o] EXCEPT !.todo = @ \ {n}]
  <2>1. /\ rest \in Scripts /\ rest.at = "enable" /\ rest.kind = "restore"
        /\ rest.todo = script[o].todo \ {n} /\ rest.waited = script[o].waited
        /\ rest.bad = script[o].bad /\ rest.seen = script[o].seen
        /\ rest.rows = script[o].rows /\ rest.moved = script[o].moved
        /\ rest.failed = script[o].failed
    BY <1>1, <1>3 DEF Scripts
  <2>2. \/ /\ enabled' = [enabled EXCEPT ![n] = TRUE]
           /\ Set(o, [rest EXCEPT !.seen = @ \cup {n}])
        \/ Set(o, Keep(rest, n)) /\ UNCHANGED enabled
        \/ Set(o, [rest EXCEPT !.moved = @ \cup {n}]) /\ UNCHANGED enabled
    BY DEF Enable
  <2> HIDE DEF rest
  <2>3. CASE /\ enabled' = [enabled EXCEPT ![n] = TRUE]
             /\ Set(o, [rest EXCEPT !.seen = @ \cup {n}])
    BY <2>1, <2>3 DEF Scripts
  <2>4. CASE Set(o, [rest EXCEPT !.moved = @ \cup {n}]) /\ UNCHANGED enabled
    BY <2>1, <2>4 DEF Scripts
  <2>5. CASE Set(o, Keep(rest, n)) /\ UNCHANGED enabled
    <3>1. CASE n \in rest.waited
      BY <2>1, <2>5, <3>1 DEF Scripts, Keep
    <3>2. CASE n \notin rest.waited
      <4> DEFINE rows == [rest.rows EXCEPT ![n] = "on"]
                 kept == [rest EXCEPT !.rows = rows, !.failed = TRUE]
      <4>1. Set(o, kept)
        BY <2>5, <3>2 DEF Keep
      <4>2. rows \in [Nic -> Row]
        BY <2>1 DEF Scripts, Row
      <4> HIDE DEF rows
      <4>3. /\ kept \in Scripts /\ kept.at = "enable" /\ kept.kind = "restore"
            /\ kept.bad = rest.bad /\ kept.todo = rest.todo
            /\ kept.waited = rest.waited /\ kept.seen = rest.seen
            /\ kept.moved = rest.moved /\ kept.rows = rows /\ kept.failed = TRUE
        BY <2>1, <4>2 DEF Scripts
      <4> HIDE DEF kept
      <4> QED
        BY <2>1, <2>5, <3>2, <4>1, <4>3 DEF rows
    <3> QED
      BY <3>1, <3>2
  <2> QED
    BY <2>2, <2>3, <2>4, <2>5
<1>5. t.rows \in [Nic -> Row] /\ script[o].rows \in [Nic -> Row]
  BY <1>1 DEF Scripts
<1>6. StoreType' /\ OffStore'
  BY <1>2, <1>3, <1>4 DEF NicInv, StoreType, OffStore, lossVars
<1>7. KindOK(t) /\ OnlyTheirs(t)'
  BY <1>1, <1>2, <1>3, <1>4, <1>5 DEF KindOK, RestoreStages, OnlyTheirs
<1>8. Struck \subseteq Struck'
  <2>1. Owes(script[o]) = {}
    BY <1>1 DEF Owes
  <2> QED
    BY <1>2, <1>4, <2>1, StruckStays DEF lossVars
<1>9. ASSUME ~overlap
      PROVE  KeptStore' /\ Planned(t)'
  <2>1. \A m \in Lost' : m \in Lost /\ (enabled' # enabled => m # n)
    BY <1>2, <1>4 DEF NicInv, StoreType, Lost
  <2>2. KeptStore'
    BY <1>1, <1>2, <1>8, <1>9, <2>1 DEF KeptStore
  <2>3. PlannedByRestore(script[o]) /\ Bad \subseteq t.bad \cup told
    BY <1>1, <1>3, <1>4, <1>9 DEF Planned
  <2>4. /\ \A m \in Nic : t.rows[m] \in {"none", "on"} /\ (t.rows[m] = "on" => t.failed)
        /\ \A m \in Nic : t.rows[m] = "on" => backup[m] = "on"
        /\ \A m \in (t.todo \cup t.seen) \ t.waited : backup[m] = "on"
    BY <1>1, <1>4, <1>5, <2>3 DEF PlannedByRestore
  <2>5. Reported(script[o]) \subseteq Reported(t)'
    BY <1>4, <1>8 DEF Reported
  <2>6. \A m \in Lost' : \/ m \in t.todo \cup t.seen \cup t.moved
                         \/ t.rows[m] = "on" \/ m \in Reported(t)'
    BY <1>1, <1>4, <1>5, <2>1, <2>3, <2>5 DEF PlannedByRestore, Lost
  <2>7. PlannedByRestore(t)'
    BY <1>2, <1>4, <2>4, <2>6 DEF PlannedByRestore
  <2>8. UNCHANGED <<Bad, told>>
    BY <1>2 DEF Bad, lossVars
  <2> QED
    BY <1>4, <2>2, <2>3, <2>7, <2>8 DEF Planned
<1> QED
  BY <1>1, <1>2, <1>4, <1>6, <1>7, <1>9, Moves

(* What is still off goes back to where it came from.                      *)
LEMMA ConfirmKeeps ==
  ASSUME NicInv, NEW o \in Slots, Confirm(o)
  PROVE  NicInv'
<1> DEFINE off == {n \in script[o].seen : ~enabled[n]}
<1>1. Running(o) /\ script[o] \in Scripts /\ KindOK(script[o])
      /\ OnlyTheirs(script[o]) /\ (~overlap => KeptStore /\ Planned(script[o]))
      /\ script[o].at = "enable" /\ script[o].todo = {}
  BY DEF NicInv, Confirm, Running
<1>2. UNCHANGED <<orig, enabled, present, overlap, filed, backup, waiting, lossVars>>
  BY DEF Confirm, Quiet, World, files
<1>3. script[o].kind = "restore"
  BY <1>1 DEF KindOK, Active, DisableStages
<1>4. PICK t \in Scripts :
        /\ Set(o, t) /\ t.kind = "restore" /\ t.bad = script[o].bad
        /\ t.todo = {} /\ t.seen = script[o].seen
        /\ t.at = IF t.bad # {} THEN "evidence" ELSE "list"
        /\ t.moved = script[o].moved \cup (off \cap script[o].waited)
        /\ \A n \in Nic : t.rows[n] = IF n \in off \ script[o].waited
                                      THEN "on" ELSE script[o].rows[n]
        /\ t.failed = (script[o].failed \/ off \ script[o].waited # {})
  <2> DEFINE at == IF script[o].bad # {} THEN "evidence" ELSE "list"
             moved == script[o].moved \cup (off \cap script[o].waited)
             rows == [n \in Nic |-> IF n \in off \ script[o].waited
                                    THEN "on" ELSE script[o].rows[n]]
             failed == script[o].failed \/ off \ script[o].waited # {}
             t == [script[o] EXCEPT !.at = at, !.moved = moved, !.rows = rows,
                                    !.failed = failed]
  <2>1. Set(o, t)
    BY DEF Confirm
  <2>2. rows \in [Nic -> Row] /\ moved \in SUBSET Nic /\ failed \in BOOLEAN
        /\ at \in {"evidence", "list"}
    BY <1>1 DEF Scripts, Row
  <2> HIDE DEF off, at, moved, rows, failed
  <2>3. t \in Scripts
    BY <1>1, <2>2 DEF Scripts, Stages
  <2>4. /\ t.kind = "restore" /\ t.bad = script[o].bad /\ t.todo = {}
        /\ t.seen = script[o].seen /\ t.at = at /\ t.moved = moved
        /\ t.rows = rows /\ t.failed = failed
    BY <1>1, <1>3 DEF Scripts
  <2> HIDE DEF t
  <2> QED
    BY <2>1, <2>3, <2>4 DEF at, moved, rows, failed
<1>5. StoreType' /\ OffStore'
  BY <1>2 DEF NicInv, StoreType, OffStore, lossVars
<1>6. KindOK(t)
  BY <1>4 DEF KindOK, RestoreStages
<1>7. OnlyTheirs(t)'
  BY <1>1, <1>2, <1>3, <1>4 DEF OnlyTheirs
<1>8. Struck \subseteq Struck' /\ UNCHANGED <<Lost, Bad, told>>
  <2>1. Owes(script[o]) = {}
    BY <1>1 DEF Owes
  <2> QED
    BY <1>2, <1>4, <2>1, StruckStays DEF lossVars, Lost, Bad
<1>9. ASSUME ~overlap
      PROVE  KeptStore' /\ Planned(t)'
  <2>1. KeptStore'
    BY <1>1, <1>2, <1>8, <1>9 DEF KeptStore
  <2>2. PlannedByRestore(script[o]) /\ Bad \subseteq t.bad \cup told
    BY <1>1, <1>3, <1>4, <1>9 DEF Planned
  <2>3. off \subseteq script[o].seen /\ off \subseteq Nic
    BY <1>1 DEF Scripts
  <2>4. /\ \A n \in Nic : t.rows[n] \in {"none", "on"} /\ (t.rows[n] = "on" => t.failed)
        /\ \A n \in Nic : t.rows[n] = "on" => backup[n] = "on"
    BY <1>1, <1>4, <2>2, <2>3 DEF PlannedByRestore
  <2>5. \A n \in Lost : \/ n \in off \cup script[o].moved
                        \/ script[o].rows[n] = "on" \/ n \in Reported(script[o])
    BY <1>1, <1>4, <2>2 DEF PlannedByRestore, Lost
  <2>6. \A n \in Lost : n \in t.moved \/ t.rows[n] = "on" \/ n \in Reported(t)'
    BY <1>4, <1>8, <2>5 DEF Lost, Reported
  <2>7. PlannedByRestore(t)'
    BY <1>2, <1>4, <1>8, <2>4, <2>6 DEF PlannedByRestore
  <2> QED
    BY <1>4, <1>8, <2>1, <2>2, <2>7 DEF Planned
<1> QED
  BY <1>1, <1>2, <1>4, <1>5, <1>6, <1>7, <1>9, Moves

(* The waiting list is written while the backup is still there.            *)
LEMMA ListKeeps ==
  ASSUME NicInv, NEW o \in Slots, List(o)
  PROVE  NicInv'
<1>1. Running(o) /\ script[o] \in Scripts /\ KindOK(script[o])
      /\ OnlyTheirs(script[o]) /\ (~overlap => KeptStore /\ Planned(script[o]))
      /\ script[o].at = "list"
  BY DEF NicInv, List, Running
<1>2. UNCHANGED <<orig, enabled, present, overlap, filed, backup>>
  BY DEF List, Quiet, World
<1>3. CASE UNCHANGED waiting /\ Throws(o)
  BY <1>1, <1>2, <1>3, EndsThere DEF Throws
<1>4. CASE waiting' = script[o].moved /\ At(o, "drop") /\ UNCHANGED lossVars
  <2>1. PICK t \in Scripts : Set(o, t) /\ t = [script[o] EXCEPT !.at = "drop"]
    BY <1>1, <1>4 DEF At, Scripts, Stages
  <2>2. /\ t.at = "drop" /\ t.bad = script[o].bad /\ t.failed = script[o].failed
        /\ t.kind = script[o].kind /\ t.todo = script[o].todo
        /\ t.seen = script[o].seen
        /\ t.rows = script[o].rows /\ t.moved = script[o].moved
    BY <1>1, <2>1 DEF Scripts
  <2>3. t.kind = "restore"
    BY <1>1, <2>2 DEF KindOK, Active, DisableStages
  <2>4. StoreType' /\ OffStore'
    BY <1>1, <1>2, <1>4 DEF NicInv, StoreType, OffStore, OnlyTheirs, Scripts, lossVars
  <2>5. KindOK(t) /\ OnlyTheirs(t)'
    BY <1>1, <1>2, <2>2, <2>3 DEF KindOK, RestoreStages, OnlyTheirs
  <2>6. Struck \subseteq Struck' /\ t.bad \subseteq Struck' /\ UNCHANGED <<Lost, Bad, told>>
    <3>1. Owes(script[o]) = t.bad /\ Owes(t) = t.bad
      BY <1>1, <2>2 DEF Owes
    <3> QED
      BY <1>2, <1>4, <2>1, <3>1, StruckStays DEF lossVars, Lost, Bad
  <2>7. ASSUME ~overlap
        PROVE  KeptStore' /\ Planned(t)'
    <3>1. PlannedByRestore(script[o]) /\ Bad \subseteq t.bad \cup told
      BY <1>1, <2>2, <2>3, <2>7 DEF Planned
    <3>2. /\ \A n \in Nic : t.rows[n] \in {"none", "on"} /\ (t.rows[n] = "on" => t.failed)
          /\ \A n \in Nic : t.rows[n] = "on" => backup[n] = "on"
          /\ \A n \in Nic : t.rows[n] = "on" => backup[n] = "on"
          /\ \A n \in Lost : n \in waiting' \/ t.rows[n] = "on" \/ n \in Struck'
      BY <1>1, <1>4, <2>2, <2>6, <3>1 DEF PlannedByRestore, Reported
    <3>3. KeptStore'
      BY <1>1, <1>2, <2>6, <2>7, <3>2 DEF KeptStore, Lost
    <3>4. PlannedByRestore(t)'
      BY <1>2, <2>2, <2>6, <3>2 DEF PlannedByRestore, Reported
    <3> QED
      BY <2>3, <2>6, <3>1, <3>3, <3>4 DEF Planned
  <2> QED
    BY <1>1, <1>2, <2>1, <2>4, <2>5, <2>7, Moves
<1> QED
  BY <1>3, <1>4 DEF List

(* The backup goes when nothing depends on it, and is rewritten otherwise. *)
LEMMA DropKeeps ==
  ASSUME NicInv, NEW o \in Slots, Drop(o)
  PROVE  NicInv'
<1>1. Running(o) /\ script[o] \in Scripts /\ KindOK(script[o])
      /\ OnlyTheirs(script[o]) /\ (~overlap => KeptStore /\ Planned(script[o]))
      /\ script[o].at = "drop"
  BY DEF NicInv, Drop, Running
<1>2. UNCHANGED <<orig, enabled, present, overlap, waiting>>
  BY DEF Drop, Quiet, World
<1>3. script[o].kind = "restore"
  BY <1>1 DEF KindOK, Active, DisableStages
<1>4. CASE UNCHANGED <<filed, backup>> /\ Throws(o)
  BY <1>1, <1>2, <1>4, EndsThere DEF Throws
<1>5. CASE /\ IF script[o].failed THEN filed' = TRUE /\ backup' = script[o].rows
              ELSE NoBackup \/ UNCHANGED <<filed, backup>>
           /\ At(o, "report") /\ UNCHANGED lossVars
  <2>1. PICK t \in Scripts : Set(o, t) /\ t = [script[o] EXCEPT !.at = "report"]
    BY <1>1, <1>5 DEF At, Scripts, Stages
  <2>2. /\ t.at = "report" /\ t.bad = script[o].bad /\ t.failed = script[o].failed
        /\ t.kind = "restore" /\ t.todo = script[o].todo
        /\ t.seen = script[o].seen
        /\ t.rows = script[o].rows /\ t.moved = script[o].moved
    BY <1>1, <1>3, <2>1 DEF Scripts
  <2>3. StoreType' /\ OffStore'
    <3>1. \/ backup' = script[o].rows \/ backup' = NoRows \/ backup' = backup
      BY <1>5 DEF NoBackup
    <3>2. filed' \in BOOLEAN /\ backup' \in [Nic -> Row]
      <4>1. script[o].rows \in [Nic -> Row] /\ filed \in BOOLEAN /\ backup \in [Nic -> Row]
        BY <1>1 DEF Scripts, NicInv, StoreType
      <4>2. filed' \in {TRUE, FALSE, filed}
        BY <1>5 DEF NoBackup
      <4> QED
        BY <3>1, <4>1, <4>2, NoScriptIsOne
    <3>3. \A n \in Nic : ~orig[n] => backup'[n] # "on"
      BY <1>1, <3>1 DEF NicInv, OffStore, OnlyTheirs, NoRows
    <3> QED
      BY <1>2, <1>5, <3>2, <3>3 DEF NicInv, StoreType, OffStore, lossVars
  <2>4. KindOK(t) /\ OnlyTheirs(t)'
    BY <1>1, <1>2, <1>3, <2>2 DEF KindOK, RestoreStages, OnlyTheirs
  <2>5. /\ Struck \subseteq Struck' /\ t.bad \subseteq Struck'
        /\ told' = told /\ UNCHANGED Lost
    <3>1. Owes(script[o]) = t.bad /\ Owes(t) = t.bad
      BY <1>1, <2>2 DEF Owes
    <3> QED
      BY <1>2, <1>5, <2>1, <3>1, StruckStays DEF lossVars, Lost
  <2>6. ASSUME ~overlap
        PROVE  KeptStore' /\ Planned(t)'
    <3>1. /\ \A n \in Nic : t.rows[n] \in {"none", "on"} /\ (t.rows[n] = "on" => t.failed)
          /\ \A n \in Lost : n \in waiting \/ t.rows[n] = "on" \/ n \in Struck'
          /\ Bad \subseteq t.bad \cup told
      BY <1>1, <1>3, <2>2, <2>5, <2>6 DEF Planned, PlannedByRestore, Reported
    <3>2. KeptStore'
      <4>1. CASE script[o].failed
        BY <1>2, <1>5, <2>2, <2>5, <3>1, <4>1 DEF KeptStore
      <4>2. CASE ~script[o].failed
        <5>1. \A n \in Lost : n \in waiting \/ n \in Struck'
          BY <2>2, <3>1, <4>2 DEF Lost
        <5> QED
          BY <1>1, <1>2, <1>5, <2>5, <2>6, <4>2, <5>1 DEF KeptStore, NoBackup, NoRows
      <4> QED
        BY <4>1, <4>2
    <3>3. PlannedByRestore(t)'
      BY <1>2, <2>2, <2>5, <3>1 DEF PlannedByRestore, Reported, Lost
    <3>4. Bad' \subseteq Bad
      BY <1>5, <2>2, <3>1 DEF Bad, NoBackup, NoRows
    <3> QED
      BY <2>2, <2>5, <3>1, <3>2, <3>3, <3>4 DEF Planned
  <2> QED
    BY <1>1, <1>2, <2>1, <2>3, <2>4, <2>6, Moves
<1> QED
  BY <1>4, <1>5 DEF Drop

(* What has been reported is not given up.                                 *)
LEMMA ReportKeeps ==
  ASSUME NicInv, NEW o \in Slots, Report(o)
  PROVE  NicInv'
<1>1. Running(o) /\ script[o] \in Scripts /\ KindOK(script[o])
      /\ OnlyTheirs(script[o]) /\ (~overlap => KeptStore /\ Planned(script[o]))
      /\ script[o].at = "report"
  BY DEF NicInv, Report, Running
<1>2. UNCHANGED <<orig, enabled, present, overlap, filed, backup, waiting>>
  BY DEF Report, Quiet, World
<1>3. CASE End(o, FALSE, {})
  BY <1>1, <1>2, <1>3, EndsThere
<1>4. CASE /\ told' = told \cup script[o].bad
           /\ Set(o, [script[o] EXCEPT !.at = "sweep", !.bad = {}])
           /\ UNCHANGED <<evidence, missed>>
  <2>1. PICK t \in Scripts :
          Set(o, t) /\ t = [script[o] EXCEPT !.at = "sweep", !.bad = {}]
    BY <1>1, <1>4 DEF Scripts, Stages
  <2>2. /\ t.at = "sweep" /\ t.bad = {} /\ t.failed = script[o].failed
        /\ t.kind = script[o].kind /\ t.todo = script[o].todo
        /\ t.seen = script[o].seen
        /\ t.rows = script[o].rows /\ t.moved = script[o].moved
    BY <1>1, <2>1 DEF Scripts
  <2>3. t.kind = "restore"
    BY <1>1, <2>2 DEF KindOK, Active, DisableStages
  <2>4. StoreType' /\ OffStore'
    BY <1>1, <1>2, <1>4 DEF NicInv, StoreType, OffStore, Scripts
  <2>5. KindOK(t) /\ OnlyTheirs(t)'
    BY <1>1, <1>2, <2>2, <2>3 DEF KindOK, RestoreStages, OnlyTheirs
  <2>6. Struck \subseteq Struck' /\ script[o].bad \subseteq told'
        /\ told \subseteq told' /\ UNCHANGED <<Lost, Bad>>
    <3>1. Owes(script[o]) \subseteq Owes(t) \cup told'
      BY <1>1, <1>4 DEF Owes
    <3> QED
      BY <1>2, <1>4, <2>1, <3>1, StruckStays DEF Lost, Bad
  <2>7. ASSUME ~overlap
        PROVE  KeptStore' /\ Planned(t)'
    <3>1. PlannedByRestore(script[o]) /\ Bad \subseteq script[o].bad \cup told
      BY <1>1, <2>2, <2>3, <2>7 DEF Planned
    <3>2. Reported(script[o]) \subseteq Reported(t)'
      BY <2>6 DEF Reported, Struck
    <3>3. KeptStore'
      BY <1>1, <1>2, <2>6, <2>7 DEF KeptStore
    <3>4. PlannedByRestore(t)'
      BY <1>1, <1>2, <2>2, <2>6, <3>1, <3>2 DEF PlannedByRestore
    <3> QED
      BY <2>2, <2>3, <2>6, <3>1, <3>3, <3>4 DEF Planned
  <2> QED
    BY <1>1, <1>2, <2>1, <2>4, <2>5, <2>7, Moves
<1> QED
  BY <1>3, <1>4 DEF Report

(* Nothing depends on the backup any more.                                 *)
LEMMA SweepKeeps ==
  ASSUME NicInv, NEW o \in Slots, Sweep(o)
  PROVE  NicInv'
<1>1. Running(o) /\ script[o] \in Scripts /\ KindOK(script[o])
      /\ (~overlap => KeptStore /\ Planned(script[o]))
      /\ script[o].at = "sweep"
  BY DEF NicInv, Sweep, Running
<1>2. UNCHANGED <<orig, enabled, present, overlap, waiting>>
  BY DEF Sweep, Quiet, World
<1>3. CASE UNCHANGED <<filed, backup>>
  <2>1. PICK f \in BOOLEAN : End(o, f, {})
    BY <1>1 DEF Sweep, Throws, Scripts
  <2> QED
    BY <1>1, <1>2, <1>3, <2>1, EndsThere
<1>4. CASE ~script[o].failed /\ NoBackup /\ End(o, FALSE, {})
  <2>1. StoreType' /\ OffStore'
    <3>1. {evidence', told', missed'} \subseteq SUBSET Nic
      BY <1>1, <1>4, StruckAtEnd DEF NicInv
    <3> QED
      BY <1>2, <1>4, <3>1, NoScriptIsOne
         DEF NicInv, StoreType, OffStore, NoBackup, NoRows
  <2>2. ASSUME ~overlap
        PROVE  KeptStore'
    <3>1. /\ script[o].kind = "restore" /\ script[o].bad = {}
          /\ \A n \in Lost : n \in waiting \/ n \in Reported(script[o])
      BY <1>1, <1>4, <2>2 DEF KindOK, Active, DisableStages, Planned, PlannedByRestore
    <3>2. Owes(script[o]) = {} /\ Reported(script[o]) = Struck
      BY <1>1, <3>1 DEF Owes, Reported
    <3>3. Struck \subseteq Struck'
      BY <1>1, <1>4, <3>2, StruckAtEnd
    <3> QED
      BY <1>2, <1>4, <3>1, <3>2, <3>3 DEF KeptStore, Lost, NoBackup, NoRows
  <2>3. {} \in SUBSET Nic
    OBVIOUS
  <2> QED
    BY <1>1, <1>2, <1>4, <2>1, <2>2, <2>3, Ends
<1>5. script[o].failed \in BOOLEAN
  BY <1>1 DEF Scripts
<1> QED
  BY <1>3, <1>4, <1>5 DEF Sweep

-----------------------------------------------------------------------------
(* What happens around the scripts.                                        *)

(* A result is taken, the power fails, an adapter comes or goes.           *)
LEMMA WorldKeeps ==
  ASSUME NicInv,
         \/ \E o \in Owner : Reap(o)
         \/ PowerLoss
         \/ \E n \in Nic : Plug(n)
  PROVE  NicInv'
<1>1. UNCHANGED <<orig, enabled, filed, backup, waiting, overlap>>
  BY DEF Reap, PowerLoss, Plug, Quiet, World, files
<1>2. present' \in SUBSET Nic
  BY DEF NicInv, StoreType, Reap, PowerLoss, Plug, Quiet, World
<1>3. /\ script' \in [Slots -> Scripts]
      /\ \A o \in Slots : script'[o] = script[o] \/ script'[o] = NoScript
  BY NoScriptIsOne DEF NicInv, Reap, PowerLoss, Plug, Set, Slots
<1>4. /\ {evidence', told', missed'} \subseteq SUBSET Nic /\ told \subseteq told'
      /\ \A n \in Struck : n \in Struck' \/ n \in Bad
  <2>1. \A o \in Slots : script[o].bad \subseteq Nic
    BY DEF NicInv, Scripts
  <2>2. CASE \E o \in Owner : Reap(o)
    <3>1. PICK o \in Owner : Reap(o)
      BY <2>2
    <3>2. /\ o \in Slots /\ Set(o, NoScript) /\ NoScript \in Scripts
          /\ told' = told \cup script[o].bad /\ UNCHANGED <<evidence, missed>>
      BY <3>1, NoScriptIsOne DEF Reap, Slots
    <3>3. Owes(script[o]) \subseteq Owes(NoScript) \cup told'
      BY <3>2 DEF Owes
    <3>4. Struck \subseteq Struck'
      BY <3>2, <3>3, StruckStays
    <3> QED
      BY <2>1, <3>2, <3>4 DEF NicInv, StoreType
  <2>3. CASE PowerLoss
    <3>1. /\ missed' = missed \cup UNION {Unkept(script[o]) : o \in Slots}
          /\ UNCHANGED <<evidence, told, backup>>
      BY <2>3 DEF PowerLoss
    <3>2. \A o \in Slots : Unkept(script[o]) \subseteq missed' /\ Unkept(script[o]) \subseteq Nic
      BY <2>1, <3>1 DEF Unkept, Owes
    <3>3. \A n \in Struck :
            n \in evidence \cup told \cup missed \/ \E o \in Slots : n \in Owes(script[o])
      BY DEF Struck
    <3>4. \A o \in Slots : \A n \in Owes(script[o]) :
            n \in Unkept(script[o]) \/ n \in evidence \/ n \in Bad
      BY <2>1 DEF Unkept, Owes, Bad
    <3>5. evidence' \cup told' \cup missed' \subseteq Struck'
      BY DEF Struck
    <3> QED
      BY <3>1, <3>2, <3>3, <3>4, <3>5 DEF NicInv, StoreType
  <2>4. CASE \E n \in Nic : Plug(n)
    BY <2>4 DEF Plug, files, lossVars, Struck, NicInv, StoreType
  <2> QED
    BY <2>2, <2>3, <2>4
<1>5. StoreType'
  BY <1>1, <1>2, <1>4 DEF NicInv, StoreType
<1> QED
  BY <1>1, <1>3, <1>4, <1>5, Stops

(* The script of a process that died goes on in another slot.              *)
LEMMA OutliveKeeps ==
  ASSUME NicInv, NEW o \in Owner, NEW p \in Orphan, Outlive(o, p)
  PROVE  NicInv'
<1>1. /\ Running(o) /\ script[p].at = "idle" /\ ~Running(p)
      /\ o # p /\ o \in Slots /\ p \in Slots
      /\ script' \in [Slots -> Scripts]
      /\ script'[p] = script[o] /\ script'[o] = NoScript
      /\ \A q \in Slots : q # o /\ q # p => script'[q] = script[q]
  BY NoScriptIsOne, NicConstants DEF NicInv, Outlive, AtWork, Running, Slots
<1>2. UNCHANGED <<orig, enabled, present, files>> /\ (~overlap' => ~overlap)
  BY DEF Outlive, World
<1>3. StoreType' /\ OffStore'
  BY <1>2 DEF NicInv, StoreType, OffStore, Outlive, files, lossVars
<1>4. ASSUME NEW q \in Slots, Running(q)'
      PROVE  \E r \in Slots : /\ Running(r) /\ script'[q] = script[r]
                              /\ r = IF q = p THEN o ELSE q
  BY <1>1, <1>4 DEF Running, NoScript
<1>5. Alone'
  <2> SUFFICES ASSUME ~overlap', NEW q \in Slots, NEW r \in Slots,
                      Running(q)', Running(r)'
               PROVE  q = r
    BY DEF Alone
  <2>1. ~Running(o)'
    BY <1>1 DEF Running, NoScript
  <2> QED
    BY <1>2, <1>4, <2>1 DEF NicInv, Alone
<1>6. OnlyTheirs(NoScript)' /\ KindOK(NoScript)
  BY DEF OnlyTheirs, NoScript, NoRows, KindOK, Active
<1>7. \A q \in Slots : KindOK(script[q])' /\ OnlyTheirs(script[q])'
  <2> TAKE q \in Slots
  <2>1. PICK r \in Slots : script'[q] = script[r] \/ script'[q] = NoScript
    BY <1>1
  <2> QED
    BY <1>2, <1>6, <2>1 DEF NicInv, KindOK, Active, OnlyTheirs
<1>8. Struck \subseteq Struck' /\ UNCHANGED <<Lost, Bad, told, waiting, backup>>
  <2>1. \A q \in Slots : \A n \in Owes(script[q]) : \E r \in Slots : n \in Owes(script'[r])
    BY <1>1 DEF Owes
  <2>2. \A r \in Slots : Owes(script'[r]) \subseteq Struck'
    BY DEF Struck, Owes
  <2>3. evidence \cup told \cup missed \subseteq Struck'
    BY <1>2 DEF Struck, files, lossVars
  <2> QED
    BY <1>2, <2>1, <2>2, <2>3 DEF Struck, files, lossVars, Lost, Bad
<1>9. ~overlap' => KeptStore'
  BY <1>2, <1>8 DEF NicInv, KeptStore
<1>10. ASSUME ~overlap', NEW q \in Slots, Running(q)'
       PROVE  Planned(script[q])'
  <2>1. PICK r \in Slots : Running(r) /\ script'[q] = script[r]
    BY <1>4, <1>10
  <2>2. Planned(script[r])
    BY <1>2, <1>10, <2>1 DEF NicInv
  <2>3. Reported(script[r]) \subseteq Reported(script[q])'
    BY <1>8, <2>1 DEF Reported
  <2>4. PlannedByDisable(script[r]) => PlannedByDisable(script[q])'
    BY <1>2, <1>8, <2>1, <2>3 DEF PlannedByDisable
  <2>5. PlannedByRestore(script[r]) => PlannedByRestore(script[q])'
    BY <1>2, <1>8, <2>1, <2>3 DEF PlannedByRestore
  <2> QED
    BY <1>8, <2>1, <2>2, <2>4, <2>5 DEF Planned
<1> QED
  BY <1>1, <1>3, <1>5, <1>7, <1>9, <1>10 DEF NicInv

(* A process dies: its script goes on, or its report is lost.              *)
LEMMA DiesKeeps ==
  ASSUME NicInv, NEW o \in Owner, Dies(o)
  PROVE  NicInv'
<1>1. CASE \E p \in Orphan : Outlive(o, p)
  BY <1>1, OutliveKeeps
<1>2. CASE /\ Set(o, NoScript) /\ missed' = missed \cup Unkept(script[o])
           /\ UNCHANGED <<Quiet, enabled, filed, backup, waiting, evidence, told>>
  <2>1. o \in Slots /\ NoScript \in Scripts /\ script[o] \in Scripts
    BY NoScriptIsOne DEF NicInv, Slots
  <2>2. Unkept(script[o]) \subseteq Nic
    BY <2>1 DEF Unkept, Owes, Scripts
  <2>3. StoreType'
    BY <1>2, <2>2 DEF NicInv, StoreType, Quiet, World
  <2>4. /\ script' \in [Slots -> Scripts] /\ script'[o] = NoScript
        /\ \A p \in Slots : p # o => script'[p] = script[p]
    BY <1>2, <2>1 DEF NicInv, Set
  <2>5. ASSUME NEW n \in Struck
        PROVE  n \in Struck' \/ n \in Bad
    <3>1. n \in evidence \cup told \cup missed \/ \E p \in Slots : n \in Owes(script[p])
      BY <2>5 DEF Struck
    <3>2. evidence \cup told \cup missed \cup Unkept(script[o]) \subseteq Struck'
      BY <1>2 DEF Struck
    <3>3. \A p \in Slots : p # o => Owes(script[p]) \subseteq Struck'
      BY <2>4 DEF Struck, Owes
    <3>4. \A m \in Owes(script[o]) : m \in Unkept(script[o]) \/ m \in evidence \/ m \in Bad
      BY <2>1 DEF Unkept, Owes, Bad, Scripts
    <3> QED
      BY <3>1, <3>2, <3>3, <3>4
  <2>6. UNCHANGED <<orig, enabled, filed, backup, waiting, overlap, told>>
    BY <1>2 DEF Quiet, World
  <2> QED
    BY <2>3, <2>4, <2>5, <2>6, Stops
<1> QED
  BY <1>1, <1>2 DEF Dies

(* A damaged row is still there to be found and reported.                  *)
LEMMA DamageKeeps ==
  ASSUME NicInv, NEW n \in Nic, Damage(n)
  PROVE  NicInv'
<1>1. /\ \A o \in Slots : ~Running(o)
      /\ backup' = [backup EXCEPT ![n] = "bad"]
      /\ UNCHANGED <<orig, enabled, present, overlap, filed, waiting, lossVars, script>>
  BY DEF Damage, Quiet, World
<1>2. \A o \in Slots : ~Running(o)'
  BY <1>1 DEF Running
<1>3. StoreType' /\ OffStore'
  BY <1>1 DEF NicInv, StoreType, OffStore, Row, lossVars
<1>4. Alone' /\ \A o \in Slots : KindOK(script[o])' /\ OnlyTheirs(script[o])'
  BY <1>1, <1>2 DEF NicInv, Alone, KindOK, Active, OnlyTheirs
<1>5. ~overlap' => KeptStore'
  BY <1>1 DEF NicInv, StoreType, KeptStore, Lost, Struck, lossVars
<1> QED
  BY <1>1, <1>2, <1>3, <1>4, <1>5 DEF NicInv

-----------------------------------------------------------------------------
(* The theorems.                                                           *)

LEMMA ScriptStepKeeps ==
  ASSUME NicInv, NEW o \in Slots, ScriptStep(o)
  PROVE  NicInv'
BY EvidenceKeeps, SaveBackupKeeps, UnlistKeeps, StrikeKeeps, VerifyKeeps,
   EnableKeeps, ConfirmKeeps, ListKeeps, DropKeeps, ReportKeeps, SweepKeeps
   DEF ScriptStep

LEMMA NicInitInv == NicInit => NicInv
<1> SUFFICES ASSUME NicInit
             PROVE  NicInv
  OBVIOUS
<1>1. StoreType /\ script \in [Slots -> Scripts]
  BY NoScriptIsOne DEF NicInit, StoreType
<1>2. \A o \in Slots : ~Running(o) /\ KindOK(script[o]) /\ OnlyTheirs(script[o])
  BY DEF NicInit, Running, NoScript, KindOK, Active, OnlyTheirs, NoRows
<1>3. OffStore /\ KeptStore
  BY DEF NicInit, OffStore, KeptStore, Lost, NoRows
<1> QED
  BY <1>1, <1>2, <1>3 DEF NicInv, Alone

LEMMA NicNextKeeps ==
  ASSUME NicInv, [NicNext]_nicVars
  PROVE  NicInv'
<1>1. CASE UNCHANGED nicVars
  <2>1. /\ UNCHANGED <<orig, enabled, present, overlap, script>>
        /\ UNCHANGED files
    BY <1>1 DEF nicVars
  <2>2. StoreType' /\ Struck' = Struck
    BY <2>1 DEF NicInv, StoreType, Struck, files, lossVars
  <2> QED
    BY <2>1, <2>2, Stops DEF NicInv, files, lossVars
<1>2. CASE NicNext
  BY <1>2, StartDisableKeeps, StartRestoreKeeps, ScriptStepKeeps, WorldKeeps,
     DiesKeeps, DamageKeeps DEF NicNext
<1> QED
  BY <1>1, <1>2

LEMMA NicInvKept == NicSpec => []NicInv
<1>1. NicInv /\ [NicNext]_nicVars => NicInv'
  BY NicNextKeeps
<1> QED
  BY NicInitInv, <1>1, PTL DEF NicSpec

(* NicInv says nothing of the bounds on the environment.                   *)
Bounds == faults \in 0 .. MaxFaults /\ plugs \in 0 .. MaxPlugs

LEMMA BoundsKept == NicSpec => []Bounds
<1>1. NicInit => Bounds
  BY NicConstants DEF NicInit, Bounds
<1>2. ASSUME Bounds, [NicNext]_nicVars
      PROVE  Bounds'
  <2>1. faults' \in {faults, faults - 1} /\ (faults' # faults => faults > 0)
    BY <1>2 DEF NicNext, nicVars, StartDisable, StartRestore, ScriptStep, Evidence,
       SaveBackup, Unlist, Strike, Verify, Enable, Confirm, List, Drop, Report,
       Sweep, Throws, Reap, PowerLoss, Plug, Damage, Fault, NoFault
  <2>2. plugs' \in {plugs, plugs - 1} /\ (plugs' # plugs => plugs > 0)
    BY <1>2 DEF NicNext, nicVars, StartDisable, StartRestore, ScriptStep, Evidence,
       SaveBackup, Unlist, Strike, Verify, Enable, Confirm, List, Drop, Report,
       Sweep, Throws, Reap, PowerLoss, Dies, Outlive, Plug, Damage, Quiet, World
  <2> QED
    BY <1>2, <2>1, <2>2, NicConstants DEF Bounds
<1> QED
  BY <1>1, <1>2, PTL DEF NicSpec

LEMMA InvMeans ==
  /\ NicInv => OriginalsKept /\ UsersOffKept
  /\ NicInv /\ Bounds => NicTypeOK
BY DEF NicInv, KeptStore, Lost, OriginalsKept, OffStore, UsersOffKept, StoreType,
   Bounds, NicTypeOK

(* Every variable of the scripts stays in its domain.                      *)
THEOREM NicTypeCorrect == NicSpec => []NicTypeOK
BY NicInvKept, BoundsKept, InvMeans, PTL

(* The user's own choice of IPv6 is never lost: whatever adapter is off    *)
(* against his choice is in one of the files, or its loss was reported,    *)
(* between any two steps of any script, failure, crash or unplugging       *)
(* (nic_windows.go, disableScript and restoreScript).                      *)
THEOREM OriginalsAlwaysKept == NicSpec => []OriginalsKept
BY NicInvKept, InvMeans, PTL

(* No script ever switches IPv6 on for an adapter whose user has it off.   *)
THEOREM UsersOffAlwaysKept == NicSpec => []UsersOffKept
BY NicInvKept, InvMeans, PTL

(* Whoever runs which script when, the user's choice survives, both ways.  *)
THEOREM UsersChoiceAlwaysKept == NicSpec => []UsersChoiceKept
<1>1. NicInv => UsersChoiceKept
  BY InvMeans DEF UsersChoiceKept
<1> QED
  BY <1>1, NicInvKept, PTL

(***************************************************************************)
(* The service and the "restore network" tool.                             *)
(***************************************************************************)

(* Adapters, files and scripts are as they were.                           *)
Calm == UNCHANGED <<orig, enabled, present, files, overlap, script>>

LEMMA CalmKeeps == NicInv /\ Calm => NicInv'
<1> SUFFICES ASSUME NicInv, Calm
             PROVE  NicInv'
  OBVIOUS
<1>1. StoreType' /\ Struck' = Struck
  BY DEF NicInv, Calm, StoreType, Struck, files, lossVars
<1> QED
  BY <1>1, Stops DEF NicInv, Calm, files, lossVars

LEMMA CalmIs ==
  /\ UNCHANGED nicVars => Calm
  /\ UNCHANGED <<Quiet, enabled, files, script>> => Calm
BY DEF nicVars, Calm, Quiet, World

(* syncNICIPv6 starts a script, takes its result, or does nothing to the   *)
(* adapters.                                                               *)
LEMMA SyncStepKeeps ==
  ASSUME NicInv, NEW g \in Goroutines, SyncStep(g)
  PROVE  NicInv'
<1>1. "service" \in Owner
  BY ServiceConstants
<1>2. CASE SyncEnter(g) \/ SyncLock(g)
  BY <1>2, CalmIs, CalmKeeps DEF SyncEnter, SyncLock
<1>3. CASE Disable(g)
  BY <1>1, <1>3, CalmIs, CalmKeeps, StartDisableKeeps DEF Disable
<1>4. CASE Restore(g)
  BY <1>1, <1>4, CalmIs, CalmKeeps, StartRestoreKeeps DEF Restore
<1>5. CASE DisableEnd(g) \/ RestoreEnd(g)
  BY <1>1, <1>5, WorldKeeps DEF DisableEnd, RestoreEnd
<1> QED
  BY <1>2, <1>3, <1>4, <1>5 DEF SyncStep

(* The tool restores, or does nothing to the adapters.                     *)
LEMMA FixStepKeeps ==
  ASSUME NicInv, FixStep
  PROVE  NicInv'
<1>1. "fixer" \in Owner
  BY ServiceConstants
<1>2. CASE FixAsk \/ FixAnswer
  BY <1>2, CalmIs, CalmKeeps DEF FixAsk, FixAnswer
<1>3. CASE FixRestore
  BY <1>1, <1>3, CalmIs, CalmKeeps, StartRestoreKeeps, WorldKeeps DEF FixRestore
<1> QED
  BY <1>2, <1>3 DEF FixStep

(* When the process dies, its script goes on or there is none.             *)
LEMMA DieKeeps ==
  ASSUME NicInv, Die
  PROVE  NicInv'
<1>1. "service" \in Owner
  BY ServiceConstants
<1> QED
  BY <1>1, DiesKeeps DEF Die

(* The other goroutines leave the adapters to syncNICIPv6.                 *)
LEMMA OthersCalm ==
  ASSUME \/ RunStep \/ LoopStep \/ HandlerStep \/ Boot \/ AutoConnect \/ Stop
         \/ \E guard \in BOOLEAN : Reconcile(guard) \/ FixStart(guard)
         \/ \E o \in {"connect", "disconnect"} : Call(o, settings)
         \/ \E s \in Choices : Call("save", s)
  PROVE  Calm
BY CalmIs DEF RunStep, LoopStep, LoopLook, LoopLock, HandlerStep, Connect,
   Disconnect, Halt, Save, Rebuild, Undo, Settle, Boot, AutoConnect, Stop,
   Reconcile, FixStart, Call

LEMMA NextKeeps ==
  ASSUME NicInv, [Next]_vars
  PROVE  NicInv'
<1>1. CASE UNCHANGED vars
  BY <1>1, CalmIs, CalmKeeps DEF vars
<1>2. ASSUME NEW g \in Actors, Progress(g)
      PROVE  NicInv'
  <2>1. CASE BootStep
    BY <2>1, OthersCalm, CalmKeeps, DieKeeps DEF BootStep, Exit
  <2> QED
    BY <1>2, <2>1, SyncStepKeeps, FixStepKeeps, OthersCalm, CalmKeeps DEF Progress
<1>3. CASE \E o \in Slots : Scripting(o)
  BY <1>3, ScriptStepKeeps DEF Scripting
<1>4. CASE Kill
  BY <1>4, DieKeeps DEF Kill
<1>5. CASE Blackout
  BY <1>5, WorldKeeps DEF Blackout
<1>6. CASE Adapters
  BY <1>6, WorldKeeps, DamageKeeps DEF Adapters
<1> QED
  BY <1>1, <1>2, <1>3, <1>4, <1>5, <1>6, OthersCalm, CalmKeeps DEF Next

LEMMA ServiceInv == Spec => []NicInv
<1>1. Init => NicInv
  BY NicInitInv DEF Init
<1>2. NicInv /\ [Next]_vars => NicInv'
  BY NextKeeps
<1> QED
  BY <1>1, <1>2, PTL DEF Spec

(* With the service at work and the tool beside it: whatever adapter is    *)
(* off against the user's choice is in one of the files, or its loss was   *)
(* reported, at every moment (syncNICIPv6, reconcileNICIPv6, guardfix).    *)
THEOREM ServiceKeepsOriginals == Spec => []OriginalsKept
BY ServiceInv, InvMeans, PTL

(* Neither of them ever switches IPv6 on where the user has it off.        *)
THEOREM ServiceKeepsUsersOff == Spec => []UsersOffKept
BY ServiceInv, InvMeans, PTL

(* Both: the service and the tool leave the user's choice recoverable.     *)
THEOREM ServiceKeepsUsersChoice == Spec => []UsersChoiceKept
<1>1. NicInv => UsersChoiceKept
  BY InvMeans DEF UsersChoiceKept
<1> QED
  BY <1>1, ServiceInv, PTL

-----------------------------------------------------------------------------
(* The adapters match the decision.                                        *)

(* The lines at which a goroutine holds nicMu, and those at which it is in *)
(* syncNICIPv6.                                                            *)
MuLabels == {"disable", "disabling", "restore", "restoring"}
SyncLabels == {"sync", "queue"} \cup MuLabels
InMu(g) == pc[g] \in MuLabels

(* Where the request handler is.                                           *)
C == pc["call"]

(* The lines of a rebuild of the session by a saved setting, and all lines. *)
RebuildLabels == {"hready", "launch", "undo", "rewind"}
Labels == {"idle", "connect", "disconnect", "save", "halt", "settle", "off", "ready", "start",
           "up", "look", "dead", "recon", "auto", "serve"} \cup RebuildLabels \cup SyncLabels
          \cup {"switch", "hangup", "fix", "fixing", "nothing"}

(* The variables are in their domains.                                     *)
Types ==
    /\ disk \in {"yes", "no", "unknown"}
    /\ {file, settings, prev} \subseteq Choices
    /\ {trusted, wanted, bootWanted, closing, owed, disturbed} \subseteq BOOLEAN
    /\ {nicOff, nicDisablePending, nicHold} \subseteq BOOLEAN
    /\ op \in {"none", "connect", "disconnect", "save"}
    /\ pc \in [Actors -> Labels] /\ ret \in [Goroutines -> Labels]

(* The places each goroutine may be at, and the handler's with its request. *)
Places ==
    /\ pc["call"] \in {"idle", "connect", "disconnect", "save", "halt", "settle"}
                      \cup RebuildLabels \cup SyncLabels
    /\ pc["run"] \in {"off", "ready", "start", "up"} \cup SyncLabels
    /\ pc["loop"] \in {"idle", "look", "disable", "disabling"}
    /\ pc["boot"] \in {"dead", "recon", "auto", "serve"} \cup MuLabels
    /\ pc["fixer"] \in {"idle", "switch", "hangup", "fix", "fixing", "nothing"}

(* Where an alignment goes on when it is over.                             *)
Returns ==
    /\ ret["call"] \in {"idle", "hready"}
    /\ ret["run"] = IF pc["run"] \in SyncLabels THEN "ready" ELSE "idle"
    /\ ret["loop"] = "idle"
    /\ pc["boot"] \in MuLabels => ret["boot"] = "auto"

(* Which lines each request goes through.                                  *)
CallShape ==
    /\ op = "none" => C = "idle"
    /\ op = "connect" => C \in {"connect"} \cup SyncLabels
    /\ op = "disconnect" => C \in {"disconnect", "halt"} \cup SyncLabels
    /\ op = "save" => C \in {"save", "halt", "settle"} \cup RebuildLabels \cup SyncLabels
    /\ ret["call"] = "hready" => op = "save" /\ C \in SyncLabels

(* A rebuild is under way, to be settled.                                  *)
Rebuilding ==
    \/ C \in RebuildLabels
    \/ C = "halt" /\ op = "save"
    \/ ret["call"] = "hready"

(* The wish in memory is the one on disk, or about to be.                  *)
Wish ==
    /\ wanted \/ bootWanted => disk = "yes" \/ C = "disconnect"
    /\ bootWanted => trusted /\ pc["boot"] \notin {"dead", "serve"}
    /\ ~trusted => settings = Default
    /\ pc["run"] # "off" => wanted \/ (op = "disconnect" /\ C = "halt")
    /\ Rebuilding => wanted
    /\ op = "save" => trusted
    /\ C = "connect" => disk = "yes"
    /\ C = "launch" => pc["run"] = "off"
    /\ nicHold => Rebuilding \/ C = "settle"
    /\ closing => pc["boot"] = "serve"
    /\ ~Alive => /\ ~wanted /\ ~closing /\ owed
                 /\ C = "idle" /\ pc["run"] = "off" /\ pc["loop"] = "idle"

(* One alignment at a time runs a script, and the service has no other.    *)
Exclusive ==
    /\ \A g, h \in Goroutines : InMu(g) /\ InMu(h) => g = h
    /\ script["service"].at # "idle" =>
         \E g \in Goroutines : pc[g] \in {"disabling", "restoring"}
    /\ \A g \in Goroutines :
         /\ pc[g] = "disabling" =>
              script["service"].at = "ended" \/ script["service"].kind = "disable"
         /\ pc[g] = "restoring" =>
              script["service"].at = "ended" \/ script["service"].kind = "restore"
    /\ script["fixer"].at # "idle" => pc["fixer"] = "fixing"
    /\ Active(script["fixer"]) => script["fixer"].kind = "restore"
    /\ ~filed => backup = NoRows

(* A script outlives the process that started it.                          *)
Orphaned == \E o \in Orphan : Running(o)

(* What a script under way has done and will do, if it has no rival.       *)
Honestly ==
    ~overlap =>
      /\ script["service"].at # "idle" => ~Orphaned
      /\ \A o \in Slots : Running(o) /\ script[o].kind = "restore" /\ ~filed =>
           /\ ~script[o].failed
           /\ script[o].at = "enable" =>
                script[o].todo \cup script[o].seen \subseteq script[o].waited
      /\ Running("service") /\ script["service"].kind = "disable" /\ ~disturbed =>
           script["service"].seen = present
      /\ \A g \in Goroutines : pc[g] = "disabling" /\ script["service"].at = "ended"
           /\ ~script["service"].failed /\ ~disturbed => Leakers = {}
      /\ \A g \in Goroutines : pc[g] = "restoring" /\ script["service"].at = "ended"
           /\ ~script["service"].failed => ~filed

(* Somebody is to take nicMu and decide again.                             *)
SureSync ==
    \/ C \in {"connect", "disconnect", "settle", "sync", "queue"}
    \/ C = "halt" /\ op = "disconnect"
    \/ C = "save" /\ prev # settings
    \/ pc["run"] \in {"sync", "queue"}
    \/ pc["run"] = "off" /\ wanted
    \/ pc["boot"] \notin {"dead", "serve"} /\ disk = "yes" /\ trusted /\ ~WantConnected

(* What was decided under nicMu is still right, or will be decided again.  *)
Decided ==
    \A g \in Goroutines :
      /\ pc[g] \in {"disable", "disabling"} => NicIPv6Wanted \/ closing \/ SureSync
      /\ pc[g] \in {"restore", "restoring"} =>
           /\ ~NicIPv6Wanted \/ closing \/ SureSync
           /\ ~trusted => g \in {"call", "run"} /\ ~WantConnected

(* The adapters are as the decision demands.                               *)
Matched == IF NicIPv6Wanted THEN ~disturbed => Leakers = {} ELSE ~filed

(* Matched, or somebody will align them, or nobody answers for it.         *)
Aligned ==
    \/ owed \/ overlap \/ closing \/ Orphaned
    \/ SureSync \/ Rebuilding
    \/ \E g \in Goroutines : InMu(g)
    \/ Matched

(* The invariant: the goroutines keep to their places (Types to Wish),     *)
(* one alignment at a time runs a script (Exclusive), a script without a   *)
(* rival does what it says (Honestly), a decision under nicMu is right or  *)
(* will be made again (Decided), and so the adapters match or will.        *)
MatchInv == /\ Types /\ Places /\ Returns /\ CallShape /\ Wish
            /\ Exclusive /\ Honestly /\ Decided /\ Aligned

(* Its first half, which needs nothing of the scripts.                     *)
Control == Types /\ Places /\ Returns /\ CallShape /\ Wish

(* Who leaves an alignment goes on to one of its own places.               *)
LEMMA Lefts ==
  ASSUME Control, NEW g \in Goroutines, pc[g] \in SyncLabels,
         NEW label, label = ret[g] \/ label = OnError(g), Leave(g, label),
         UNCHANGED <<cfgVars, wishVars, nicHold>>, owed' \in BOOLEAN, disturbed' \in BOOLEAN,
         nicOff' \in BOOLEAN, nicDisablePending' \in BOOLEAN
  PROVE  Control'
<1>1. /\ g = "call" => label = ret["call"]
                        \/ label = IF ret["call"] = "hready" THEN "undo" ELSE "idle"
      /\ g = "run" => label \in {"ready", "off"}
      /\ g = "loop" => label = "idle"
      /\ g = "boot" => label = "auto"
  BY DEF Control, Returns, Places, OnError, SyncLabels
<1>2. label \in Labels
  BY <1>1 DEF Control, Types, Labels, RebuildLabels, Goroutines
<1>3. /\ pc' = [pc EXCEPT ![g] = label] /\ ret' = [ret EXCEPT ![g] = "idle"]
      /\ g = "call" /\ label = "idle" => op' = "none" /\ prev' = Default
      /\ ~(g = "call" /\ label = "idle") => UNCHANGED <<op, prev>>
      /\ pc \in [Actors -> Labels] /\ ret \in [Goroutines -> Labels] /\ g \in Actors
  BY DEF Leave, Goto, Control, Types, Actors
<1>4. /\ pc'[g] = label /\ ret'[g] = "idle"
      /\ \A h \in Actors : h # g => pc'[h] = pc[h]
      /\ \A h \in Goroutines : h # g => ret'[h] = ret[h]
      /\ pc' \in [Actors -> Labels] /\ ret' \in [Goroutines -> Labels]
  BY <1>2, <1>3 DEF Labels
<1>5. /\ "call" \in Goroutines /\ "run" \in Goroutines
      /\ "loop" \in Goroutines /\ "boot" \in Goroutines
      /\ \A h \in Goroutines : h \in Actors
      /\ "fixer" \in Actors /\ "fixer" \notin Goroutines
      /\ g \in {"call", "run", "loop", "boot"}
  BY DEF Goroutines, Actors
<1>6. Types'
  BY <1>3, <1>4 DEF Control, Types, cfgVars, wishVars, Choices, Default
<1>7. Places' /\ Returns' /\ CallShape'
  BY <1>1, <1>3
     DEF Control, Places, Returns, CallShape, C, SyncLabels, MuLabels, RebuildLabels
<1>8. Wish'
  BY <1>1, <1>3, <1>5
     DEF Control, Wish, Returns, Rebuilding, C, Alive, SyncLabels, MuLabels,
         RebuildLabels, cfgVars, wishVars
<1> QED BY <1>6, <1>7, <1>8 DEF Control

(* Who goes on inside an alignment stays one who aligns.                   *)
LEMMA Stays ==
  ASSUME Control, NEW g \in Goroutines, pc[g] \in SyncLabels, NEW label \in SyncLabels,
         Stay(g, label),
         label = "queue" => pc[g] = "sync", label # "sync",
         g = "loop" => label \in {"disable", "disabling"},
         UNCHANGED <<cfgVars, wishVars, nicHold>>, owed' \in BOOLEAN, disturbed' \in BOOLEAN,
         nicOff' \in BOOLEAN, nicDisablePending' \in BOOLEAN
  PROVE  Control'
<1>1. /\ pc' = [pc EXCEPT ![g] = label] /\ UNCHANGED <<ret, op, prev>>
      /\ pc \in [Actors -> Labels] /\ label \in Labels /\ g \in Actors
  BY DEF Stay, Goto, Control, Types, Actors, Labels
<1>2. /\ pc'[g] = label /\ \A h \in Actors : h # g => pc'[h] = pc[h]
      /\ pc' \in [Actors -> Labels]
  BY <1>1
<1>3. /\ "call" \in Actors /\ "run" \in Actors /\ "loop" \in Actors /\ "boot" \in Actors
      /\ "fixer" \in Actors /\ "fixer" \notin Goroutines
      /\ g \in {"call", "run", "loop", "boot"}
  BY DEF Goroutines, Actors
<1>4. Types'
  BY <1>1 DEF Control, Types, cfgVars, wishVars
<1>5. Places' /\ Returns' /\ CallShape'
  BY <1>1 DEF Control, Places, Returns, CallShape, C, SyncLabels, MuLabels
<1>6. Wish'
  BY <1>1, <1>3
     DEF Control, Wish, Rebuilding, C, Alive, SyncLabels, MuLabels, RebuildLabels,
         cfgVars, wishVars
<1> QED BY <1>4, <1>5, <1>6 DEF Control

-----------------------------------------------------------------------------
(* Each action keeps Control.                                              *)

(* syncNICIPv6, entered and under nicMu.                                   *)
LEMMA SyncEnterControl ==
  ASSUME Control, NicInv, NEW g \in Goroutines, SyncEnter(g)
  PROVE  Control'
<1>1. /\ UNCHANGED <<cfgVars, wishVars, nicOff, nicDisablePending, nicHold, disturbed>>
      /\ owed' \in BOOLEAN
  BY DEF SyncEnter, recordVars, Control, Types
<1> QED BY <1>1, Lefts, Stays DEF SyncEnter, SyncLabels, Control, Types, Places

LEMMA SyncLockControl ==
  ASSUME Control, NicInv, NEW g \in Goroutines, SyncLock(g)
  PROVE  Control'
<1>1. /\ UNCHANGED <<cfgVars, wishVars, nicDisablePending, nicHold>> /\ owed' \in BOOLEAN
      /\ disturbed' \in BOOLEAN /\ nicOff' \in BOOLEAN
  BY DEF SyncLock, Control, Types
<1>2. pc[g] = "queue" /\ g # "loop"
  BY DEF SyncLock, Control, Places
<1> QED BY <1>1, <1>2, Lefts, Stays
           DEF SyncLock, SyncLabels, MuLabels, Control, Types

LEMMA DisableControl ==
  ASSUME Control, NicInv, NEW g \in Goroutines, Disable(g)
  PROVE  Control'
<1>1. /\ UNCHANGED <<cfgVars, wishVars, nicHold, disturbed>> /\ pc[g] \in MuLabels
  BY DEF Disable, MuLabels
<1>2. ASSUME NEW failed \in BOOLEAN, Disabled(g, failed)
      PROVE  Control'
  <2>1. /\ nicOff' \in BOOLEAN /\ nicDisablePending' \in BOOLEAN /\ owed' \in BOOLEAN
        /\ \E label : (label = ret[g] \/ label = OnError(g)) /\ Leave(g, label)
    BY <1>2 DEF Disabled, NicInv, StoreType
  <2> QED BY <1>1, <2>1, Lefts DEF SyncLabels, Control, Types
<1>3. CASE Stay(g, "disabling") /\ UNCHANGED <<nicOff, nicDisablePending, owed>>
  BY <1>1, <1>3, Stays DEF SyncLabels, MuLabels, Control, Types
<1> QED BY <1>2, <1>3 DEF Disable

LEMMA DisableEndControl ==
  ASSUME Control, NicInv, NEW g \in Goroutines, DisableEnd(g)
  PROVE  Control'
<1>1. /\ UNCHANGED <<cfgVars, wishVars, nicHold, disturbed>> /\ pc[g] \in MuLabels
  BY DEF DisableEnd, MuLabels
<1>2. ASSUME NEW failed \in BOOLEAN, Disabled(g, failed)
      PROVE  Control'
  <2>1. /\ nicOff' \in BOOLEAN /\ nicDisablePending' \in BOOLEAN /\ owed' \in BOOLEAN
        /\ \E label : (label = ret[g] \/ label = OnError(g)) /\ Leave(g, label)
    BY <1>2 DEF Disabled, NicInv, StoreType
  <2> QED BY <1>1, <2>1, Lefts DEF SyncLabels, Control, Types
<1>3. script["service"].failed \in BOOLEAN
  BY ServiceConstants DEF NicInv, Scripts, Slots
<1> QED BY <1>2, <1>3 DEF DisableEnd

LEMMA RestoreControl ==
  ASSUME Control, NicInv, NEW g \in Goroutines, Restore(g)
  PROVE  Control'
<1>1. /\ UNCHANGED <<cfgVars, wishVars, nicHold, disturbed>> /\ pc[g] \in MuLabels
  BY DEF Restore, MuLabels
<1>2. ASSUME NEW failed \in BOOLEAN, Restored(g, failed)
      PROVE  Control'
  <2>1. /\ nicOff' \in BOOLEAN /\ nicDisablePending' \in BOOLEAN /\ owed' \in BOOLEAN
        /\ \E label : (label = ret[g] \/ label = OnError(g)) /\ Leave(g, label)
    BY <1>2 DEF Restored, Control, Types
  <2> QED BY <1>1, <2>1, Lefts DEF SyncLabels, Control, Types
<1>3. CASE Stay(g, "restoring") /\ UNCHANGED <<nicOff, nicDisablePending, owed>>
  BY <1>3, Stays DEF SyncLabels, MuLabels, Control, Types, Places, Restore
<1> QED BY <1>2, <1>3 DEF Restore

LEMMA RestoreEndControl ==
  ASSUME Control, NicInv, NEW g \in Goroutines, RestoreEnd(g)
  PROVE  Control'
<1>1. /\ UNCHANGED <<cfgVars, wishVars, nicHold, disturbed>> /\ pc[g] \in MuLabels
  BY DEF RestoreEnd, MuLabels
<1>2. ASSUME NEW failed \in BOOLEAN, Restored(g, failed)
      PROVE  Control'
  <2>1. /\ nicOff' \in BOOLEAN /\ nicDisablePending' \in BOOLEAN /\ owed' \in BOOLEAN
        /\ \E label : (label = ret[g] \/ label = OnError(g)) /\ Leave(g, label)
    BY <1>2 DEF Restored, Control, Types
  <2> QED BY <1>1, <2>1, Lefts DEF SyncLabels, Control, Types
<1>3. script["service"].failed \in BOOLEAN
  BY ServiceConstants DEF NicInv, Scripts, Slots
<1> QED BY <1>2, <1>3 DEF RestoreEnd

(* The run loop and nicIPv6Loop.                                           *)
LEMMA RunStepControl ==
  ASSUME Control, NicInv, RunStep
  PROVE  Control'
<1>1. Types'
  BY DEF RunStep, CallSync, Goto, callVars, Types, Labels, SyncLabels, cfgVars,
         wishVars, recordVars, Control
<1>2. Places'
  BY DEF RunStep, CallSync, Goto, Types, Places, Goroutines, Actors, SyncLabels,
         Control
<1>3. Returns'
  BY DEF RunStep, CallSync, Goto, Up, Types, Returns, Goroutines, Actors,
         SyncLabels, MuLabels, Control
<1>4. CallShape'
  BY DEF RunStep, CallSync, Goto, callVars, Types, CallShape, C, Goroutines, Actors,
         Control
<1>5. Wish'
  BY DEF RunStep, CallSync, Goto, Cancelled, callVars, Types, Wish, Rebuilding,
         Alive, C, Goroutines, Actors, cfgVars, wishVars, recordVars, Control
<1> QED BY <1>1, <1>2, <1>3, <1>4, <1>5 DEF Control

LEMMA LoopLookControl ==
  ASSUME Control, NicInv, LoopLook
  PROVE  Control'
<1>1. Types'
  BY DEF LoopLook, Goto, callVars, Types, Goroutines, Actors, Labels, cfgVars,
         wishVars, recordVars, Control
<1>2. Places'
  BY DEF LoopLook, Goto, Places, Control
<1>3. Returns'
  BY DEF LoopLook, Goto, Returns, Control
<1>4. CallShape'
  BY DEF LoopLook, Goto, callVars, CallShape, C, Control
<1>5. Wish'
  BY DEF LoopLook, Goto, callVars, Wish, Rebuilding, Alive, C, cfgVars, wishVars,
         recordVars, Control
<1> QED BY <1>1, <1>2, <1>3, <1>4, <1>5 DEF Control

LEMMA LoopLockControl ==
  ASSUME Control, NicInv, LoopLock
  PROVE  Control'
<1>1. Types'
  <2>1. pc' \in [Actors -> Labels] /\ ret' \in [Goroutines -> Labels]
    BY DEF LoopLock, Goto, Labels, SyncLabels, MuLabels, Control, Types
  <2> QED BY <2>1
             DEF LoopLock, callVars, Control, Types, cfgVars, wishVars, recordVars
<1>2. Places'
  BY DEF LoopLock, Goto, Types, Places, Goroutines, Actors, Control
<1>3. Returns'
  BY DEF LoopLock, Goto, Types, Returns, Goroutines, Actors, Control
<1>4. CallShape'
  BY DEF LoopLock, Goto, callVars, Types, CallShape, C, Goroutines, Actors, Control
<1>5. Wish'
  BY DEF LoopLock, Goto, callVars, Types, Wish, Rebuilding, Alive, C, Goroutines,
         Actors, cfgVars, wishVars, recordVars, Control
<1> QED BY <1>1, <1>2, <1>3, <1>4, <1>5 DEF Control

(* The requests, from their arrival to the undoing of a rebuild.           *)
LEMMA CallControl ==
  ASSUME Control, NicInv, NEW o \in {"connect", "disconnect", "save"}, NEW s \in Choices,
         Call(o, s)
  PROVE  Control'
<1>1. Types'
  <2>1. /\ disk' \in {disk, "yes", "no"} /\ file' \in Choices /\ settings' \in Choices
        /\ trusted' \in BOOLEAN /\ prev' \in Choices /\ op' = o
    BY DEF Call, Begin, Types, Choices, Default, Control
  <2>2. pc' = [pc EXCEPT !["call"] = o]
        /\ UNCHANGED <<nicVars, wishVars, recordVars, ret, owed, disturbed>>
    BY DEF Call, Goto
  <2> QED BY <2>1, <2>2 DEF Types, Actors, Labels, wishVars, recordVars, Control
<1>2. Places'
  BY DEF Call, Goto, Places, Control
<1>3. Returns'
  BY DEF Call, Goto, Returns, Control
<1>4. CallShape'
  BY DEF Call, Begin, Goto, Types, CallShape, C, Goroutines, Actors, SyncLabels,
         MuLabels, Control
<1>5. Wish'
  BY DEF Call, Begin, Goto, Types, Wish, Rebuilding, Alive, C, Goroutines, Actors,
         RebuildLabels, wishVars, recordVars, Control
<1> QED BY <1>1, <1>2, <1>3, <1>4, <1>5 DEF Control

LEMMA ConnectControl ==
  ASSUME Control, NicInv, Connect
  PROVE  Control'
<1>1. Types'
  BY DEF Connect, CallSync, Goto, callVars, Types, Goroutines, Actors, Labels,
         SyncLabels, cfgVars, recordVars, Control
<1>2. Places'
  BY DEF Connect, CallSync, Goto, Places, SyncLabels, Control
<1>3. Returns'
  BY DEF Connect, CallSync, Goto, Returns, Control
<1>4. CallShape'
  BY DEF Connect, CallSync, Goto, callVars, CallShape, C, SyncLabels, Control
<1>5. Wish'
  BY DEF Connect, CallSync, Goto, callVars, Types, CallShape, Wish, Rebuilding,
         Alive, C, SyncLabels, MuLabels, RebuildLabels, cfgVars, recordVars, Control
<1> QED BY <1>1, <1>2, <1>3, <1>4, <1>5 DEF Control

LEMMA DisconnectControl ==
  ASSUME Control, NicInv, Disconnect
  PROVE  Control'
<1>1. Types'
  BY DEF Disconnect, Goto, callVars, Types, Labels, cfgVars, recordVars, Control
<1>2. Places'
  BY DEF Disconnect, Goto, Places, Control
<1>3. Returns'
  BY DEF Disconnect, Goto, Returns, Control
<1>4. CallShape'
  BY DEF Disconnect, Goto, callVars, CallShape, C, SyncLabels, MuLabels, Control
<1>5. Wish'
  BY DEF Disconnect, Goto, callVars, Types, CallShape, Wish, Rebuilding, Alive, C,
         Goroutines, Actors, SyncLabels, MuLabels, RebuildLabels, cfgVars,
         recordVars, Control
<1> QED BY <1>1, <1>2, <1>3, <1>4, <1>5 DEF Control

LEMMA HaltControl ==
  ASSUME Control, NicInv, Halt
  PROVE  Control'
<1>1. Types'
  <2>1. pc' \in [Actors -> Labels] /\ ret' \in [Goroutines -> Labels]
    BY DEF Halt, CallSync, Goto, Labels, SyncLabels, RebuildLabels, Control, Types
  <2> QED BY <2>1 DEF Halt, callVars, Control, Types, cfgVars, wishVars
<1>2. Places'
  BY DEF Halt, CallSync, Goto, Types, Places, Goroutines, Actors, SyncLabels,
         RebuildLabels, Control
<1>3. Returns'
  BY DEF Halt, CallSync, Goto, Types, Returns, Goroutines, Actors, Control
<1>4. CallShape'
  BY DEF Halt, CallSync, Goto, callVars, Types, CallShape, C, SyncLabels, MuLabels,
         RebuildLabels, Control
<1>5. Wish'
  BY DEF Halt, CallSync, Goto, callVars, Types, CallShape, Wish, Rebuilding, Alive,
         C, Goroutines, Actors, SyncLabels, MuLabels, RebuildLabels, cfgVars,
         wishVars, Control
<1> QED BY <1>1, <1>2, <1>3, <1>4, <1>5 DEF Control

LEMMA SaveControl ==
  ASSUME Control, NicInv, Save
  PROVE  Control'
<1>1. Types'
  <2>1. pc' \in [Actors -> Labels] /\ ret' \in [Goroutines -> Labels]
    BY DEF Save, CallSync, Leave, Goto, Labels, SyncLabels, RebuildLabels, Control,
           Types
  <2> QED BY <2>1
             DEF Save, Leave, Control, Types, Choices, Default, cfgVars, wishVars
<1>2. Places'
  BY DEF Save, CallSync, Leave, Goto, Types, Places, Goroutines, Actors, SyncLabels,
         Control
<1>3. Returns'
  BY DEF Save, CallSync, Leave, Goto, Types, Returns, Goroutines, Actors, Control
<1>4. CallShape'
  BY DEF Save, CallSync, Leave, Goto, Types, CallShape, C, Goroutines, Actors,
         SyncLabels, MuLabels, Control
<1>5. Wish'
  BY DEF Save, CallSync, Leave, Goto, Up, Types, CallShape, Wish, Rebuilding, Alive,
         C, Goroutines, Actors, SyncLabels, MuLabels, RebuildLabels, cfgVars,
         wishVars, Control
<1> QED BY <1>1, <1>2, <1>3, <1>4, <1>5 DEF Control

LEMMA RebuildControl ==
  ASSUME Control, NicInv, Rebuild
  PROVE  Control'
<1>1. Types'
  BY DEF Rebuild, Goto, callVars, Types, Labels, RebuildLabels, cfgVars, wishVars,
         recordVars, Control
<1>2. Places'
  BY DEF Rebuild, Goto, Types, Places, Goroutines, Actors, RebuildLabels, Control
<1>3. Returns'
  BY DEF Rebuild, Goto, Types, Returns, Wish, C, Goroutines, Actors, SyncLabels,
         MuLabels, Control
<1>4. CallShape'
  BY DEF Rebuild, Goto, callVars, Types, CallShape, C, Goroutines, Actors,
         SyncLabels, MuLabels, RebuildLabels, Control
<1>5. Wish'
  BY DEF Rebuild, Goto, callVars, Types, CallShape, Wish, Rebuilding, Alive, C,
         Goroutines, Actors, SyncLabels, MuLabels, RebuildLabels, cfgVars, wishVars,
         Control
<1> QED BY <1>1, <1>2, <1>3, <1>4, <1>5 DEF Control

LEMMA UndoControl ==
  ASSUME Control, NicInv, Undo
  PROVE  Control'
<1>1. Types'
  <2>1. pc' \in [Actors -> Labels] /\ ret' \in [Goroutines -> Labels]
    BY DEF Undo, Leave, Stay, Goto, Labels, Control, Types
  <2> QED BY <2>1 DEF Undo, Leave, Stay, Control, Types, Choices, Default, wishVars
<1>2. Places'
  BY DEF Undo, Leave, Stay, Goto, Types, Places, Goroutines, Actors, Control
<1>3. Returns'
  BY DEF Undo, Leave, Stay, Goto, Types, Returns, Goroutines, Actors, Control
<1>4. CallShape'
  BY DEF Undo, Leave, Stay, Goto, Types, CallShape, C, Goroutines, Actors,
         SyncLabels, MuLabels, Control
<1>5. Wish'
  BY DEF Undo, Leave, Stay, Goto, Types, CallShape, Wish, Rebuilding, Alive, C,
         Goroutines, Actors, SyncLabels, MuLabels, wishVars, Control
<1> QED BY <1>1, <1>2, <1>3, <1>4, <1>5 DEF Control

LEMMA SettleControl ==
  ASSUME Control, NicInv, Settle
  PROVE  Control'
<1>1. Types'
  BY DEF Settle, CallSync, Goto, callVars, Types, Labels, SyncLabels, cfgVars,
         wishVars, Control
<1>2. Places'
  BY DEF Settle, CallSync, Goto, Places, SyncLabels, Control
<1>3. Returns'
  BY DEF Settle, CallSync, Goto, Returns, Control
<1>4. CallShape'
  BY DEF Settle, CallSync, Goto, callVars, CallShape, C, SyncLabels, Control
<1>5. Wish'
  BY DEF Settle, CallSync, Goto, callVars, Wish, Rebuilding, Alive, C,
         RebuildLabels, cfgVars, wishVars, Control
<1> QED BY <1>1, <1>2, <1>3, <1>4, <1>5 DEF Control

(* The start of the service, its end, and its death.                       *)
LEMMA BootControl ==
  ASSUME Control, NicInv, Boot
  PROVE  Control'
<1>1. Types'
  BY DEF Boot, callVars, Types, Choices, Default, Labels, recordVars, Control
<1>2. Places'
  BY DEF Boot, Places, Control
<1>3. Returns'
  BY DEF Boot, Returns, MuLabels, Control
<1>4. CallShape'
  BY DEF Boot, callVars, CallShape, C, Control
<1>5. Wish'
  BY DEF Boot, callVars, Types, CallShape, Wish, Rebuilding, Alive, C, Goroutines,
         Actors, SyncLabels, MuLabels, recordVars, Control
<1> QED BY <1>1, <1>2, <1>3, <1>4, <1>5 DEF Control

LEMMA ReconcileControl ==
  ASSUME Control, NicInv, NEW guard \in BOOLEAN, Reconcile(guard)
  PROVE  Control'
<1>1. Types'
  <2>1. pc' \in [Actors -> Labels] /\ ret' \in [Goroutines -> Labels]
    BY DEF Reconcile, Goto, Goroutines, Labels, SyncLabels, MuLabels, Control, Types
  <2> QED BY <2>1
             DEF Reconcile, callVars, Control, Types, NicInv, StoreType, cfgVars,
                 wishVars
<1>2. Places'
  BY DEF Reconcile, Goto, Types, Places, Goroutines, Actors, MuLabels, Control
<1>3. Returns'
  BY DEF Reconcile, Goto, Types, Returns, Goroutines, Actors, Control
<1>4. CallShape'
  BY DEF Reconcile, Goto, callVars, Types, CallShape, C, Goroutines, Actors, Control
<1>5. Wish'
  BY DEF Reconcile, Goto, callVars, Types, Wish, Rebuilding, Alive, C, Goroutines,
         Actors, cfgVars, wishVars, Control
<1> QED BY <1>1, <1>2, <1>3, <1>4, <1>5 DEF Control

LEMMA AutoConnectControl ==
  ASSUME Control, NicInv, AutoConnect
  PROVE  Control'
<1>1. Types'
  BY DEF AutoConnect, Goto, callVars, Types, Labels, cfgVars, recordVars, Control
<1>2. Places'
  BY DEF AutoConnect, Goto, Places, Control
<1>3. Returns'
  BY DEF AutoConnect, Goto, Returns, MuLabels, Control
<1>4. CallShape'
  BY DEF AutoConnect, Goto, callVars, CallShape, C, Control
<1>5. Wish'
  BY DEF AutoConnect, Goto, callVars, Types, Wish, Rebuilding, Alive, C, cfgVars,
         recordVars, Control
<1> QED BY <1>1, <1>2, <1>3, <1>4, <1>5 DEF Control

LEMMA StopControl ==
  ASSUME Control, NicInv, Stop
  PROVE  Control'
<1>1. Types'
  BY DEF Stop, callVars, Types, cfgVars, recordVars, Control
<1>2. Places'
  BY DEF Stop, Places, Control
<1>3. Returns'
  BY DEF Stop, Returns, Control
<1>4. CallShape'
  BY DEF Stop, callVars, CallShape, C, Control
<1>5. Wish'
  BY DEF Stop, callVars, Wish, Rebuilding, Alive, C, cfgVars, recordVars, Control
<1> QED BY <1>1, <1>2, <1>3, <1>4, <1>5 DEF Control

LEMMA DieControl ==
  ASSUME Control, NicInv, Die, disk' = disk \/ disk' = "unknown"
  PROVE  Control'
<1>1. Types'
  BY DEF Die, Forget, Dead, Types, Choices, Default, Goroutines, Actors, Labels,
         RebuildLabels, Control
<1>2. Places'
  BY DEF Die, Dead, Places, Control
<1>3. Returns'
  BY DEF Die, Forget, Dead, Returns, Goroutines, SyncLabels, MuLabels
<1>4. CallShape'
  BY DEF Die, Forget, Dead, CallShape, C, Goroutines
<1>5. Wish'
  BY DEF Die, Forget, Dead, Wish, Rebuilding, C, Goroutines, RebuildLabels
<1> QED BY <1>1, <1>2, <1>3, <1>4, <1>5 DEF Control

(* The "restore network" tool.                                             *)
LEMMA FixStartControl ==
  ASSUME Control, NicInv, NEW guard \in BOOLEAN, FixStart(guard)
  PROVE  Control'
<1>1. Types'
  BY DEF FixStart, Goto, Types, Actors, Labels, cfgVars, wishVars, recordVars,
         Control
<1>2. Places'
  BY DEF FixStart, Goto, Places, Control
<1>3. Returns'
  BY DEF FixStart, Goto, Returns, Control
<1>4. CallShape'
  BY DEF FixStart, Goto, CallShape, C, Control
<1>5. Wish'
  BY DEF FixStart, Goto, Wish, Rebuilding, Alive, C, cfgVars, wishVars, recordVars,
         Control
<1> QED BY <1>1, <1>2, <1>3, <1>4, <1>5 DEF Control

LEMMA FixAskControl ==
  ASSUME Control, NicInv, FixAsk
  PROVE  Control'
<1>1. Types'
  <2>1. pc' \in [Actors -> Labels] /\ ret' \in [Goroutines -> Labels]
    BY DEF FixAsk, Goto, Labels, Control, Types
  <2> QED BY <2>1
             DEF FixAsk, Begin, Control, Types, Choices, Default, cfgVars, wishVars,
                 recordVars
<1>2. Places'
  BY DEF FixAsk, Goto, Types, Places, Goroutines, Actors, Control
<1>3. Returns'
  BY DEF FixAsk, Goto, Types, Returns, Goroutines, Actors, Control
<1>4. CallShape'
  BY DEF FixAsk, Begin, Goto, Types, CallShape, C, Goroutines, Actors, SyncLabels,
         MuLabels, Control
<1>5. Wish'
  BY DEF FixAsk, Begin, Goto, Types, Wish, Rebuilding, Alive, C, Goroutines, Actors,
         RebuildLabels, cfgVars, wishVars, recordVars, Control
<1> QED BY <1>1, <1>2, <1>3, <1>4, <1>5 DEF Control

LEMMA FixRestoreControl ==
  ASSUME Control, NicInv, FixRestore
  PROVE  Control'
<1>1. Types'
  BY DEF FixRestore, Fix, Goto, callVars, Types, Labels, cfgVars, wishVars,
         recordVars, Control
<1>2. Places'
  BY DEF FixRestore, Fix, Goto, Types, Places, Goroutines, Actors, Control
<1>3. Returns'
  BY DEF FixRestore, Fix, Goto, Types, Returns, Goroutines, Actors, Control
<1>4. CallShape'
  BY DEF FixRestore, Fix, Goto, callVars, Types, CallShape, C, Goroutines, Actors,
         Control
<1>5. Wish'
  BY DEF FixRestore, Fix, Goto, callVars, Types, Wish, Rebuilding, Alive, C,
         Goroutines, Actors, cfgVars, wishVars, recordVars, Control
<1> QED BY <1>1, <1>2, <1>3, <1>4, <1>5 DEF Control

LEMMA FixAnswerControl ==
  ASSUME Control, NicInv, FixAnswer
  PROVE  Control'
<1>1. Types'
  BY DEF FixAnswer, Fix, Goto, callVars, Types, Returns, Goroutines, Actors,
         cfgVars, wishVars, recordVars, Control
<1>2. Places'
  BY DEF FixAnswer, Fix, Goto, Places, Control
<1>3. Returns'
  BY DEF FixAnswer, Fix, Goto, Returns, Control
<1>4. CallShape'
  BY DEF FixAnswer, Fix, Goto, callVars, CallShape, C, Control
<1>5. Wish'
  BY DEF FixAnswer, Fix, Goto, callVars, Wish, Rebuilding, Alive, C, cfgVars,
         wishVars, recordVars, Control
<1> QED BY <1>1, <1>2, <1>3, <1>4, <1>5 DEF Control

(* Neither the scripts nor the adapters touch it.                          *)
LEMMA ScriptingControl ==
  ASSUME Control, NicInv, NEW o \in Slots, Scripting(o)
  PROVE  Control'
<1>1. Types'
  BY DEF Scripting, daemonVars, callVars, Types, cfgVars, wishVars, recordVars,
         Control
<1>2. Places'
  BY DEF Scripting, daemonVars, Places, Control
<1>3. Returns'
  BY DEF Scripting, daemonVars, Returns, Control
<1>4. CallShape'
  BY DEF Scripting, daemonVars, callVars, CallShape, C, Control
<1>5. Wish'
  BY DEF Scripting, daemonVars, callVars, Types, Wish, Rebuilding, Alive, C,
         cfgVars, wishVars, recordVars, Control
<1> QED BY <1>1, <1>2, <1>3, <1>4, <1>5 DEF Control

LEMMA AdaptersControl ==
  ASSUME Control, NicInv, Adapters
  PROVE  Control'
<1>1. Types'
  BY DEF Adapters, daemonVars, callVars, Types, cfgVars, wishVars, recordVars,
         Control
<1>2. Places'
  BY DEF Adapters, daemonVars, Places, Control
<1>3. Returns'
  BY DEF Adapters, daemonVars, Returns, Control
<1>4. CallShape'
  BY DEF Adapters, daemonVars, callVars, CallShape, C, Control
<1>5. Wish'
  BY DEF Adapters, daemonVars, callVars, Wish, Rebuilding, Alive, C, cfgVars,
         wishVars, recordVars, Control
<1> QED BY <1>1, <1>2, <1>3, <1>4, <1>5 DEF Control

-----------------------------------------------------------------------------
(* What a step does to the scripts.                                        *)

(* The scripts of the service, of the tool, and of nobody.                 *)
LEMMA SlotsAre ==
  ASSUME NicInv
  PROVE  /\ "service" \in Owner /\ "fixer" \in Owner /\ "service" \in Slots /\ "fixer" \in Slots
         /\ "service" \notin Orphan /\ "fixer" \notin Orphan
         /\ \A o \in Orphan : o \in Slots /\ o # "service" /\ o # "fixer"
         /\ \A o \in Slots : o \in Orphan \/ o = "service" \/ o = "fixer"
         /\ NoScript.at = "idle" /\ NoScript.kind = "none" /\ ~NoScript.failed
         /\ script \in [Slots -> Scripts]
BY ServiceConstants, NicConstants DEF Slots, NoScript, NicInv

(* One script moves on, by itself or at somebody's word.                   *)
LEMMA ScriptIs ==
  ASSUME NicInv, NEW o \in Slots, NEW t, Set(o, t)
  PROVE  script'[o] = t /\ \A p \in Slots : p # o => script'[p] = script[p]
BY DEF Set, NicInv

(* What died has no alignment and no script of its own any more.           *)
LEMMA DiedIs ==
  ASSUME MatchInv, NicInv, Die
  PROVE  /\ UNCHANGED <<orig, enabled, present, filed, backup, waiting>>
         /\ script'["service"] = NoScript /\ script'["fixer"] = script["fixer"]
         /\ \A o \in Orphan : \/ script'[o] = script[o]
                              \/ script'[o] = script["service"] /\ script["service"].at # "idle"
         /\ overlap \in BOOLEAN /\ (overlap => overlap')
         /\ pc'["fixer"] = pc["fixer"] /\ \A g \in Goroutines : pc'[g] \in {"dead", "off", "idle"}
<1>1. pc'["fixer"] = pc["fixer"] /\ \A g \in Goroutines : pc'[g] \in {"dead", "off", "idle"}
  BY DEF Die, Dead, Goroutines
<1>2. CASE AtWork("service")
  <2>1. PICK p \in Orphan : Outlive("service", p)
    BY <1>2 DEF Die, Dies
  <2> QED BY <1>1, <1>2, <2>1, SlotsAre
             DEF Outlive, AtWork, files, lossVars, World, NicInv, StoreType, Running
<1>3. CASE ~AtWork("service")
  <2>1. /\ Set("service", NoScript)
        /\ UNCHANGED <<Quiet, enabled, filed, backup, waiting>>
    BY <1>3 DEF Die, Dies
  <2> QED
    BY <1>1, <2>1, SlotsAre, ScriptIs DEF Quiet, World, NicInv, StoreType
<1> QED BY <1>2, <1>3

-----------------------------------------------------------------------------
(* Each action keeps MatchInv: first those that leave the scripts alone.   *)

(* syncNICIPv6 on its way to nicMu, the run loop and nicIPv6Loop.          *)
LEMMA SyncEnterMatches ==
  ASSUME MatchInv, NicInv, NEW g \in Goroutines, SyncEnter(g)
  PROVE  MatchInv'
<1>0. Control /\ Control'
  BY SyncEnterControl DEF MatchInv, Control
<1>1. Exclusive'
  BY <1>0
     DEF SyncEnter, Leave, Stay, Goto, Exclusive, InMu, Control, Types, Returns,
         Goroutines, Actors, MuLabels, nicVars, files, MatchInv
<1>2. Honestly'
  BY DEF SyncEnter, Leave, Stay, Goto, Honestly, Orphaned, Running, Leakers, Types,
         Places, Returns, Goroutines, Actors, recordVars, nicVars, files, MatchInv
<1>3. Decided'
  BY DEF SyncEnter, Leave, Stay, Goto, Decided, SureSync, NicIPv6Wanted,
         WantConnected, WantNICOff, Types, Places, Returns, Wish, C, Default,
         Goroutines, Actors, cfgVars, wishVars, MatchInv
<1>4. Aligned'
  BY <1>0
     DEF SyncEnter, Stay, Goto, Aligned, SureSync, InMu, Control, Types, Places, C,
         Goroutines
<1> QED BY <1>0, <1>1, <1>2, <1>3, <1>4 DEF MatchInv, Control

LEMMA RunStepMatches ==
  ASSUME MatchInv, NicInv, RunStep
  PROVE  MatchInv'
<1>0. Control /\ Control'
  BY RunStepControl DEF MatchInv, Control
<1>1. Exclusive'
  BY DEF RunStep, CallSync, Goto, Up, Exclusive, InMu, Types, Actors, MuLabels,
         files, MatchInv
<1>2. Honestly'
  BY DEF RunStep, CallSync, Goto, Honestly, Orphaned, Running, Leakers, Types,
         Actors, RebuildLabels, wishVars, files, Quiet, World, MatchInv
<1>3. Decided'
  BY DEF RunStep, CallSync, Goto, Up, callVars, Decided, SureSync, NicIPv6Wanted,
         WantConnected, Types, C, Goroutines, Actors, cfgVars, wishVars, MatchInv
<1>4. Aligned'
  BY <1>0
     DEF RunStep, CallSync, Goto, callVars, Aligned, Matched, SureSync,
         NicIPv6Wanted, WantConnected, Orphaned, InMu, Leakers, Running, Control,
         Types, Returns, Rebuilding, C, Goroutines, Actors, SyncLabels, cfgVars,
         wishVars, files, Quiet, World, MatchInv
<1> QED BY <1>0, <1>1, <1>2, <1>3, <1>4 DEF MatchInv, Control

LEMMA LoopLookMatches ==
  ASSUME MatchInv, NicInv, LoopLook
  PROVE  MatchInv'
<1>0. Control /\ Control'
  BY LoopLookControl DEF MatchInv, Control
<1>1. Exclusive'
  BY DEF LoopLook, Goto, Exclusive, InMu, MuLabels, nicVars, files, MatchInv
<1>2. Honestly'
  BY DEF LoopLook, Goto, Honestly, Orphaned, Running, nicVars, files, MatchInv
<1>3. Decided'
  BY DEF LoopLook, Goto, callVars, Decided, SureSync, NicIPv6Wanted, WantConnected,
         C, cfgVars, wishVars, MatchInv
<1>4. Aligned'
  BY DEF LoopLook, Goto, callVars, Aligned, Matched, SureSync, NicIPv6Wanted,
         WantConnected, Orphaned, InMu, Running, Rebuilding, C, MuLabels, cfgVars,
         wishVars, nicVars, MatchInv
<1> QED BY <1>0, <1>1, <1>2, <1>3, <1>4 DEF MatchInv, Control

LEMMA LoopLockMatches ==
  ASSUME MatchInv, NicInv, LoopLock
  PROVE  MatchInv'
<1>0. Control /\ Control'
  BY LoopLockControl DEF MatchInv, Control
<1>1. Exclusive'
  BY DEF LoopLock, Goto, Exclusive, InMu, NicMuFree, Types, Actors, MuLabels,
         nicVars, files, MatchInv
<1>2. Honestly'
  BY DEF LoopLock, Honestly, Exclusive, Running, NicMuFree, recordVars, nicVars,
         files, MatchInv
<1>3. Decided'
  BY <1>0
     DEF LoopLock, Goto, Decided, NicIPv6Wanted, WantConnected, Control, NicMuFree,
         Types, Actors, cfgVars, wishVars
<1>4. Aligned'
  BY DEF LoopLock, Goto, callVars, Aligned, Matched, SureSync, NicIPv6Wanted,
         WantConnected, Orphaned, InMu, Running, Types, Rebuilding, C, Goroutines,
         Actors, MuLabels, cfgVars, wishVars, nicVars, files, MatchInv
<1> QED BY <1>0, <1>1, <1>2, <1>3, <1>4 DEF MatchInv, Control

(* The requests.                                                           *)
LEMMA CallMatches ==
  ASSUME MatchInv, NicInv, NEW o \in {"connect", "disconnect", "save"}, NEW s \in Choices,
         Call(o, s)
  PROVE  MatchInv'
<1>0. Control /\ Control'
  BY CallControl DEF MatchInv, Control
<1>1. Exclusive'
  BY DEF Call, Begin, Goto, Exclusive, InMu, MuLabels, nicVars, files, MatchInv
<1>2. Honestly'
  BY DEF Call, Goto, Honestly, Orphaned, Running, Leakers, nicVars, files, MatchInv
<1>3. Decided'
  <2>1. CASE o \in {"connect", "disconnect"}
    <3>1. C' = o /\ SureSync' /\ \A g \in Goroutines : g # "call" => pc'[g] = pc[g]
      BY <1>0, <2>1 DEF Call, Goto, SureSync, Control, Types, C
    <3>3. o = "connect" \/ o = "disconnect"
      BY <2>1
    <3>4. UNCHANGED <<trusted, settings>> /\ UNCHANGED wishVars
      BY <3>3 DEF Call, Begin
    <3>2. /\ trusted' = trusted /\ wanted' = wanted /\ bootWanted' = bootWanted
          /\ pc'["call"] \notin MuLabels
      BY <3>1, <3>4 DEF C, MuLabels, wishVars
    <3> QED BY <3>1, <3>2 DEF MatchInv, Decided, WantConnected, C
  <2>2. CASE o = "save" /\ s = settings
    BY <2>2
       DEF Call, Begin, Goto, MatchInv, Decided, SureSync, NicIPv6Wanted,
           WantConnected, C, wishVars
  <2>3. CASE o = "save" /\ s # settings
    <3>1. (C = "save" /\ prev # settings)'
      BY <1>0, <2>3 DEF Call, Begin, Goto, Control, Types, C
    <3> QED BY <1>0, <3>1 DEF Call, Begin, Decided, SureSync, Control, Wish
  <2> QED BY <2>1, <2>2, <2>3
<1>4. Aligned'
  <2>1. CASE o \in {"connect", "disconnect"}
    <3>1. C' = o /\ SureSync' /\ \A g \in Goroutines : g # "call" => pc'[g] = pc[g]
      BY <1>0, <2>1 DEF Call, Goto, SureSync, Control, Types, C
    <3>3. o = "connect" \/ o = "disconnect"
      BY <2>1
    <3>4. UNCHANGED <<trusted, settings>> /\ UNCHANGED wishVars
      BY <3>3 DEF Call, Begin
    <3>2. /\ trusted' = trusted /\ wanted' = wanted /\ bootWanted' = bootWanted
          /\ pc'["call"] \notin MuLabels
      BY <3>1, <3>4 DEF C, MuLabels, wishVars
    <3> QED BY <3>1 DEF Aligned
  <2>2. CASE o = "save" /\ s = settings
    BY <2>2
       DEF Call, Begin, Goto, MatchInv, SureSync, NicIPv6Wanted, WantConnected,
           Rebuilding, C, MuLabels, RebuildLabels, wishVars, Aligned, Matched,
           Orphaned, InMu, Leakers, Running, nicVars, files
  <2>3. CASE o = "save" /\ s # settings
    <3>1. (C = "save" /\ prev # settings)'
      BY <1>0, <2>3 DEF Call, Begin, Goto, Control, Types, C
    <3> QED BY <3>1 DEF SureSync, Aligned
  <2> QED BY <2>1, <2>2, <2>3
<1> QED BY <1>0, <1>1, <1>2, <1>3, <1>4 DEF MatchInv, Control

LEMMA ConnectMatches ==
  ASSUME MatchInv, NicInv, Connect
  PROVE  MatchInv'
<1>0. Control /\ Control'
  BY ConnectControl DEF MatchInv, Control
<1>1. Exclusive'
  BY DEF Connect, CallSync, Goto, Exclusive, InMu, MuLabels, nicVars, files,
         MatchInv
<1>2. Honestly'
  BY DEF Connect, CallSync, Goto, Honestly, Orphaned, Running, Leakers, nicVars,
         files, MatchInv
<1>3. Decided'
  BY DEF Connect, CallSync, Goto, Decided, SureSync, WantConnected, Wish, C,
         cfgVars, MatchInv
<1>4. Aligned'
  BY DEF Connect, CallSync, Goto, Aligned, SureSync, C
<1> QED BY <1>0, <1>1, <1>2, <1>3, <1>4 DEF MatchInv, Control

LEMMA DisconnectMatches ==
  ASSUME MatchInv, NicInv, Disconnect
  PROVE  MatchInv'
<1>0. Control /\ Control'
  BY DisconnectControl DEF MatchInv, Control
<1>1. Exclusive'
  BY DEF Disconnect, Goto, Exclusive, InMu, MuLabels, nicVars, files, MatchInv
<1>2. Honestly'
  BY DEF Disconnect, Goto, Honestly, Orphaned, Running, Leakers, nicVars, files,
         MatchInv
<1>3. Decided'
  BY <1>0
     DEF Disconnect, Goto, Decided, SureSync, WantConnected, Control, Types,
         CallShape, Wish, Rebuilding, C, SyncLabels, MuLabels, cfgVars, MatchInv
<1>4. Aligned'
  BY <1>0
     DEF Disconnect, Goto, Aligned, SureSync, InMu, Control, Types, CallShape,
         Rebuilding, C, Goroutines, SyncLabels
<1> QED BY <1>0, <1>1, <1>2, <1>3, <1>4 DEF MatchInv, Control

LEMMA HaltMatches ==
  ASSUME MatchInv, NicInv, Halt
  PROVE  MatchInv'
<1>0. Control /\ Control'
  BY HaltControl DEF MatchInv, Control
<1>1. Exclusive'
  BY DEF Halt, CallSync, Goto, Exclusive, InMu, Types, Actors, MuLabels, nicVars,
         files, MatchInv
<1>2. Honestly'
  BY DEF Halt, CallSync, Goto, Honestly, Orphaned, Running, Leakers, Types, Actors,
         nicVars, files, MatchInv
<1>3. Decided'
  BY <1>0
     DEF Halt, CallSync, Goto, Decided, SureSync, Control, Types, CallShape, Wish,
         Rebuilding, C, Actors, SyncLabels, MuLabels, cfgVars, MatchInv
<1>4. Aligned'
  BY <1>0
     DEF Halt, CallSync, Goto, Aligned, SureSync, InMu, Control, Types, CallShape,
         Rebuilding, C, Goroutines, SyncLabels
<1> QED BY <1>0, <1>1, <1>2, <1>3, <1>4 DEF MatchInv, Control

LEMMA SaveMatches ==
  ASSUME MatchInv, NicInv, Save
  PROVE  MatchInv'
<1>0. Control /\ Control'
  BY SaveControl DEF MatchInv, Control
<1>1. Exclusive'
  BY DEF Save, CallSync, Leave, Goto, Exclusive, InMu, Types, Actors, MuLabels,
         nicVars, files, MatchInv
<1>2. Honestly'
  BY DEF Save, CallSync, Leave, Goto, Honestly, Orphaned, Running, Leakers, Types,
         Actors, nicVars, files, MatchInv
<1>3. Decided'
  BY DEF Save, CallSync, Leave, Goto, Decided, SureSync, NicIPv6Wanted,
         WantConnected, Types, C, Goroutines, Actors, cfgVars, wishVars, MatchInv
<1>4. Aligned'
  BY DEF Save, CallSync, Leave, Goto, Aligned, Matched, SureSync, NicIPv6Wanted,
         WantConnected, Orphaned, InMu, Leakers, Running, Types, CallShape,
         Rebuilding, C, Goroutines, Actors, SyncLabels, MuLabels, RebuildLabels,
         cfgVars, wishVars, nicVars, files, MatchInv
<1> QED BY <1>0, <1>1, <1>2, <1>3, <1>4 DEF MatchInv, Control

LEMMA RebuildMatches ==
  ASSUME MatchInv, NicInv, Rebuild
  PROVE  MatchInv'
<1>0. Control /\ Control'
  BY RebuildControl DEF MatchInv, Control
<1>1. Exclusive'
  BY DEF Rebuild, Goto, Exclusive, InMu, Types, Wish, C, Actors, MuLabels, files,
         MatchInv
<1>2. Honestly'
  BY DEF Rebuild, Goto, Honestly, Orphaned, Running, Leakers, Types, Actors, files,
         Quiet, World, MatchInv
<1>3. Decided'
  BY DEF Rebuild, Goto, Decided, SureSync, NicIPv6Wanted, WantConnected, Types, C,
         Goroutines, Actors, cfgVars, wishVars, MatchInv
<1>4. Aligned'
  BY <1>0
     DEF Rebuild, Goto, Aligned, SureSync, InMu, Control, Types, CallShape,
         Rebuilding, C, Goroutines, Actors, SyncLabels
<1> QED BY <1>0, <1>1, <1>2, <1>3, <1>4 DEF MatchInv, Control

LEMMA UndoMatches ==
  ASSUME MatchInv, NicInv, Undo
  PROVE  MatchInv'
<1>0. Control /\ Control'
  BY UndoControl DEF MatchInv, Control
<1>1. Exclusive'
  BY DEF Undo, Leave, Stay, Goto, Exclusive, InMu, Types, Actors, MuLabels, files,
         MatchInv
<1>2. Honestly'
  BY DEF Undo, Leave, Stay, Goto, Honestly, Orphaned, Running, Leakers, Types,
         Actors, RebuildLabels, files, Quiet, World, MatchInv
<1>3. Decided'
  BY DEF Undo, Leave, Stay, Goto, Decided, SureSync, NicIPv6Wanted, WantConnected,
         Types, C, Goroutines, Actors, wishVars, MatchInv
<1>4. Aligned'
  BY <1>0
     DEF Undo, Stay, Goto, Aligned, SureSync, Control, Types, C, Goroutines, Actors
<1> QED BY <1>0, <1>1, <1>2, <1>3, <1>4 DEF MatchInv, Control

LEMMA SettleMatches ==
  ASSUME MatchInv, NicInv, Settle
  PROVE  MatchInv'
<1>0. Control /\ Control'
  BY SettleControl DEF MatchInv, Control
<1>1. Exclusive'
  BY DEF Settle, CallSync, Goto, Exclusive, InMu, MuLabels, nicVars, files, MatchInv
<1>2. Honestly'
  BY DEF Settle, CallSync, Goto, Honestly, Orphaned, Running, Leakers, nicVars,
         files, MatchInv
<1>3. Decided'
  BY <1>0
     DEF Settle, CallSync, Goto, callVars, Decided, SureSync, Control, Types,
         CallShape, Wish, C, SyncLabels, MuLabels
<1>4. Aligned'
  BY DEF Settle, CallSync, Goto, Aligned, SureSync, C
<1> QED BY <1>0, <1>1, <1>2, <1>3, <1>4 DEF MatchInv, Control

(* The start of the service and its end.                                   *)
LEMMA BootMatches ==
  ASSUME MatchInv, NicInv, Boot
  PROVE  MatchInv'
<1>0. Control /\ Control'
  BY BootControl DEF MatchInv, Control
<1>1. Exclusive'
  BY DEF Boot, Exclusive, InMu, MuLabels, files, MatchInv
<1>2. Honestly'
  BY DEF Boot, Honestly, Exclusive, Running, Wish, Alive, C, Goroutines,
         RebuildLabels, files, Quiet, MatchInv
<1>3. Decided'
  BY <1>0 DEF Boot, Decided, Control, Wish, Alive, C, Goroutines
<1>4. Aligned'
  BY <1>0 DEF Boot, Aligned, Control, Wish, Alive
<1> QED BY <1>0, <1>1, <1>2, <1>3, <1>4 DEF MatchInv, Control

LEMMA ReconcileMatches ==
  ASSUME MatchInv, NicInv, NEW guard \in BOOLEAN, Reconcile(guard)
  PROVE  MatchInv'
<1>0. Control /\ Control'
  BY ReconcileControl DEF MatchInv, Control
<1>1. Exclusive'
  BY DEF Reconcile, Goto, Exclusive, InMu, NicMuFree, Types, Actors, MuLabels,
         nicVars, files, MatchInv
<1>2. Honestly'
  BY DEF Reconcile, Honestly, Exclusive, Running, NicMuFree, RebuildLabels,
         wishVars, nicVars, files, MatchInv
<1>3. Decided'
  BY <1>0
     DEF Reconcile, Goto, Decided, SureSync, NicIPv6Wanted, WantConnected, Control,
         NicMuFree, Types, Wish, Actors, cfgVars
<1>4. Aligned'
  BY <1>0
     DEF Reconcile, Goto, Aligned, Matched, SureSync, NicIPv6Wanted, WantConnected,
         InMu, Leakers, Control, Types, Places, Wish, Actors, cfgVars, nicVars,
         files
<1> QED BY <1>0, <1>1, <1>2, <1>3, <1>4 DEF MatchInv, Control

LEMMA AutoConnectMatches ==
  ASSUME MatchInv, NicInv, AutoConnect
  PROVE  MatchInv'
<1>0. Control /\ Control'
  BY AutoConnectControl DEF MatchInv, Control
<1>1. Exclusive'
  BY DEF AutoConnect, Goto, Exclusive, InMu, MuLabels, nicVars, files, MatchInv
<1>2. Honestly'
  BY DEF AutoConnect, Goto, Honestly, Orphaned, Running, Leakers, nicVars, files,
         MatchInv
<1>3. Decided'
  BY DEF AutoConnect, Goto, callVars, Decided, SureSync, NicIPv6Wanted,
         WantConnected, Types, Wish, C, cfgVars, MatchInv
<1>4. Aligned'
  BY DEF AutoConnect, Goto, callVars, Aligned, Matched, SureSync, NicIPv6Wanted,
         WantConnected, Orphaned, InMu, Leakers, Running, Types, Wish, Rebuilding,
         C, MuLabels, cfgVars, nicVars, files, MatchInv
<1> QED BY <1>0, <1>1, <1>2, <1>3, <1>4 DEF MatchInv, Control

LEMMA StopMatches ==
  ASSUME MatchInv, NicInv, Stop
  PROVE  MatchInv'
<1>0. Control /\ Control'
  BY StopControl DEF MatchInv, Control
<1>1. Exclusive'
  BY DEF Stop, Exclusive, InMu, files, MatchInv
<1>2. Honestly'
  BY DEF Stop, Honestly, Orphaned, Running, Leakers, files, Quiet, World, MatchInv
<1>3. Decided'
  BY DEF Stop, Decided, WantConnected, cfgVars, MatchInv
<1>4. Aligned'
  BY DEF Stop, Aligned
<1> QED BY <1>0, <1>1, <1>2, <1>3, <1>4 DEF MatchInv, Control

(* The tool, apart from its script.                                        *)
LEMMA FixStartMatches ==
  ASSUME MatchInv, NicInv, NEW guard \in BOOLEAN, FixStart(guard)
  PROVE  MatchInv'
<1>0. Control /\ Control'
  BY FixStartControl DEF MatchInv, Control
<1>1. Exclusive'
  BY DEF FixStart, Goto, Exclusive, InMu, Goroutines, nicVars, files, MatchInv
<1>2. Honestly'
  BY DEF FixStart, Goto, Honestly, Orphaned, Running, Leakers, nicVars, files,
         MatchInv
<1>3. Decided'
  BY DEF FixStart, Goto, Decided, SureSync, NicIPv6Wanted, WantConnected, C,
         cfgVars, wishVars, MatchInv
<1>4. Aligned'
  BY DEF FixStart, Goto, Aligned, Matched, SureSync, NicIPv6Wanted, WantConnected,
         Orphaned, InMu, Leakers, Running, Rebuilding, C, Goroutines, cfgVars,
         wishVars, nicVars, files, MatchInv
<1> QED BY <1>0, <1>1, <1>2, <1>3, <1>4 DEF MatchInv, Control

LEMMA FixAskMatches ==
  ASSUME MatchInv, NicInv, FixAsk
  PROVE  MatchInv'
<1>0. Control /\ Control'
  BY FixAskControl DEF MatchInv, Control
<1>1. Exclusive'
  BY DEF FixAsk, Begin, Goto, Exclusive, InMu, Types, Actors, MuLabels, nicVars,
         files, MatchInv
<1>2. Honestly'
  BY DEF FixAsk, Goto, Honestly, Orphaned, Running, Leakers, Types, Actors, nicVars,
         files, MatchInv
<1>3. Decided'
  BY DEF FixAsk, Begin, Goto, Decided, SureSync, NicIPv6Wanted, WantConnected,
         Types, C, Goroutines, Actors, cfgVars, wishVars, MatchInv
<1>4. Aligned'
  BY DEF FixAsk, Begin, Goto, Aligned, Matched, SureSync, NicIPv6Wanted,
         WantConnected, WantNICOff, Orphaned, InMu, Leakers, Running, Types,
         Rebuilding, C, Goroutines, Actors, cfgVars, wishVars, nicVars, files,
         MatchInv
<1> QED BY <1>0, <1>1, <1>2, <1>3, <1>4 DEF MatchInv, Control

LEMMA FixAnswerMatches ==
  ASSUME MatchInv, NicInv, FixAnswer
  PROVE  MatchInv'
<1>0. Control /\ Control'
  BY FixAnswerControl DEF MatchInv, Control
<1>1. Exclusive'
  BY DEF FixAnswer, Fix, Goto, Exclusive, InMu, Goroutines, nicVars, files, MatchInv
<1>2. Honestly'
  BY DEF FixAnswer, Fix, Goto, Honestly, Orphaned, Running, Leakers, nicVars, files,
         MatchInv
<1>3. Decided'
  BY DEF FixAnswer, Fix, Goto, callVars, Decided, SureSync, NicIPv6Wanted,
         WantConnected, C, cfgVars, wishVars, MatchInv
<1>4. Aligned'
  BY DEF FixAnswer, Fix, Goto, callVars, Aligned, Matched, SureSync, NicIPv6Wanted,
         WantConnected, Orphaned, InMu, Leakers, Running, Rebuilding, C, Goroutines,
         cfgVars, wishVars, nicVars, files, MatchInv
<1> QED BY <1>0, <1>1, <1>2, <1>3, <1>4 DEF MatchInv, Control

(* The decision under nicMu, which sees what SureSync has promised.        *)
LEMMA SyncLockMatches ==
  ASSUME MatchInv, NicInv, NEW g \in Goroutines, SyncLock(g)
  PROVE  MatchInv'
<1>0. Control /\ Control'
  BY SyncLockControl DEF MatchInv, Control
<1>1. Exclusive'
  BY <1>0
     DEF SyncLock, Leave, Stay, Goto, Exclusive, InMu, Control, NicMuFree, Types,
         Returns, Goroutines, Actors, MuLabels, nicVars, files, MatchInv
<1>2. Honestly'
  BY DEF SyncLock, Honestly, Exclusive, Running, NicMuFree, cfgVars, nicVars, files,
         MatchInv
<1>3. Decided'
  BY <1>0
     DEF SyncLock, Leave, Stay, Goto, Decided, NicIPv6Wanted, WantConnected,
         WantNICOff, Control, NicMuFree, Types, Places, Returns, Wish, Default,
         Goroutines, Actors, MuLabels, cfgVars, wishVars
<1>4. Aligned'
  BY <1>0
     DEF SyncLock, Stay, Goto, Aligned, Matched, SureSync, NicIPv6Wanted,
         WantConnected, InMu, Leakers, Control, Types, Places, Wish, Rebuilding, C,
         Goroutines, SyncLabels, cfgVars, wishVars, nicVars, files
<1> QED BY <1>0, <1>1, <1>2, <1>3, <1>4 DEF MatchInv, Control

(* Adapters that come, go or have their file damaged.                      *)
LEMMA AdaptersMatches ==
  ASSUME MatchInv, NicInv, Adapters
  PROVE  MatchInv'
<1>0. Control /\ Control'
  BY AdaptersControl DEF MatchInv, Control
<1>1. Exclusive'
  <2>1. UNCHANGED <<script, filed, pc>> /\ (~filed => UNCHANGED backup)
    BY DEF Adapters, Plug, Damage, Known, NoRows, files, daemonVars, MatchInv,
           Exclusive
  <2> QED BY <2>1 DEF MatchInv, Exclusive, InMu
<1>2. Honestly'
  BY DEF Adapters, daemonVars, Plug, Damage, Honestly, Orphaned, Running, files,
         Quiet, World, MatchInv
<1>3. Decided'
  BY DEF Adapters, daemonVars, callVars, Decided, SureSync, NicIPv6Wanted,
         WantConnected, C, cfgVars, wishVars, MatchInv
<1>4. Aligned'
  BY DEF Adapters, daemonVars, callVars, Plug, Damage, Aligned, Matched, SureSync,
         NicIPv6Wanted, WantConnected, Orphaned, InMu, Running, Rebuilding, C,
         cfgVars, wishVars, files, Quiet, MatchInv
<1> QED BY <1>0, <1>1, <1>2, <1>3, <1>4 DEF MatchInv, Control

(* The death of the service leaves the debt to its next start.             *)
LEMMA DieMatches ==
  ASSUME MatchInv, NicInv, Die, disk' = disk \/ disk' = "unknown"
  PROVE  MatchInv'
<1>0. Control /\ Control'
  BY DieControl DEF MatchInv, Control
<1>1. Exclusive'
  BY DiedIs, SlotsAre DEF MatchInv, Exclusive, InMu, MuLabels
<1>2. Honestly'
  <2>1. \A g \in Goroutines : pc'[g] \notin {"disabling", "restoring"}
    BY DiedIs
  <2>2. ASSUME ~overlap', NEW o \in Slots, Running(o)', script'[o].kind = "restore", ~filed'
        PROVE  /\ ~script'[o].failed
               /\ script'[o].at = "enable" =>
                    script'[o].todo \cup script'[o].seen \subseteq script'[o].waited
    <3>1. PICK p \in Slots : script'[o] = script[p] /\ Running(p)
      BY <2>2, DiedIs, SlotsAre DEF Running
    <3> QED BY <2>2, <3>1, DiedIs DEF MatchInv, Honestly
  <2> QED BY <2>2, DiedIs, SlotsAre DEF Honestly
<1>3. Decided'
  BY DEF Die, Dead, Decided, Goroutines
<1>4. Aligned'
  BY DEF Die, Forget, Aligned
<1> QED BY <1>0, <1>1, <1>2, <1>3, <1>4 DEF MatchInv, Control

(* Who is in an alignment does not keep SureSync true by being there.      *)
LEMMA SureStays ==
  ASSUME NEW g \in Goroutines, pc[g] \in MuLabels,
         \A h \in Goroutines : h # g => pc'[h] = pc[h],
         g = "boot" => pc'["boot"] \notin {"dead", "serve"},
         UNCHANGED <<cfgVars, wishVars>>, g # "call" => UNCHANGED <<op, prev>>,
         SureSync
  PROVE  SureSync'
BY DEF SureSync, MuLabels, Goroutines, C, cfgVars, wishVars, WantConnected

(* An alignment ends: there is none, and the service runs no script.       *)
LEMMA EndsAlignment ==
  ASSUME MatchInv, NicInv, Control', NEW g \in Goroutines, InMu(g),
         NEW label, label = ret[g] \/ label = OnError(g), Leave(g, label),
         UNCHANGED <<cfgVars, wishVars, disturbed>>,
         UNCHANGED <<enabled, present, filed, backup, overlap>>,
         script'["service"].at = "idle",
         \A o \in Slots : o # "service" => script'[o] = script[o],
         closing \/ owed' \/ overlap \/ SureSync \/ Matched
  PROVE  MatchInv'
<1>1. /\ pc'[g] = label /\ label \notin MuLabels
      /\ \A h \in Actors : h # g => pc'[h] = pc[h]
      /\ g = "boot" => label = "auto"
  <2>1. pc' = [pc EXCEPT ![g] = label] /\ g \in Actors /\ pc \in [Actors -> Labels]
    BY DEF Leave, Goto, Actors, MatchInv, Types
  <2>2. label \notin MuLabels /\ (g = "boot" => label = "auto")
    BY DEF MatchInv, Returns, OnError, MuLabels, Goroutines, InMu
  <2> QED BY <2>1, <2>2
<1>2. \A h \in Goroutines : ~InMu(h)'
  BY <1>1 DEF MatchInv, Exclusive, InMu, Actors
<1>3. SureSync => SureSync'
  BY <1>1, SureStays DEF InMu, Leave, Actors
<1>4. Exclusive'
  <2>1. \A h \in Goroutines : pc'[h] \notin {"disabling", "restoring"}
    BY <1>2 DEF InMu, MuLabels
  <2>2. pc'["fixer"] = pc["fixer"] /\ script'["fixer"] = script["fixer"]
    BY <1>1, SlotsAre DEF Goroutines, Actors
  <2> QED BY <1>2, <2>1, <2>2 DEF MatchInv, Exclusive
<1>5. Honestly'
  <2>1. \A h \in Goroutines : pc'[h] \notin {"disabling", "restoring"}
    BY <1>2 DEF InMu, MuLabels
  <2>2. ~Running("service")'
    BY DEF Running
  <2> QED BY DEF MatchInv, Honestly, Running
<1>6. Decided'
  BY <1>2 DEF Decided, InMu, MuLabels
<1>7. Aligned'
  <2>1. NicIPv6Wanted' = NicIPv6Wanted /\ Leakers' = Leakers /\ closing' = closing
    BY DEF NicIPv6Wanted, WantConnected, Leakers, cfgVars, wishVars
  <2>2. Matched' = Matched
    BY <2>1 DEF Matched
  <2> QED BY <1>3, <2>1, <2>2 DEF Aligned
<1> QED BY <1>4, <1>5, <1>6, <1>7 DEF MatchInv, Control

(* The service runs a script only under nicMu.                             *)
LEMMA NoScriptYet ==
  ASSUME MatchInv, NicInv, NEW g \in Goroutines, pc[g] \in {"disable", "restore"}
  PROVE  script["service"].at = "idle" /\ InMu(g)
<1>1. InMu(g)
  BY DEF InMu, MuLabels
<1>2. \A h \in Goroutines : pc[h] \notin {"disabling", "restoring"}
  BY DEF MatchInv, Exclusive, InMu, MuLabels
<1> QED BY <1>1, <1>2 DEF MatchInv, Exclusive

(* It ends with the adapters off, as decided, or it ends in failure.       *)
LEMMA DisabledMatches ==
  ASSUME MatchInv, NicInv, Control', NEW g \in Goroutines, InMu(g),
         NicIPv6Wanted \/ closing \/ SureSync,
         NEW failed \in BOOLEAN, Disabled(g, failed),
         UNCHANGED <<cfgVars, wishVars, disturbed>>,
         UNCHANGED <<enabled, present, filed, backup, overlap>>,
         script'["service"].at = "idle",
         \A o \in Slots : o # "service" => script'[o] = script[o],
         ~failed => overlap \/ disturbed \/ Leakers = {}
  PROVE  MatchInv'
<1>1. \E label : (label = ret[g] \/ label = OnError(g)) /\ Leave(g, label)
  BY DEF Disabled
<1>2. closing \/ owed' \/ overlap \/ SureSync \/ Matched
  BY DEF Disabled, Matched
<1> QED BY <1>1, <1>2, EndsAlignment

(* It ends with the adapters restored, as decided, or it ends in failure.  *)
LEMMA RestoredMatches ==
  ASSUME MatchInv, NicInv, Control', NEW g \in Goroutines, InMu(g),
         ~NicIPv6Wanted \/ closing \/ SureSync,
         NEW failed \in BOOLEAN, Restored(g, failed),
         UNCHANGED <<cfgVars, wishVars, disturbed>>,
         UNCHANGED <<enabled, present, filed, backup, overlap>>,
         script'["service"].at = "idle",
         \A o \in Slots : o # "service" => script'[o] = script[o],
         ~failed => overlap \/ ~filed
  PROVE  MatchInv'
<1>1. \E label : (label = ret[g] \/ label = OnError(g)) /\ Leave(g, label)
  BY DEF Restored
<1>2. closing \/ owed' \/ overlap \/ SureSync \/ Matched
  BY DEF Restored, Matched
<1> QED BY <1>1, <1>2, EndsAlignment

(* The result of a script is taken, and nothing else happens.              *)
LEMMA ReapIs ==
  ASSUME NicInv, NEW o \in Slots, Reap(o)
  PROVE  /\ script[o].at = "ended" /\ script'[o] = NoScript
         /\ \A p \in Slots : p # o => script'[p] = script[p]
         /\ UNCHANGED <<orig, enabled, present, overlap, filed, backup, waiting>>
BY ScriptIs DEF Reap, Quiet, World

(* The script that the alignment waited for has ended.                     *)
LEMMA DisableEndMatches ==
  ASSUME MatchInv, NicInv, NEW g \in Goroutines, DisableEnd(g)
  PROVE  MatchInv'
<1>1. InMu(g) /\ pc[g] = "disabling" /\ UNCHANGED <<cfgVars, wishVars, disturbed>>
  BY DEF DisableEnd, InMu, MuLabels
<1>2. NicIPv6Wanted \/ closing \/ SureSync
  BY <1>1 DEF MatchInv, Decided
<1>3. script["service"].failed \in BOOLEAN
  BY SlotsAre DEF Scripts
<1>4. ~script["service"].failed => overlap \/ disturbed \/ Leakers = {}
  BY SlotsAre, ReapIs DEF MatchInv, Honestly, DisableEnd
<1>5. Control'
  BY DisableEndControl DEF MatchInv, Control
<1> QED
  BY <1>1, <1>2, <1>3, <1>4, <1>5, SlotsAre, ReapIs, DisabledMatches DEF DisableEnd

LEMMA RestoreEndMatches ==
  ASSUME MatchInv, NicInv, NEW g \in Goroutines, RestoreEnd(g)
  PROVE  MatchInv'
<1>1. InMu(g) /\ pc[g] = "restoring" /\ UNCHANGED <<cfgVars, wishVars, disturbed>>
  BY DEF RestoreEnd, InMu, MuLabels
<1>2. ~NicIPv6Wanted \/ closing \/ SureSync
  BY <1>1 DEF MatchInv, Decided
<1>3. script["service"].failed \in BOOLEAN
  BY SlotsAre DEF Scripts
<1>4. ~script["service"].failed => overlap \/ ~filed
  BY SlotsAre, ReapIs DEF MatchInv, Honestly, RestoreEnd
<1>5. Control'
  BY RestoreEndControl DEF MatchInv, Control
<1> QED
  BY <1>1, <1>2, <1>3, <1>4, <1>5, SlotsAre, ReapIs, RestoredMatches DEF RestoreEnd

(* What a script of the service or the tool is when it begins.             *)
LEMMA BeginsDisable ==
  ASSUME NicInv, StartDisable("service")
  PROVE  /\ script'["service"].kind = "disable" /\ script'["service"].seen = present
         /\ script'["service"].at \in {"evidence", "save", "strike"}
         /\ \A p \in Slots : p # "service" => script'[p] = script[p]
         /\ \A p \in Owner : ~Running(p)
         /\ overlap' = (overlap \/ Orphaned)
         /\ UNCHANGED <<enabled, present, filed, backup>>
<1>1. \E t : /\ Set("service", t) /\ t.kind = "disable" /\ t.seen = present
              /\ t.at \in {"evidence", "save", "strike"}
  <2> DEFINE at == IF Bad # {} THEN "evidence"
                   ELSE IF present \ Known = {} THEN "strike" ELSE "save"
             rows == [n \in Nic |->
                        CASE n \in Known -> backup[n]
                          [] n \in present \ Known -> IF n \in waiting \/ enabled[n]
                                                     THEN "on" ELSE "off"
                          [] n \notin Known \cup (present \ Known) -> "none"]
             t == [NoScript EXCEPT !.kind = "disable", !.at = at,
                     !.todo = {n \in present : enabled[n]}, !.seen = present, !.rows = rows,
                     !.moved = (present \ Known) \cap waiting, !.bad = Bad]
  <2>1. Set("service", t)
    BY DEF StartDisable
  <2>2. at \in {"evidence", "save", "strike"}
    OBVIOUS
  <2> HIDE DEF at, rows
  <2>3. t.kind = "disable" /\ t.seen = present /\ t.at = at
    OBVIOUS
  <2> HIDE DEF t
  <2> QED BY <2>1, <2>2, <2>3
<1>2. PICK t : /\ Set("service", t) /\ t.kind = "disable" /\ t.seen = present
               /\ t.at \in {"evidence", "save", "strike"}
  BY <1>1
<1> QED BY <1>2, SlotsAre, ScriptIs
           DEF StartDisable, NicLockFree, Overlap, Orphaned, World, files

LEMMA BeginsRestore ==
  ASSUME NicInv, NEW o \in Owner, StartRestore(o)
  PROVE  /\ script'[o].kind = "restore" /\ script'[o].at = "enable" /\ ~script'[o].failed
         /\ backup = NoRows => script'[o].todo \cup script'[o].seen \subseteq script'[o].waited
         /\ \A p \in Slots : p # o => script'[p] = script[p]
         /\ \A p \in Owner : ~Running(p)
         /\ overlap' = (overlap \/ Orphaned)
         /\ UNCHANGED <<enabled, present, filed, backup>>
<1> DEFINE t == [NoScript EXCEPT !.kind = "restore", !.at = "enable",
                   !.todo = {n \in Nic : backup[n] = "on"} \cup (waiting \ Known),
                   !.waited = waiting \ Known, !.bad = Bad]
<1>1. /\ Set(o, t) /\ t.kind = "restore" /\ t.at = "enable" /\ ~t.failed
      /\ t.todo = {n \in Nic : backup[n] = "on"} \cup (waiting \ Known)
      /\ t.seen = {} /\ t.waited = waiting \ Known
  BY DEF StartRestore, NoScript
<1> HIDE DEF t
<1>2. backup = NoRows => t.todo \cup t.seen \subseteq t.waited
  BY <1>1 DEF NoRows
<1>3. o \in Slots
  BY DEF Slots
<1> QED BY <1>1, <1>2, <1>3, ScriptIs
           DEF StartRestore, NicLockFree, Overlap, Orphaned, World, files

(* A script begins: the alignment that asked for it is still right.        *)
LEMMA BeginsAlignment ==
  ASSUME MatchInv, NicInv, Control', NEW g \in Goroutines,
         NEW label, \/ pc[g] = "disable" /\ label = "disabling" /\ StartDisable("service")
                    \/ pc[g] = "restore" /\ label = "restoring" /\ StartRestore("service"),
         Stay(g, label), UNCHANGED <<cfgVars, wishVars, disturbed, owed>>
  PROVE  MatchInv'
<1>0. InMu(g) /\ label \in {"disabling", "restoring"}
  BY DEF InMu, MuLabels
<1>1. pc'[g] = label /\ \A h \in Actors : h # g => pc'[h] = pc[h]
  BY DEF Stay, Goto, Actors, MatchInv, Types
<1>2. InMu(g)' /\ \A h \in Goroutines : h # g => ~InMu(h)' /\ pc'[h] \notin MuLabels
  BY <1>1 DEF MatchInv, Exclusive, InMu, Actors, MuLabels
<1>3. SureSync => SureSync'
  BY <1>0, <1>1, SureStays DEF InMu, Stay, Actors
<1>4. /\ script'["service"].at \notin {"idle", "ended"}
      /\ label = "disabling" => /\ script'["service"].kind = "disable"
                                /\ script'["service"].seen = present'
      /\ label = "restoring" =>
           /\ script'["service"].kind = "restore" /\ ~script'["service"].failed
           /\ ~filed => script'["service"].todo \cup script'["service"].seen
                          \subseteq script'["service"].waited
      /\ \A p \in Slots : p # "service" => script'[p] = script[p]
      /\ \A p \in Owner : ~Running(p)
      /\ overlap' = (overlap \/ Orphaned)
      /\ UNCHANGED <<enabled, present, filed, backup>>
  <2>1. CASE label = "disabling"
    BY <2>1, BeginsDisable
  <2>2. CASE label = "restoring"
    BY <2>2, BeginsRestore, SlotsAre DEF MatchInv, Exclusive
  <2> QED BY <2>1, <2>2
<1>5. Exclusive'
  <2>1. pc'["fixer"] = pc["fixer"] /\ script'["fixer"] = script["fixer"]
    BY <1>1, <1>4, SlotsAre DEF Goroutines, Actors
  <2>2. \A h, k \in Goroutines : InMu(h)' /\ InMu(k)' => h = k
    BY <1>2
  <2>3. \A h \in Goroutines : /\ pc'[h] = "disabling" => script'["service"].kind = "disable"
                              /\ pc'[h] = "restoring" => script'["service"].kind = "restore"
    BY <1>1, <1>2, <1>4 DEF MuLabels
  <2>4. ~filed' => backup' = NoRows
    BY <1>4 DEF MatchInv, Exclusive
  <2> QED BY <1>1, <2>1, <2>2, <2>3, <2>4 DEF MatchInv, Exclusive
<1>6. Honestly'
  <2> SUFFICES ASSUME ~overlap' PROVE Honestly'
    BY DEF Honestly
  <2>1. ~overlap /\ ~Orphaned /\ ~Orphaned'
    BY <1>4, SlotsAre DEF Orphaned, Running
  <2>2. \A p \in Slots : p # "service" => ~Running(p)'
    BY <1>4, <2>1, SlotsAre DEF Orphaned, Running
  <2>3. \A h \in Goroutines : pc'[h] \in {"disabling", "restoring"} => h = g /\ pc'[h] = label
    BY <1>1, <1>2 DEF MuLabels
  <2>4. ASSUME NEW p \in Slots, Running(p)', script'[p].kind = "restore", ~filed'
        PROVE  /\ ~script'[p].failed
               /\ script'[p].todo \cup script'[p].seen \subseteq script'[p].waited
    BY <1>4, <2>2, <2>4
  <2>5. script'["service"].kind = "disable" => script'["service"].seen = present'
    BY <1>4
  <2> QED BY <1>4, <2>1, <2>4 DEF Honestly
<1>7. Decided'
  <2>1. NicIPv6Wanted' = NicIPv6Wanted /\ closing' = closing /\ trusted' = trusted
        /\ WantConnected' = WantConnected
    BY DEF NicIPv6Wanted, WantConnected, cfgVars, wishVars
  <2>2. \A h \in Goroutines : h # g =>
          pc'[h] \notin {"disable", "disabling", "restore", "restoring"}
    BY <1>2 DEF MuLabels
  <2>3. label = "disabling" => NicIPv6Wanted \/ closing \/ SureSync
    BY DEF MatchInv, Decided
  <2>4. label = "restoring" => /\ ~NicIPv6Wanted \/ closing \/ SureSync
                               /\ ~trusted => g \in {"call", "run"} /\ ~WantConnected
    BY DEF MatchInv, Decided
  <2> QED BY <1>1, <1>3, <2>1, <2>2, <2>3, <2>4 DEF Decided
<1>8. Aligned'
  BY <1>2 DEF Aligned
<1> QED BY <1>5, <1>6, <1>7, <1>8 DEF MatchInv, Control

(* DisableNICIPv6 and RestoreNICIPv6 are called under nicMu.               *)
LEMMA DisableMatches ==
  ASSUME MatchInv, NicInv, NEW g \in Goroutines, Disable(g)
  PROVE  MatchInv'
<1>1. /\ pc[g] = "disable" /\ UNCHANGED <<cfgVars, wishVars, disturbed>>
      /\ script["service"].at = "idle" /\ InMu(g)
  BY NoScriptYet DEF Disable
<1>2. Control'
  BY DisableControl DEF MatchInv, Control
<1>3. CASE StartDisable("service") /\ Stay(g, "disabling") /\ UNCHANGED owed
  BY <1>1, <1>2, <1>3, BeginsAlignment
<1>4. CASE Disabled(g, TRUE) /\ UNCHANGED <<Quiet, enabled, files, script>>
  BY <1>1, <1>2, <1>4, DisabledMatches DEF MatchInv, Decided, Quiet, World, files
<1> QED BY <1>3, <1>4 DEF Disable

LEMMA RestoreMatches ==
  ASSUME MatchInv, NicInv, NEW g \in Goroutines, Restore(g)
  PROVE  MatchInv'
<1>1. /\ pc[g] = "restore" /\ UNCHANGED <<cfgVars, wishVars, disturbed>>
      /\ script["service"].at = "idle" /\ InMu(g)
  BY NoScriptYet DEF Restore
<1>2. Control'
  BY RestoreControl DEF MatchInv, Control
<1>3. CASE StartRestore("service") /\ Stay(g, "restoring") /\ UNCHANGED owed
  BY <1>1, <1>2, <1>3, BeginsAlignment
<1>4. CASE NothingToRestore /\ Restored(g, FALSE) /\ UNCHANGED nicVars
  BY <1>1, <1>2, <1>4, RestoredMatches
     DEF MatchInv, Decided, NothingToRestore, nicVars, files
<1>5. CASE Restored(g, TRUE) /\ UNCHANGED <<Quiet, enabled, files, script>>
  BY <1>1, <1>2, <1>5, RestoredMatches DEF MatchInv, Decided, Quiet, World, files
<1> QED BY <1>3, <1>4, <1>5 DEF Restore

(* The row of a script that is to be dropped does not come back: what      *)
(* began without a backup switches only waiting adapters on.               *)
Waiters(s) == /\ ~s.failed
              /\ s.at = "enable" => s.todo \cup s.seen \subseteq s.waited

(* What one line of a script does, as far as the decisions go.             *)
LEMMA LineOf ==
  ASSUME NicInv, NEW o \in Slots, ScriptStep(o), ~filed => backup = NoRows
  PROVE  /\ Running(o) /\ UNCHANGED <<present, overlap>>
         /\ \A p \in Slots : p # o => script'[p] = script[p]
         /\ o \notin Orphan => script'[o].at # "idle"
         /\ Active(script'[o]) => /\ script'[o].kind = script[o].kind
                                  /\ script[o].kind = "disable" => script'[o].seen = script[o].seen
         /\ ~filed' => backup' = NoRows
         /\ script[o].kind = "disable" /\ script'[o].at = "ended" /\ ~script'[o].failed =>
              \A n \in script[o].seen : ~enabled'[n]
         /\ script[o].kind = "restore" /\ script'[o].at = "ended" /\ ~script'[o].failed => ~filed'
         /\ script[o].kind = "restore" /\ ~filed /\ Waiters(script[o]) =>
              ~filed' /\ (Active(script'[o]) => Waiters(script'[o]))
         /\ filed /\ ~filed' /\ Active(script'[o]) => Waiters(script'[o])
<1> DEFINE Goal ==
         /\ Running(o) /\ UNCHANGED <<present, overlap>>
         /\ \A p \in Slots : p # o => script'[p] = script[p]
         /\ o \notin Orphan => script'[o].at # "idle"
         /\ Active(script'[o]) => /\ script'[o].kind = script[o].kind
                                  /\ script[o].kind = "disable" => script'[o].seen = script[o].seen
         /\ ~filed' => backup' = NoRows
         /\ script[o].kind = "disable" /\ script'[o].at = "ended" /\ ~script'[o].failed =>
              \A n \in script[o].seen : ~enabled'[n]
         /\ script[o].kind = "restore" /\ script'[o].at = "ended" /\ ~script'[o].failed => ~filed'
         /\ script[o].kind = "restore" /\ ~filed /\ Waiters(script[o]) =>
              ~filed' /\ (Active(script'[o]) => Waiters(script'[o]))
         /\ filed /\ ~filed' /\ Active(script'[o]) => Waiters(script'[o])
<1> SUFFICES Goal
  OBVIOUS
<1>0. /\ script[o] \in Scripts /\ KindOK(script[o]) /\ OnlyTheirs(script[o])
      /\ NoScript.at = "idle" /\ StoreType
  BY DEF NicInv, NoScript
<1> HIDE DEF Goal
<1>1. ASSUME NEW t, Set(o, t)
      PROVE  script'[o] = t /\ \A p \in Slots : p # o => script'[p] = script[p]
  BY <1>1, ScriptIs
<1>2. ASSUME NEW f \in BOOLEAN, NEW w, End(o, f, w)
      PROVE  /\ o \in Orphan => script'[o] = NoScript
             /\ o \notin Orphan => script'[o].at = "ended" /\ script'[o].failed = f
             /\ ~Active(script'[o])
             /\ \A p \in Slots : p # o => script'[p] = script[p]
  <2> DEFINE t == IF o \in Orphan THEN NoScript
                  ELSE [NoScript EXCEPT !.at = "ended", !.failed = f, !.bad = w]
  <2>1. script'[o] = t /\ \A p \in Slots : p # o => script'[p] = script[p]
    BY <1>1, <1>2 DEF End
  <2> QED BY <2>1, <1>0 DEF Active
<1>3. ASSUME NEW stage, At(o, stage)
      PROVE  /\ script'[o].at = stage /\ script'[o].kind = script[o].kind
             /\ script'[o].seen = script[o].seen /\ script'[o].failed = script[o].failed
             /\ \A p \in Slots : p # o => script'[p] = script[p]
  <2>1. /\ script'[o] = [script[o] EXCEPT !.at = stage]
        /\ \A p \in Slots : p # o => script'[p] = script[p]
    BY <1>1, <1>3 DEF At
  <2> QED BY <2>1
<1>a. CASE Evidence(o)
  <2>1. /\ At(o, IF script[o].kind = "disable" THEN "save" ELSE "list")
        /\ UNCHANGED <<present, overlap, enabled, filed, backup>>
    BY <1>a DEF Evidence, Quiet, World
  <2>2. script[o].at = "evidence" /\ script[o].kind \in {"disable", "restore"}
    BY <1>0, <1>a DEF Evidence, KindOK, Active
  <2> QED BY <1>3, <2>1, <2>2 DEF Goal, Running, Waiters
<1>b. CASE SaveBackup(o)
  <2>1. /\ script[o].at = "save" /\ script[o].kind = "disable"
        /\ UNCHANGED <<present, overlap, enabled>>
    BY <1>b, <1>0 DEF SaveBackup, KindOK, Active, RestoreStages, Quiet, World
  <2>2. CASE filed' = TRUE /\ At(o, IF script[o].moved # {} THEN "unlist" ELSE "strike")
    BY <1>3, <2>1, <2>2 DEF Goal, Running
  <2>3. CASE Throws(o) /\ UNCHANGED <<filed, backup>>
    BY <1>0, <1>2, <2>1, <2>3 DEF Goal, Running, Throws
  <2> QED BY <1>b, <2>2, <2>3 DEF SaveBackup
<1>c. CASE Unlist(o)
  <2>1. /\ script[o].at = "unlist" /\ script[o].kind = "disable"
        /\ UNCHANGED <<present, overlap, enabled, filed, backup>>
    BY <1>c, <1>0 DEF Unlist, KindOK, Active, RestoreStages, Quiet, World
  <2>2. CASE At(o, "strike")
    BY <1>3, <2>1, <2>2 DEF Goal, Running
  <2>3. CASE Throws(o)
    BY <1>0, <1>2, <2>1, <2>3 DEF Goal, Running, Throws
  <2> QED BY <1>c, <2>2, <2>3 DEF Unlist
<1>d. CASE Verify(o)
  <2>1. /\ script[o].at = "strike" /\ script[o].kind = "disable"
        /\ UNCHANGED <<present, overlap, enabled, filed, backup>>
    BY <1>d, <1>0 DEF Verify, KindOK, Active, RestoreStages, Quiet, World, files
  <2> DEFINE f == script[o].failed \/ \E n \in script[o].seen : enabled[n]
  <2>2. f \in BOOLEAN /\ End(o, f, script[o].bad)
    BY <1>d DEF Verify
  <2>3. ~f => \A n \in script[o].seen : ~enabled[n]
    OBVIOUS
  <2> HIDE DEF f
  <2> QED BY <1>0, <1>2, <2>1, <2>2, <2>3 DEF Goal, Running
<1>e. CASE Confirm(o)
  <2> DEFINE s == script[o]
             off == {n \in s.seen : ~enabled[n]}
             rows == [n \in Nic |-> IF n \in off \ s.waited THEN "on" ELSE s.rows[n]]
             t == [s EXCEPT !.at = IF s.bad # {} THEN "evidence" ELSE "list",
                     !.moved = @ \cup (off \cap s.waited), !.rows = rows,
                     !.failed = @ \/ off \ s.waited # {}]
  <2>1. /\ s.at = "enable" /\ s.kind = "restore"
        /\ UNCHANGED <<present, overlap, enabled, filed, backup>>
    BY <1>e, <1>0 DEF Confirm, KindOK, Active, DisableStages, Quiet, World, files
  <2>2. Set(o, t)
    BY <1>e DEF Confirm
  <2>3. /\ t.at \in {"evidence", "list"} /\ t.kind = s.kind
        /\ s.seen \subseteq s.waited /\ ~s.failed => ~t.failed
    <3> HIDE DEF rows
    <3> QED BY <1>0 DEF Scripts
  <2> HIDE DEF t
  <2> QED BY <1>1, <2>1, <2>2, <2>3 DEF Goal, Running, Waiters
<1>f. CASE List(o)
  <2>1. /\ script[o].at = "list" /\ script[o].kind = "restore"
        /\ UNCHANGED <<present, overlap, enabled, filed, backup>>
    BY <1>f, <1>0 DEF List, KindOK, Active, DisableStages, Quiet, World
  <2>2. CASE At(o, "drop")
    BY <1>3, <2>1, <2>2 DEF Goal, Running, Waiters
  <2>3. CASE Throws(o)
    BY <1>0, <1>2, <2>1, <2>3 DEF Goal, Running, Throws
  <2> QED BY <1>f, <2>2, <2>3 DEF List
<1>g. CASE Drop(o)
  <2>1. /\ script[o].at = "drop" /\ script[o].kind = "restore"
        /\ UNCHANGED <<present, overlap, enabled>>
    BY <1>g, <1>0 DEF Drop, KindOK, Active, DisableStages, Quiet, World
  <2>2. CASE ~script[o].failed /\ At(o, "report") /\ (NoBackup \/ UNCHANGED <<filed, backup>>)
    BY <1>3, <2>1, <2>2 DEF Goal, Running, Waiters, NoBackup
  <2>3. CASE script[o].failed /\ At(o, "report") /\ filed' = TRUE
    <3>1. ~Waiters(script[o]) /\ filed'
      BY <2>3 DEF Waiters
    <3>2. /\ script'[o].at = "report" /\ script'[o].kind = "restore"
          /\ \A p \in Slots : p # o => script'[p] = script[p]
      BY <1>3, <2>1, <2>3
    <3> QED BY <2>1, <3>1, <3>2 DEF Goal, Running
  <2>4. CASE Throws(o) /\ UNCHANGED <<filed, backup>> /\ script[o].failed
    BY <1>0, <1>2, <2>1, <2>4 DEF Goal, Running, Throws, Waiters
  <2> QED BY <1>g, <2>2, <2>3, <2>4 DEF Drop
<1>k. CASE Report(o)
  <2>1. /\ script[o].at = "report" /\ script[o].kind = "restore"
        /\ UNCHANGED <<present, overlap, enabled, filed, backup>>
    BY <1>k, <1>0 DEF Report, KindOK, Active, DisableStages, Quiet, World
  <2>2. CASE o \in Orphan
    <3>1. End(o, FALSE, {})
      BY <1>k, <2>2 DEF Report
    <3>2. /\ script'[o] = NoScript /\ ~Active(script'[o])
          /\ \A p \in Slots : p # o => script'[p] = script[p]
      BY <1>2, <2>2, <3>1
    <3> QED BY <1>0, <2>1, <2>2, <3>2 DEF Goal, Running
  <2>3. CASE o \notin Orphan
    <3> DEFINE t == [script[o] EXCEPT !.at = "sweep", !.bad = {}]
    <3>1. Set(o, t)
      BY <1>k, <2>3 DEF Report
    <3>2. t.at = "sweep" /\ t.kind = "restore" /\ t.failed = script[o].failed
      BY <1>0, <2>1 DEF Scripts
    <3> HIDE DEF t
    <3> QED BY <1>1, <2>1, <3>1, <3>2 DEF Goal, Running, Waiters
  <2> QED BY <2>2, <2>3
<1>h. CASE Sweep(o)
  <2>1. /\ script[o].at = "sweep" /\ script[o].kind = "restore"
        /\ UNCHANGED <<present, overlap, enabled>> /\ script[o].failed \in BOOLEAN
    BY <1>h, <1>0 DEF Sweep, KindOK, Active, DisableStages, Quiet, World, Scripts
  <2>2. CASE ~script[o].failed /\ End(o, FALSE, {}) /\ NoBackup
    BY <1>0, <1>2, <2>1, <2>2 DEF Goal, Running, NoBackup
  <2>3. CASE script[o].failed /\ End(o, TRUE, {}) /\ UNCHANGED <<filed, backup>>
    BY <1>0, <1>2, <2>1, <2>3 DEF Goal, Running, Waiters
  <2>4. CASE Throws(o) /\ UNCHANGED <<filed, backup>>
    BY <1>0, <1>2, <2>1, <2>4 DEF Goal, Running, Throws
  <2> QED BY <1>h, <2>1, <2>2, <2>3, <2>4 DEF Sweep
<1>i. ASSUME NEW n \in Nic, Strike(o, n)
      PROVE  Goal
  <2>1. /\ script[o].at = "strike" /\ script[o].kind = "disable"
        /\ UNCHANGED <<present, overlap, filed, backup>>
    BY <1>i, <1>0 DEF Strike, KindOK, Active, RestoreStages, Quiet, World, files
  <2>2. \/ Set(o, [script[o] EXCEPT !.todo = @ \ {n}])
        \/ Set(o, [script[o] EXCEPT !.todo = @ \ {n}, !.failed = TRUE])
    BY <1>i DEF Strike
  <2>3. ASSUME NEW t, \/ t = [script[o] EXCEPT !.todo = @ \ {n}]
                      \/ t = [script[o] EXCEPT !.todo = @ \ {n}, !.failed = TRUE]
        PROVE  t.at = "strike" /\ t.kind = "disable" /\ t.seen = script[o].seen
    BY <1>0, <2>1, <2>3 DEF Scripts
  <2>4. script'[o].at = "strike" /\ script'[o].kind = "disable" /\ script'[o].seen = script[o].seen
    BY <1>1, <2>2, <2>3
  <2> QED BY <1>1, <2>1, <2>2, <2>4 DEF Goal, Running
<1>j. ASSUME NEW n \in Nic, Enable(o, n)
      PROVE  Goal
  <2> DEFINE rest == [script[o] EXCEPT !.todo = @ \ {n}]
  <2>1. /\ script[o].at = "enable" /\ script[o].kind = "restore" /\ n \in script[o].todo
        /\ UNCHANGED <<present, overlap, filed, backup>>
    BY <1>j, <1>0 DEF Enable, KindOK, Active, DisableStages, Quiet, World, files
  <2>2. \/ Set(o, [rest EXCEPT !.seen = @ \cup {n}])
        \/ Set(o, Keep(rest, n))
        \/ Set(o, [rest EXCEPT !.moved = @ \cup {n}])
    BY <1>j DEF Enable
  <2>3. ASSUME NEW t, \/ t = [rest EXCEPT !.seen = @ \cup {n}]
                      \/ t = Keep(rest, n)
                      \/ t = [rest EXCEPT !.moved = @ \cup {n}]
        PROVE  /\ t.at = "enable" /\ t.kind = "restore"
               /\ Waiters(script[o]) => Waiters(t)
    <3>1. /\ rest.at = "enable" /\ rest.kind = "restore" /\ rest.failed = script[o].failed
          /\ rest.todo = script[o].todo \ {n} /\ rest.seen = script[o].seen
          /\ rest.waited = script[o].waited /\ rest \in Scripts
      BY <1>0, <2>1 DEF Scripts
    <3> HIDE DEF rest
    <3>2. CASE t = [rest EXCEPT !.seen = @ \cup {n}]
      BY <2>1, <3>1, <3>2 DEF Waiters
    <3>3. CASE t = Keep(rest, n)
      <4>1. /\ t.at = "enable" /\ t.kind = "restore" /\ t.todo = rest.todo
            /\ t.seen = rest.seen /\ t.waited = rest.waited
            /\ n \in rest.waited => t.failed = rest.failed
        BY <3>1, <3>3 DEF Keep, Scripts
      <4> QED BY <2>1, <3>1, <4>1 DEF Waiters
    <3>4. CASE t = [rest EXCEPT !.moved = @ \cup {n}]
      BY <2>1, <3>1, <3>4 DEF Waiters
    <3> QED BY <2>3, <3>2, <3>3, <3>4
  <2>4. /\ script'[o].at = "enable" /\ script'[o].kind = "restore"
        /\ Waiters(script[o]) => Waiters(script'[o])
    <3> HIDE DEF rest
    <3> QED BY <1>1, <2>2, <2>3
  <2> QED BY <1>1, <2>1, <2>2, <2>4 DEF Goal, Running
<1> QED
  BY <1>a, <1>b, <1>c, <1>d, <1>e, <1>f, <1>g, <1>h, <1>i, <1>j, <1>k
  DEF ScriptStep

(* A restore at work while there is no backup is like that.                *)
LEMMA AloneWaits ==
  ASSUME MatchInv, NicInv, NEW o \in Slots, Running(o), ~overlap
  PROVE  /\ \A p \in Slots : p # o => ~Running(p)
         /\ o \in Orphan => script["service"].at = "idle"
         /\ script[o].kind = "restore" /\ ~filed => Waiters(script[o])
<1>1. \A p \in Slots : p # o => ~Running(p)
  BY DEF NicInv, Alone
<1>2. o \in Orphan => Orphaned
  BY DEF Orphaned
<1> QED BY <1>1, <1>2 DEF MatchInv, Honestly, Waiters

(* A line of a script: of the alignment under way, of the tool, or of an   *)
(* orphan, which owes the service another alignment.                       *)
LEMMA ScriptingMatches ==
  ASSUME MatchInv, NicInv, NEW o \in Slots, Scripting(o)
  PROVE  MatchInv'
<1>0. Control'
  BY ScriptingControl DEF MatchInv, Control
<1>1. ScriptStep(o) /\ disturbed' = (disturbed \/ o = "fixer") /\ owed' = (owed \/ o \in Orphan)
      /\ UNCHANGED <<cfgVars, wishVars, recordVars, pc, ret, op, prev>>
  BY DEF Scripting, daemonVars, callVars
<1>2. /\ Running(o) /\ UNCHANGED <<present, overlap>>
      /\ \A p \in Slots : p # o => script'[p] = script[p]
      /\ o \notin Orphan => script'[o].at # "idle"
      /\ Active(script'[o]) => /\ script'[o].kind = script[o].kind
                               /\ script[o].kind = "disable" => script'[o].seen = script[o].seen
      /\ ~filed' => backup' = NoRows
      /\ script[o].kind = "disable" /\ script'[o].at = "ended" /\ ~script'[o].failed =>
           \A n \in script[o].seen : ~enabled'[n]
      /\ script[o].kind = "restore" /\ script'[o].at = "ended" /\ ~script'[o].failed => ~filed'
      /\ script[o].kind = "restore" /\ ~filed /\ Waiters(script[o]) =>
           ~filed' /\ (Active(script'[o]) => Waiters(script'[o]))
      /\ filed /\ ~filed' /\ Active(script'[o]) => Waiters(script'[o])
  BY <1>1, LineOf DEF MatchInv, Exclusive
<1>3. /\ NicIPv6Wanted' = NicIPv6Wanted /\ SureSync' = SureSync /\ Rebuilding' = Rebuilding
      /\ \A g \in Goroutines : InMu(g)' = InMu(g)
  BY <1>1
     DEF NicIPv6Wanted, WantConnected, SureSync, Rebuilding, C, InMu, cfgVars,
         wishVars
<1>4. Exclusive'
  <2>1. o = "service" => script["service"].kind \in {"disable", "restore"}
                           /\ script["service"].at # "ended"
    BY <1>2 DEF NicInv, KindOK, Active, Running
  <2>2. \A g \in Goroutines :
          /\ pc[g] = "disabling" =>
               script'["service"].at = "ended" \/ script'["service"].kind = "disable"
          /\ pc[g] = "restoring" =>
               script'["service"].at = "ended" \/ script'["service"].kind = "restore"
    <3>1. CASE o = "service"
      BY <1>2, <2>1, SlotsAre DEF MatchInv, Exclusive, Active
    <3>2. CASE o # "service"
      BY <1>2, <3>2, SlotsAre DEF MatchInv, Exclusive
    <3> QED BY <3>1, <3>2
  <2>3. script'["service"].at # "idle" => script["service"].at # "idle"
    BY <1>2, SlotsAre DEF Running
  <2>4. /\ script'["fixer"].at # "idle" => script["fixer"].at # "idle"
        /\ Active(script'["fixer"]) => Active(script["fixer"])
                                         /\ script'["fixer"].kind = script["fixer"].kind
    BY <1>2, SlotsAre DEF Running, Active
  <2> QED BY <1>1, <1>2, <1>3, <2>2, <2>3, <2>4 DEF MatchInv, Exclusive
<1>5. Honestly'
  <2> SUFFICES ASSUME ~overlap PROVE Honestly'
    BY <1>2 DEF Honestly
  <2>1. /\ \A p \in Slots : p # o => ~Running(p) /\ ~Running(p)'
        /\ o \in Orphan => script["service"].at = "idle"
        /\ script[o].kind = "restore" /\ ~filed => Waiters(script[o])
    BY <1>2, AloneWaits DEF Running
  <2>2. script'["service"].at # "idle" => ~Orphaned'
    <3>1. o \in Orphan => script'["service"].at = "idle"
      BY <1>2, <2>1, SlotsAre
    <3>2. o \notin Orphan => ~Orphaned'
      BY <2>1, SlotsAre DEF Orphaned
    <3> QED BY <3>1, <3>2
  <2>3. ASSUME NEW p \in Slots, Running(p)', script'[p].kind = "restore", ~filed'
        PROVE  /\ ~script'[p].failed
               /\ script'[p].at = "enable" =>
                    script'[p].todo \cup script'[p].seen \subseteq script'[p].waited
    <3>1. p = o /\ script[o].kind = "restore" /\ Active(script'[o])
      BY <1>2, <2>1, <2>3 DEF Running, Active
    <3>2. CASE ~filed
      BY <1>2, <2>1, <3>1, <3>2 DEF Waiters
    <3>3. CASE filed
      BY <1>2, <2>3, <3>1, <3>3 DEF Waiters
    <3> QED BY <3>2, <3>3
  <2>4. Running("service")' /\ script'["service"].kind = "disable" /\ ~disturbed' =>
          script'["service"].seen = present'
    <3>1. SUFFICES ASSUME Running("service")', script'["service"].kind = "disable", ~disturbed'
                   PROVE  script'["service"].seen = present
      BY <1>2
    <3>2. o = "service" /\ Active(script'[o]) /\ script[o].kind = "disable" /\ ~disturbed
      BY <1>1, <1>2, <2>1, <3>1, SlotsAre DEF Running, Active
    <3> QED BY <1>2, <3>2 DEF MatchInv, Honestly
  <2>5. ASSUME NEW g \in Goroutines, pc'[g] = "disabling", script'["service"].at = "ended",
               ~script'["service"].failed, ~disturbed'
        PROVE  Leakers' = {}
    <3>1. o \in {"service", "fixer"}
      BY <1>2, <2>1, <2>5, SlotsAre
    <3>2. o = "service"
      BY <1>1, <2>5, <3>1
    <3>3. script["service"].kind = "disable" /\ script["service"].seen = present
      BY <1>1, <1>2, <2>5, <3>2 DEF MatchInv, Exclusive, Honestly, Running
    <3> QED BY <1>2, <2>5, <3>2, <3>3 DEF Leakers
  <2>6. ASSUME NEW g \in Goroutines, pc'[g] = "restoring", script'["service"].at = "ended",
               ~script'["service"].failed
        PROVE  ~filed'
    <3>1. CASE o = "service"
      <4>1. script["service"].kind = "restore"
        BY <1>1, <1>2, <2>6, <3>1 DEF MatchInv, Exclusive, Running
      <4> QED BY <1>2, <2>6, <3>1, <4>1
    <3>2. CASE o = "fixer"
      <4>1. script'["service"] = script["service"] /\ ~filed
        BY <1>1, <1>2, <2>6, <3>2, SlotsAre DEF MatchInv, Honestly
      <4>2. script["fixer"].kind = "restore"
        BY <1>2, <3>2 DEF MatchInv, Exclusive, Running, Active
      <4> QED BY <1>2, <2>1, <3>2, <4>1, <4>2
    <3>3. CASE o \in Orphan
      BY <1>2, <2>1, <2>6, <3>3, SlotsAre
    <3> QED BY <3>1, <3>2, <3>3, SlotsAre
  <2> QED BY <2>2, <2>3, <2>4, <2>5, <2>6 DEF Honestly
<1>6. Decided'
  BY <1>1, <1>3 DEF MatchInv, Decided, cfgVars, wishVars, WantConnected
<1>7. Aligned'
  <2>1. CASE o = "service"
    <3>1. \E g \in Goroutines : InMu(g)
      BY <1>2, <2>1 DEF MatchInv, Exclusive, Running, InMu, MuLabels
    <3> QED BY <1>3, <3>1 DEF Aligned
  <2>2. CASE o = "fixer"
    <3> SUFFICES ASSUME ~overlap PROVE Aligned'
      BY <1>2 DEF Aligned
    <3>1. Orphaned' = Orphaned
      BY <1>2, <2>2, SlotsAre DEF Orphaned, Running
    <3>2. script["fixer"].kind = "restore"
      BY <1>2, <2>2 DEF MatchInv, Exclusive, Running, Active
    <3>3. ~filed => ~filed'
      BY <1>2, <2>2, <3>2, AloneWaits
    <3>4. Matched => Matched'
      BY <1>1, <1>3, <2>2, <3>3 DEF Matched
    <3> QED BY <1>1, <1>3, <3>1, <3>4 DEF MatchInv, Aligned, wishVars
  <2>3. CASE o \in Orphan
    BY <1>1, <2>3 DEF Aligned
  <2> QED BY <2>1, <2>2, <2>3, SlotsAre
<1> QED BY <1>0, <1>4, <1>5, <1>6, <1>7 DEF MatchInv, Control

(* What the tool does to scripts and files.                                *)
LEMMA FixerIs ==
  ASSUME MatchInv, NicInv, FixRestore
  PROVE  /\ UNCHANGED <<enabled, present, filed, backup>>
         /\ \A o \in Slots : o # "fixer" => script'[o] = script[o]
         /\ overlap \in BOOLEAN /\ (overlap => overlap')
         /\ script'["fixer"].at # "idle" => pc'["fixer"] = "fixing"
         /\ Active(script'["fixer"]) => script'["fixer"].kind = "restore"
         /\ Running("fixer")' /\ ~filed => ~script'["fixer"].failed /\
              script'["fixer"].todo \cup script'["fixer"].seen \subseteq script'["fixer"].waited
<1>1. overlap \in BOOLEAN /\ pc \in [Actors -> Labels] /\ "fixer" \in Actors
  BY DEF NicInv, StoreType, MatchInv, Types, Actors
<1>2. CASE pc["fixer"] = "fix" /\ StartRestore("fixer") /\ Fix("fixing")
  <2>1. pc'["fixer"] = "fixing"
    BY <1>1, <1>2 DEF Fix, Goto
  <2> QED BY <1>1, <1>2, <2>1, BeginsRestore, SlotsAre DEF MatchInv, Exclusive
<1>3. CASE pc["fixer"] = "fix" /\ UNCHANGED <<enabled, present, filed, backup, overlap, script>>
  <2>1. script["fixer"].at = "idle"
    BY <1>3 DEF MatchInv, Exclusive
  <2> QED BY <1>1, <1>3, <2>1 DEF Active, Running
<1>4. CASE Reap("fixer")
  BY <1>1, <1>4, ReapIs, SlotsAre DEF Active, Running
<1> QED BY <1>2, <1>3, <1>4 DEF FixRestore, nicVars, files, Quiet, World

(* The tool restores, and the service is excused until it aligns again.    *)
LEMMA FixRestoreMatches ==
  ASSUME MatchInv, NicInv, FixRestore
  PROVE  MatchInv'
<1>0. Control'
  BY FixRestoreControl DEF MatchInv, Control
<1>1. /\ UNCHANGED <<enabled, present, filed, backup>>
      /\ \A o \in Slots : o # "fixer" => script'[o] = script[o]
      /\ overlap \in BOOLEAN /\ (overlap => overlap')
      /\ script'["fixer"].at # "idle" => pc'["fixer"] = "fixing"
      /\ Active(script'["fixer"]) => script'["fixer"].kind = "restore"
      /\ Running("fixer")' /\ ~filed => ~script'["fixer"].failed /\
           script'["fixer"].todo \cup script'["fixer"].seen \subseteq script'["fixer"].waited
  BY FixerIs
<1>2. /\ UNCHANGED <<cfgVars, wishVars, recordVars, ret, op, prev, owed>> /\ disturbed' = TRUE
      /\ \A g \in Goroutines : pc'[g] = pc[g]
  <2>1. \E label : Fix(label)
    BY DEF FixRestore
  <2> QED BY <2>1 DEF FixRestore, Fix, Goto, callVars, Goroutines
<1>3. /\ NicIPv6Wanted' = NicIPv6Wanted /\ SureSync' = SureSync /\ Rebuilding' = Rebuilding
      /\ \A g \in Goroutines : InMu(g)' = InMu(g)
  BY <1>2
     DEF NicIPv6Wanted, WantConnected, SureSync, Rebuilding, C, InMu, cfgVars,
         wishVars, Goroutines
<1>4. script'["service"] = script["service"] /\ Orphaned' = Orphaned
  BY <1>1, SlotsAre DEF Orphaned, Running
<1>5. Exclusive'
  BY <1>1, <1>2, <1>3, <1>4 DEF MatchInv, Exclusive
<1>6. Honestly'
  <2> SUFFICES ASSUME ~overlap' PROVE Honestly'
    BY DEF Honestly
  <2>1. ~overlap /\ disturbed' = TRUE
    BY <1>1, <1>2
  <2>2. script'["service"].at # "idle" => ~Orphaned'
    BY <1>4, <2>1 DEF MatchInv, Honestly
  <2>3. ASSUME NEW o \in Slots, Running(o)', script'[o].kind = "restore", ~filed'
        PROVE  /\ ~script'[o].failed
               /\ script'[o].at = "enable" =>
                    script'[o].todo \cup script'[o].seen \subseteq script'[o].waited
    <3>1. CASE o = "fixer"
      BY <1>1, <2>3, <3>1
    <3>2. CASE o # "fixer"
      BY <1>1, <2>3 DEF MatchInv, Honestly, Running
    <3> QED BY <3>1, <3>2
  <2>4. \A g \in Goroutines : pc'[g] = "restoring" /\ script'["service"].at = "ended"
           /\ ~script'["service"].failed => ~filed'
    BY <1>1, <1>2, <1>4 DEF MatchInv, Honestly
  <2> QED BY <1>2, <2>2, <2>3, <2>4 DEF Honestly
<1>7. Decided'
  BY <1>2, <1>3 DEF MatchInv, Decided, cfgVars, wishVars, WantConnected
<1>8. Aligned'
  <2>1. Matched => Matched'
    BY <1>1, <1>2, <1>3 DEF Matched
  <2> QED BY <1>1, <1>2, <1>3, <1>4, <2>1 DEF MatchInv, Aligned, wishVars
<1> QED BY <1>0, <1>5, <1>6, <1>7, <1>8 DEF MatchInv, Control

(* After a power cut nothing runs; whatever is left is not yet aligned.    *)
LEMMA BlackoutMatches ==
  ASSUME MatchInv, NicInv, Blackout
  PROVE  MatchInv'
<1>1. /\ \A o \in Slots : script'[o].at = "idle"
      /\ UNCHANGED <<enabled, present, filed, backup, overlap>>
  BY SlotsAre DEF Blackout, PowerLoss, Quiet, World, files
<1>2. /\ pc' = [a \in Actors |-> CASE a = "boot" -> "dead" [] a = "run" -> "off" [] OTHER -> "idle"]
      /\ ret' = [g \in Goroutines |-> "idle"] /\ op' = "none" /\ prev' = Default
      /\ ~wanted' /\ ~bootWanted' /\ ~closing' /\ owed' /\ ~trusted' /\ settings' = Default
      /\ ~nicHold'
  BY DEF Blackout, Forget, Dead, Actors, Goroutines
<1>3. Types'
  <2>1. pc' \in [Actors -> Labels] /\ ret' \in [Goroutines -> Labels]
    BY <1>2 DEF Labels
  <2> QED BY <2>1 DEF Blackout, Forget, MatchInv, Types, Choices, Default
<1>4. /\ pc'["call"] = "idle" /\ pc'["run"] = "off" /\ pc'["loop"] = "idle" /\ pc'["boot"] = "dead"
      /\ pc'["fixer"] = "idle"
      /\ ret'["call"] = "idle" /\ ret'["run"] = "idle" /\ ret'["loop"] = "idle"
  BY <1>2 DEF Actors, Goroutines
<1>5. Places' /\ Returns' /\ CallShape'
  BY <1>2, <1>4 DEF Places, Returns, CallShape, C, SyncLabels, MuLabels
<1>6. Wish'
  BY <1>2, <1>4 DEF Wish, Rebuilding, C, RebuildLabels
<1>7. \A g \in Goroutines : pc'[g] \notin MuLabels
  BY <1>4 DEF Goroutines, MuLabels
<1>8. Exclusive'
  BY <1>1, <1>7, SlotsAre DEF MatchInv, Exclusive, InMu, MuLabels, Active
<1>9. Honestly' /\ Decided' /\ Aligned'
  BY <1>1, <1>2, <1>7, SlotsAre DEF Honestly, Decided, Aligned, Running, MuLabels
<1> QED BY <1>3, <1>5, <1>6, <1>8, <1>9 DEF MatchInv

-----------------------------------------------------------------------------
(* MatchInv holds always, and means NicMatches.                            *)

(* The service has not started yet.                                        *)
LEMMA MatchesInitially == Init => MatchInv
<1> SUFFICES ASSUME Init PROVE MatchInv
  OBVIOUS
<1>1. NicInv
  BY NicInitInv DEF Init
<1>2. \A o \in Slots : script[o].at = "idle"
  BY <1>1, SlotsAre DEF Init, NicInit
<1>3. /\ pc["call"] = "idle" /\ pc["run"] = "off" /\ pc["loop"] = "idle" /\ pc["boot"] = "dead"
      /\ pc["fixer"] = "idle" /\ ret["call"] = "idle" /\ ret["run"] = "idle" /\ ret["loop"] = "idle"
      /\ ret["boot"] = "idle"
      /\ pc \in [Actors -> Labels] /\ ret \in [Goroutines -> Labels]
  BY DEF Init, Actors, Goroutines, Labels
<1>4. Types
  BY <1>3 DEF Init, Types, Choices, Default
<1>5. Places /\ Returns /\ CallShape /\ Wish
  BY <1>3
     DEF Init, Places, Returns, CallShape, Wish, Rebuilding, C, SyncLabels,
         MuLabels, RebuildLabels
<1>6. \A g \in Goroutines : pc[g] \notin MuLabels
  BY <1>3 DEF Goroutines, MuLabels
<1>7. Exclusive
  BY <1>1, <1>6, SlotsAre DEF Init, NicInit, Exclusive, InMu, Active
<1>8. Honestly /\ Decided /\ Aligned
  BY <1>1, <1>2, SlotsAre DEF Init, Honestly, Decided, Aligned, Running
<1> QED BY <1>4, <1>5, <1>7, <1>8 DEF MatchInv

(* A step of others changes nothing.                                       *)
LEMMA StutterMatches ==
  ASSUME MatchInv, UNCHANGED vars
  PROVE  MatchInv'
<1>1. UNCHANGED <<orig, enabled, present, filed, backup, waiting, script, overlap>>
      /\ UNCHANGED <<disk, file, settings, trusted, wanted, bootWanted, closing, nicOff,
                     nicDisablePending, nicHold, pc, ret, op, prev, owed, disturbed>>
  BY DEF vars, nicVars, files, cfgVars, wishVars, recordVars, callVars
<1>2. Control' /\ Exclusive'
  BY <1>1
     DEF MatchInv, Control, Types, Places, Returns, CallShape, Wish, Rebuilding, C,
         Alive, Exclusive, InMu
<1>3. Honestly'
  BY <1>1 DEF MatchInv, Honestly, Orphaned, Running, Leakers
<1>4. Decided' /\ Aligned'
  BY <1>1
     DEF MatchInv, Decided, Aligned, Matched, NicIPv6Wanted, SureSync, Rebuilding,
         WantConnected, Leakers, InMu, C, Orphaned, Running
<1> QED BY <1>2, <1>3, <1>4 DEF MatchInv, Control

(* Every step of the service, the tool, the scripts and the machine.       *)
LEMMA NextMatches ==
  ASSUME MatchInv, NicInv, [Next]_vars
  PROVE  MatchInv'
<1>1. CASE UNCHANGED vars
  BY <1>1, StutterMatches
<1>2. ASSUME NEW g \in Actors, Progress(g)
      PROVE  MatchInv'
  <2>1. CASE g \in Goroutines /\ SyncStep(g)
    BY <2>1, SyncEnterMatches, SyncLockMatches, DisableMatches, DisableEndMatches,
       RestoreMatches, RestoreEndMatches DEF SyncStep
  <2>2. CASE LoopStep \/ HandlerStep
    BY <2>2, LoopLookMatches, LoopLockMatches, ConnectMatches, DisconnectMatches,
       HaltMatches, SaveMatches, RebuildMatches, UndoMatches, SettleMatches
       DEF LoopStep, HandlerStep
  <2>3. CASE BootStep
    BY <2>3, BootMatches, ReconcileMatches, AutoConnectMatches, DieMatches
       DEF BootStep, Exit
  <2>4. CASE FixStep
    BY <2>4, FixAskMatches, FixRestoreMatches, FixAnswerMatches DEF FixStep
  <2> QED BY <1>2, <2>1, <2>2, <2>3, <2>4, RunStepMatches DEF Progress
<1>3. CASE Stop \/ Kill \/ Blackout \/ Adapters
  BY <1>3, StopMatches, DieMatches, BlackoutMatches, AdaptersMatches DEF Kill
<1>4. CASE \/ \E o \in {"connect", "disconnect"} : Call(o, settings)
           \/ \E s \in Choices : Call("save", s)
           \/ \E guard \in BOOLEAN : FixStart(guard)
  BY <1>4, CallMatches, FixStartMatches DEF MatchInv, Types
<1>5. CASE \E o \in Slots : Scripting(o)
  BY <1>5, ScriptingMatches
<1> QED BY <1>1, <1>2, <1>3, <1>4, <1>5 DEF Next

(* So it holds always.                                                     *)
LEMMA ServiceMatches == Spec => []MatchInv
<1>1. MatchInv /\ NicInv /\ [Next]_vars => MatchInv'
  BY NextMatches
<1> QED
  BY MatchesInitially, <1>1, ServiceInv, PTL DEF Spec

(* When everybody has finished, nobody is about to decide anything.        *)
LEMMA SettledMeans ==
  ASSUME MatchInv, NicInv
  PROVE  NicMatches
<1> SUFFICES ASSUME Settled, ~owed, ~overlap
             PROVE  IF NicIPv6Wanted
                    THEN ~disturbed => Leakers = {}
                    ELSE /\ ~filed \/ disturbed
                         /\ \A n \in present \ (waiting \cup Struck) : enabled[n] = orig[n]
  BY DEF NicMatches
<1>1. ~closing /\ ~Orphaned /\ \A g \in Goroutines : ~InMu(g)
  BY SlotsAre DEF Settled, Orphaned, NicMuFree, InMu, MuLabels
<1>2. ~SureSync
  BY DEF Settled, SureSync, C, Cancelled
<1>3. ~Rebuilding
  BY DEF Settled, Rebuilding, C, RebuildLabels, MatchInv, CallShape, SyncLabels,
         MuLabels
<1>4. Matched
  BY <1>1, <1>2, <1>3 DEF MatchInv, Aligned
<1>5. CASE ~NicIPv6Wanted
  <2>1. ~filed /\ backup = NoRows
    BY <1>4, <1>5 DEF Matched, MatchInv, Exclusive
  <2>2. \A n \in present \ (waiting \cup Struck) : n \in Nic /\ backup[n] = "none"
    BY <2>1 DEF NicInv, StoreType, NoRows
  <2> QED BY <1>5, <2>1, <2>2 DEF NicInv, StoreType, OffStore, KeptStore, Lost
<1> QED BY <1>4, <1>5 DEF Matched

(* When everybody has finished, the adapters are as the settings and the   *)
(* user's wish demand: connected, none shows a public address; otherwise   *)
(* all are as the user had them (syncNICIPv6 and its callers,              *)
(* reconcileNICIPv6, nicIPv6Loop).                                         *)
THEOREM AdaptersAlwaysMatch == Spec => []NicMatches
<1>1. MatchInv /\ NicInv => NicMatches
  BY SettledMeans
<1> QED
  BY <1>1, ServiceMatches, ServiceInv, PTL

-----------------------------------------------------------------------------
(* The budgets of the model.                                               *)
CallBounds == Bounds /\ calls \in 0 .. MaxCalls

(* A budget is spent one by one.                                           *)
LEMMA FaultsSpent ==
  ASSUME [Next]_vars
  PROVE  /\ faults' = faults \/ Fault
         /\ plugs' = plugs \/ (plugs > 0 /\ plugs' = plugs - 1)
         /\ calls' = calls \/ (calls > 0 /\ calls' = calls - 1)
<1>1. CASE UNCHANGED vars
  BY <1>1 DEF vars, nicVars, callVars
<1>2. ASSUME NEW g \in Goroutines, SyncStep(g)
      PROVE  UNCHANGED <<plugs, calls>> /\ (faults' = faults \/ Fault)
  BY <1>2
     DEF SyncStep, SyncEnter, SyncLock, Disable, DisableEnd, Restore, RestoreEnd,
         StartDisable, StartRestore, Reap, nicVars, Quiet, World
<1>3. ASSUME RunStep \/ LoopStep \/ HandlerStep
      PROVE  UNCHANGED <<plugs, calls>> /\ (faults' = faults \/ Fault)
  BY <1>3
     DEF RunStep, LoopStep, LoopLook, LoopLock, HandlerStep, Connect, Disconnect,
         Halt, Save, Rebuild, Undo, Settle, nicVars, Quiet, World, NoFault, callVars
<1>4. ASSUME Die
      PROVE  UNCHANGED <<plugs, calls>>
  BY <1>4 DEF Die, Dies, Forget, Outlive, Quiet, World
<1>5. ASSUME BootStep \/ Stop \/ Kill \/ Blackout \/ Adapters
      PROVE  /\ faults' = faults \/ Fault
             /\ plugs' = plugs \/ (plugs > 0 /\ plugs' = plugs - 1)
             /\ calls' = calls
  BY <1>4, <1>5
     DEF BootStep, Boot, Reconcile, AutoConnect, Exit, Stop, Kill, Blackout,
         Adapters, Forget, PowerLoss, Plug, Damage, nicVars, Quiet, World, NoFault,
         callVars, daemonVars
<1>6. ASSUME FixStep \/ (\E guard \in BOOLEAN : FixStart(guard))
      PROVE  /\ faults' = faults \/ Fault
             /\ plugs' = plugs
             /\ calls' = calls \/ (calls > 0 /\ calls' = calls - 1)
  BY <1>6
     DEF FixStep, FixAsk, FixRestore, FixAnswer, Fix, FixStart, StartRestore, Reap,
         nicVars, Quiet, World, callVars
<1>7. ASSUME NEW o, NEW s, Call(o, s)
      PROVE  UNCHANGED <<faults, plugs>> /\ calls > 0 /\ calls' = calls - 1
  BY <1>7 DEF Call, nicVars
<1>8. ASSUME NEW o \in Slots, Scripting(o)
      PROVE  UNCHANGED <<plugs, calls>> /\ (faults' = faults \/ Fault)
  BY <1>8
     DEF Scripting, daemonVars, callVars, ScriptStep, Evidence, SaveBackup, Unlist,
         Strike, Verify, Enable, Confirm, List, Drop, Report, Sweep, Throws, Quiet,
         World, NoFault
<1> QED BY <1>1, <1>2, <1>3, <1>5, <1>6, <1>7, <1>8 DEF Next, Progress

(* No budget is overdrawn.                                                 *)
LEMMA CallBoundsKept == Spec => []CallBounds
<1>1. Init => CallBounds
  BY NicConstants, ServiceConstants DEF Init, NicInit, CallBounds, Bounds
<1>2. CallBounds /\ [Next]_vars => CallBounds'
  BY FaultsSpent, NicConstants, ServiceConstants DEF CallBounds, Bounds, Fault
<1> QED
  BY <1>1, <1>2, PTL DEF Spec

(* Every variable of the service and the tool stays in its domain.         *)
THEOREM NicTypesCorrect == Spec => []TypeOK
<1>1. NicInv /\ MatchInv /\ CallBounds => TypeOK
  BY InvMeans DEF TypeOK, MatchInv, Types, CallBounds
<1> QED
  BY <1>1, ServiceInv, ServiceMatches, CallBoundsKept, PTL

=============================================================================

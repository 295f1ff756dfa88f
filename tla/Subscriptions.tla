--------------------------- MODULE Subscriptions ---------------------------
(***************************************************************************)
(* Subscriptions and their lists of nodes: what the settings name, what    *)
(* the cache holds, what a configuration was prepared from and what the    *)
(* running core uses (internal/daemon/daemon.go, manual.go, refresh.go).   *)
(*                                                                         *)
(* Three goroutines share them: a control handler, the timed refresh, and  *)
(* the connection loop.  All of them fetch, two of them ask for restarts,  *)
(* and only the loop starts the core.  The interface sends one request at  *)
(* a time, so there is one handler.  What ConnMachine says of the machine  *)
(* is reduced to its lock, its intent and the loop.                        *)
(***************************************************************************)
EXTENDS Naturals, FiniteSets

CONSTANTS
  Subs,  \* identifiers of subscriptions
  Bounds \* how many requests, changes at the panel, stale caches and setbacks

None == "none"

ASSUME SubConstants == Subs # {} /\ None \notin Subs

Manual == "by hand"   \* the address of the list the user keeps himself
Urls == {"u", "v"}

\* What the lists say of their nodes: all a node has is one parameter.
Nodes == [both |-> [x |-> 1, y |-> 1], moved |-> [x |-> 2, y |-> 1], fewer |-> [y |-> 1]]
Lists == DOMAIN Nodes
Tags == UNION {DOMAIN Nodes[l] : l \in Lists}
Offers == Lists \cup {"gone"}   \* the subscription is no longer valid

Profile(url, list) == [url |-> url, list |-> list]
NoProfile == Profile(None, None)
Profiles == [url : Urls \cup {Manual}, list : Lists] \cup {NoProfile}
NoCore == [list |-> None, of |-> None, choice |-> None, borrowed |-> FALSE]
Nothing == [list |-> None, of |-> None, current |-> FALSE]   \* no d.prepared

Threads == {"handler", "timer", "loop"}
\* at: where it is; op, id, arg: what for; url: what it fetches; was: the profile it
\* works with; had: the list before it fetched; on: whom it waits for; inner: within prepare; coherent:
\* the settings are those prepare began with.
Idle == [at |-> "idle", op |-> None, id |-> None, arg |-> None, url |-> None, was |-> NoProfile,
         had |-> None, on |-> None, inner |-> FALSE, coherent |-> FALSE]

VARIABLES
  subs,       \* Settings.Profiles: the address of each subscription
  active,     \* Settings.ActiveProfile
  selected,   \* Settings.Selected: a tag, or "auto"
  wanted,     \* machine.wanted, and its copy on disk
  cache,      \* d.profiles and the files behind it
  offer,      \* what the panel answers at each address
  core,       \* the running core: its list, whose that is, the choice of its group, and whether
              \* recoverRoute made that choice (history)
  remembered, \* the choice the core keeps in cache.db
  running,    \* d.running
  prepared,   \* d.prepared, whose it is, and whether the settings are still its settings
  fetching,   \* d.refreshing: who is refreshing each subscription
  opMu,       \* who holds machine.opMu
  pre,        \* machine.pre
  halted,     \* the loop's context is cancelled
  th,         \* the goroutines
  failed,     \* a request has failed half way, and its caller knows
  budget      \* what is left of the bounds

settingVars == <<subs, active, selected>>
coreVars == <<core, remembered, running>>
loopVars == <<wanted, opMu, pre, halted>>
subVars == <<settingVars, coreVars, loopVars, cache, offer, prepared, fetching, th, failed, budget>>

Exists(id) == subs[id] # None
Active == IF active = None THEN NoProfile ELSE cache[active]
CacheOK == Active # NoProfile /\ Active.url = subs[active]

\* mutant: a node that is gone stays chosen
FaultyDefaultSelected(list, tag) == tag

DefaultSelected(list, tag) == IF tag \in DOMAIN Nodes[list] THEN tag ELSE "auto"

Goto(t, pc) == th' = [th EXCEPT ![t].at = pc]
Ends(t) == th' = [th EXCEPT ![t] = Idle]
Spend(what) == budget[what] > 0 /\ budget' = [budget EXCEPT ![what] = @ - 1]

(***************************************************************************)
(* Settings.  start() keeps others from publishing settings while it runs; *)
(* whoever is preparing finds out at the end that they have changed.       *)
(***************************************************************************)
Starting == th["loop"].at \in {"preset", "started"}

\* Validate: the active subscription exists, if any does.
SetSettings(next, newSubs, newActive, newSelected) ==
  LET left == {id \in Subs : newSubs[id] # None} IN
  /\ ~Starting
  /\ subs' = newSubs /\ selected' = newSelected
  /\ active' \in IF newActive \in left THEN {newActive} ELSE IF left = {} THEN {None} ELSE left
  /\ prepared' = [prepared EXCEPT !.current = FALSE]
  /\ th' = [t \in Threads |-> IF t = "handler" THEN next ELSE [th[t] EXCEPT !.coherent = FALSE]]

(***************************************************************************)
(* fetchProfile: through the current node, the automatic group, and at     *)
(* last past the tunnel.  Any of these may fail; what they bring is what   *)
(* the panel offers then, and a 404 or a body without nodes is nothing.    *)
(***************************************************************************)
Fetched(url) ==
  {NoProfile} \cup IF offer[url] \in Lists THEN {Profile(url, offer[url])} ELSE {}

(***************************************************************************)
(* refreshProfile: one fetch of a subscription at a time; who comes later  *)
(* waits, and shares the success or failure but not the change.            *)
(***************************************************************************)
After(r, ok, changed) ==
  IF r.inner
  THEN [r EXCEPT !.on = None, !.at = IF ok THEN "reread" ELSE IF r.was = NoProfile THEN "unprepared" ELSE "build"]
  ELSE IF changed THEN [r EXCEPT !.on = None, !.was = NoProfile, !.at = "after"] ELSE Idle

\* t's call returns; own is what becomes of t, the others wake up.
Return(t, own, ok) ==
  LET done == {id \in Subs : fetching[id] = t} IN
  /\ fetching' = [id \in Subs |-> IF id \in done THEN None ELSE fetching[id]]
  /\ th' = [u \in Threads |->
       IF u = t THEN own
       ELSE IF done # {} /\ th[u].on = t THEN After(th[u], ok, FALSE)
       ELSE th[u]]

Refresh(t) ==
  LET id == th[t].id IN
  /\ th[t].at = "refresh"
  /\ \/ /\ fetching[id] # None
        /\ th' = [th EXCEPT ![t].at = "waiting", ![t].on = fetching[id]]
        /\ UNCHANGED fetching
     \/ /\ fetching[id] = None /\ subs[id] \notin Urls
        /\ th' = [th EXCEPT ![t] = After(@, subs[id] = Manual /\ cache[id] # NoProfile, FALSE)]
        /\ UNCHANGED fetching
     \/ /\ fetching[id] = None /\ subs[id] \in Urls
        /\ fetching' = [fetching EXCEPT ![id] = t]
        /\ th' = [th EXCEPT ![t].at = "fetch", ![t].url = subs[id], ![t].had = cache[id].list]
  /\ UNCHANGED <<settingVars, coreVars, loopVars, cache, offer, prepared, failed, budget>>

\* setProfileCache, whatever address the list came from
Refreshed(t) ==
  LET r == th[t] IN
  /\ r.at = "fetch" /\ r.op \notin {"add", "rename"}
  /\ \E new \in Fetched(r.url) :
       /\ cache' = IF new = NoProfile THEN cache ELSE [cache EXCEPT ![r.id] = new]
       /\ Return(t, After([r EXCEPT !.url = None, !.had = None], new # NoProfile, r.had # new.list), new # NoProfile)
  /\ UNCHANGED <<settingVars, coreVars, loopVars, offer, prepared, failed, budget>>

\* decideRefresh: restart only when the node in use is gone or not the same
Current == IF core.choice = "auto" THEN DOMAIN Nodes[core.list] ELSE {core.choice}
Reconnects(fresh, node) ==
  /\ running # None /\ running # fresh
  /\ \/ node \notin DOMAIN Nodes[fresh]
     \/ node \in DOMAIN Nodes[running] /\ Nodes[running][node] # Nodes[fresh][node]

AfterRefresh(t) ==
  LET id == th[t].id IN
  /\ th[t].at = "after"
  /\ IF id = active /\ core # NoCore /\ cache[id] # NoProfile
     THEN \E node \in Current : IF Reconnects(cache[id].list, node) THEN Goto(t, "prepare") ELSE Ends(t)
     ELSE Ends(t)
  /\ UNCHANGED <<settingVars, coreVars, loopVars, cache, offer, prepared, fetching, failed, budget>>

(***************************************************************************)
(* prepare: refresh if it must, then render the profile at hand            *)
(***************************************************************************)
\* A cache grows stale once the subscription's interval is over.
GrowsStale == CacheOK /\ subs[active] # Manual /\ Spend("stale")

\* refreshBeforeStart: what is stale is fetched again, but not with the guard on.
Prepare(t) ==
  /\ th[t].at = "prepare"
  /\ \/ /\ t # "loop" /\ ~wanted
        /\ Ends(t) /\ UNCHANGED budget
     \/ /\ (t # "loop" => wanted) /\ active = None
        /\ Goto(t, "unprepared") /\ UNCHANGED budget
     \/ /\ (t # "loop" => wanted) /\ active # None
        /\ \E pc \in {"refresh", "build"} :
             /\ IF pc = "build" THEN CacheOK /\ UNCHANGED budget
                ELSE IF CacheOK THEN GrowsStale ELSE UNCHANGED budget
             /\ LET was == IF CacheOK THEN Active ELSE NoProfile
                    r == IF th[t].op = "choose" THEN th[t] ELSE Idle IN
                th' = [th EXCEPT ![t] = [r EXCEPT !.at = pc, !.id = active, !.was = was, !.inner = TRUE, !.coherent = TRUE]]
  /\ UNCHANGED <<settingVars, coreVars, loopVars, cache, offer, prepared, fetching, failed>>

\* The cache is read again; what the active subscription has no list for is nil.
Reread(t) ==
  /\ th[t].at = "reread"
  /\ th' = [th EXCEPT ![t].was = Active, ![t].at = IF Active = NoProfile THEN "nil" ELSE "build"]
  /\ UNCHANGED <<settingVars, coreVars, loopVars, cache, offer, prepared, fetching, failed, budget>>

\* mutant: what is prepared counts as running at once
FaultyPublish(t) ==
  /\ th[t].at = "build" /\ ~Starting
  /\ IF th[t].coherent
     THEN /\ prepared' = [list |-> th[t].was.list, of |-> th[t].id, current |-> TRUE] /\ running' = th[t].was.list
          /\ th' = [th EXCEPT ![t] = [Idle EXCEPT !.at = IF t = "loop" THEN "ready" ELSE "swap", !.was = th[t].was]]
     ELSE Goto(t, "unprepared") /\ UNCHANGED <<prepared, running>>
  /\ UNCHANGED <<settingVars, core, remembered, loopVars, cache, offer, fetching, failed, budget>>

\* The configuration is published unless the settings have moved meanwhile; when they
\* move between the check and the publication, it is as if they moved just after it.
Publish(t) ==
  /\ th[t].at = "build" /\ ~Starting
  /\ IF th[t].coherent
     THEN /\ prepared' = [list |-> th[t].was.list, of |-> th[t].id, current |-> TRUE]
          /\ th' = [th EXCEPT ![t] = [Idle EXCEPT !.at = IF t = "loop" THEN "ready" ELSE "swap", !.was = th[t].was]]
     ELSE Goto(t, "unprepared") /\ UNCHANGED prepared
  /\ UNCHANGED <<settingVars, coreVars, loopVars, cache, offer, fetching, failed, budget>>

(***************************************************************************)
(* The data plane: Restart, the loop, and stopLoop                         *)
(***************************************************************************)
StopCore == core' = NoCore /\ running' = None /\ UNCHANGED remembered

\* Restart gives up and leaves the core as it is; the loop cleans up and tries again.
PrepareFails(t) ==
  /\ th[t].at = "unprepared"
  /\ IF t = "loop" THEN StopCore /\ Goto(t, "look") /\ UNCHANGED failed
     ELSE /\ failed' = (failed \/ (t = "handler" /\ th[t].op # "choose"))
          /\ IF th[t].op = "choose" THEN Goto(t, "rollback") ELSE Ends(t)
          /\ UNCHANGED coreVars
  /\ UNCHANGED <<settingVars, loopVars, cache, offer, prepared, fetching, budget>>

Swap(t) ==
  /\ th[t].at = "swap" /\ opMu = None
  /\ IF wanted THEN /\ opMu' = t /\ pre' = th[t].was /\ halted' = TRUE
                    /\ Goto(t, "swapping") /\ UNCHANGED wanted
     ELSE Ends(t) /\ UNCHANGED loopVars
  /\ UNCHANGED <<settingVars, coreVars, cache, offer, prepared, fetching, failed, budget>>

Swapped(t) ==
  /\ th[t].at = "swapping" /\ th["loop"].at = "idle"
  /\ StopCore /\ opMu' = None /\ halted' = FALSE
  /\ th' = [th EXCEPT ![t] = Idle, !["loop"].at = "look"]
  /\ UNCHANGED <<wanted, pre, settingVars, cache, offer, prepared, fetching, failed, budget>>

Look ==
  /\ th["loop"].at = "look" /\ ~halted
  /\ pre' = NoProfile
  /\ th' = [th EXCEPT !["loop"] = [Idle EXCEPT !.at = IF pre = NoProfile THEN "prepare" ELSE "ready", !.was = pre]]
  /\ UNCHANGED <<wanted, opMu, halted, settingVars, coreVars, cache, offer, prepared, fetching, failed, budget>>

Choice == DefaultSelected(prepared.list, selected)

\* preparedMatchesCurrent, then PresetCache, which may fail
StartBegins ==
  /\ th["loop"].at = "ready" /\ ~halted
  /\ IF prepared.current /\ prepared.list = th["loop"].was.list
     THEN Goto("loop", "preset") /\ remembered' \in {remembered, Choice} /\ UNCHANGED <<core, running>>
     ELSE Goto("loop", "unprepared") /\ UNCHANGED coreVars
  /\ UNCHANGED <<settingVars, loopVars, cache, offer, prepared, fetching, failed, budget>>

\* The core believes its own cache before its configuration.
StartCore ==
  /\ th["loop"].at = "preset"
  /\ \/ /\ core' = [list |-> prepared.list, of |-> prepared.of, borrowed |-> FALSE,
                   choice |-> DefaultSelected(prepared.list, remembered)]
        /\ Goto("loop", "started") /\ UNCHANGED <<remembered, running, budget>>
     \/ Spend("setbacks") /\ Goto("loop", "unprepared") /\ UNCHANGED coreVars
  /\ UNCHANGED <<settingVars, loopVars, cache, offer, prepared, fetching, failed>>

\* mutant: what cache.db remembered stays in force
FaultyStartDone ==
  /\ th["loop"].at = "started"
  /\ running' = prepared.list /\ failed' = FALSE
  /\ th' = [th EXCEPT !["loop"] = [Idle EXCEPT !.at = "up"]]
  /\ UNCHANGED <<core, remembered, settingVars, loopVars, cache, offer, prepared, fetching, budget>>

\* The choice is put right, and what the core uses becomes known.
StartDone ==
  /\ th["loop"].at = "started"
  /\ core' = [core EXCEPT !.choice = Choice] /\ remembered' = Choice
  /\ running' = prepared.list
  /\ failed' = FALSE
  /\ th' = [th EXCEPT !["loop"] = [Idle EXCEPT !.at = "up"]]
  /\ UNCHANGED <<settingVars, loopVars, cache, offer, prepared, fetching, budget>>

\* The node the user chose does not answer: recoverRoute looks which of the others do.
LooksForAnother ==
  /\ th["loop"].at = "up" /\ th["loop"].arg = None /\ selected # "auto" /\ Spend("setbacks")
  /\ th' = [th EXCEPT !["loop"].arg = selected]
  /\ UNCHANGED <<settingVars, coreVars, loopVars, cache, offer, prepared, fetching, failed>>

\* That takes up to 45 s.  Then the core is told to use another node than the one that
\* was chosen when it began; the settings keep the user's choice, nothing switches back.
RecoverRoute ==
  /\ th["loop"].at = "up" /\ th["loop"].arg # None
  /\ th' = [th EXCEPT !["loop"].arg = None]
  /\ \/ \E best \in DOMAIN Nodes[core.list] \ {th["loop"].arg} :
          core' = [core EXCEPT !.choice = best, !.borrowed = TRUE] /\ remembered' = best /\ UNCHANGED running
     \/ UNCHANGED coreVars
  /\ UNCHANGED <<settingVars, loopVars, cache, offer, prepared, fetching, failed, budget>>

Rebuild ==
  /\ th["loop"].at = "up" /\ th["loop"].arg = None /\ Spend("setbacks")
  /\ StopCore /\ Goto("loop", "look")
  /\ UNCHANGED <<settingVars, loopVars, cache, offer, prepared, fetching, failed>>

\* mutant: a cancelled refresh does not say that it is over
FaultyLoopExits ==
  /\ halted /\ th["loop"].at # "idle" /\ ~Starting
  /\ Ends("loop")
  /\ UNCHANGED <<fetching, settingVars, coreVars, loopVars, cache, offer, prepared, failed, budget>>

\* A cancelled loop ends wherever it is, but not within start().
LoopExits ==
  /\ halted /\ th["loop"].at # "idle" /\ ~Starting
  /\ Return("loop", Idle, FALSE)
  /\ UNCHANGED <<settingVars, coreVars, loopVars, cache, offer, prepared, failed, budget>>

(***************************************************************************)
(* The requests of the interface                                           *)
(***************************************************************************)
Ask(op, pc, id, arg) ==
  th' = [th EXCEPT !["handler"] = [Idle EXCEPT !.at = pc, !.op = op, !.id = id, !.arg = arg]]

\* NewID: an identifier nobody knows; it is drawn at random, and not drawn again
New(id) ==
  /\ ~Exists(id) /\ core.of # id /\ prepared.of # id
  /\ \A t \in Threads : th[t].id # id

Request ==
  /\ th["handler"].at = "idle" /\ Spend("requests")
  /\ \/ \E id \in Subs, url \in Urls : New(id) /\ Ask("add", "fetch", id, url)
     \/ \E id \in Subs, url \in Urls :
          /\ subs[id] \in Urls /\ (url # subs[id] \/ cache[id] = NoProfile)
          /\ Ask("rename", "fetch", id, url)
     \/ \E id \in Subs : Exists(id) /\ Ask("remove", "save", id, None)
     \/ \E id \in Subs : Exists(id) /\ id # active /\ Ask("choose", "save", id, active)
     \/ \E tag \in Tags \cup {"auto"} : Ask("node", "save", None, tag)
     \/ \E id \in Subs : Exists(id) /\ Ask("refresh", "refresh", id, None)
     \/ \E id \in Subs : subs[id] = Manual /\ Ask("edit", "save", id, None)
     \/ \E id \in Subs : New(id) /\ (\A i \in Subs : subs[i] # Manual) /\ Ask("edit", "save", id, None)
     \/ Ask("device", "save", None, None)
     \/ active # None /\ ~wanted /\ Ask("connect", "connect", None, None)
     \/ wanted /\ Ask("disconnect", "disconnect", None, None)
  /\ UNCHANGED <<settingVars, coreVars, loopVars, cache, offer, prepared, fetching, failed>>

\* MAddProfile and MRenameProfile fetch first: what cannot be had changes nothing.
SaveFetched ==
  LET r == th["handler"] IN
  /\ r.at = "fetch" /\ r.op \in {"add", "rename"}
  /\ \E new \in Fetched(r.arg) :
       IF new = NoProfile THEN Ends("handler") /\ UNCHANGED <<settingVars, prepared>>
       ELSE SetSettings([r EXCEPT !.at = "store", !.was = new], [subs EXCEPT ![r.id] = r.arg],
                        IF active = None THEN r.id ELSE active, selected)
  /\ UNCHANGED <<coreVars, loopVars, cache, offer, fetching, failed, budget>>

\* Then the cache; a first subscription, or a new address of the active one, restarts.
Store ==
  LET r == th["handler"] IN
  /\ r.at = "store"
  /\ cache' = [cache EXCEPT ![r.id] = r.was]
  /\ IF r.op = "edit" THEN Goto("handler", "after")
     ELSE IF r.id = active /\ (r.op = "rename" \/ \A i \in Subs \ {r.id} : ~Exists(i)) THEN Goto("handler", "prepare")
     ELSE Ends("handler")
  /\ UNCHANGED <<settingVars, coreVars, loopVars, offer, prepared, fetching, failed, budget>>

\* saveManualNodes, removeManualNode: a node chosen by hand that is gone is no longer chosen.
SaveEdit ==
  LET r == th["handler"] IN
  /\ r.at = "save" /\ r.op = "edit"
  /\ \E list \in Lists \ {cache[r.id].list} :
       SetSettings([r EXCEPT !.at = "store", !.was = Profile(Manual, list), !.op = IF Exists(r.id) THEN @ ELSE "add"],
                   [subs EXCEPT ![r.id] = Manual], IF active = None THEN r.id ELSE active,
                   IF r.id = active /\ selected \notin DOMAIN Nodes[list] THEN "auto" ELSE selected)
  /\ UNCHANGED <<coreVars, loopVars, cache, offer, fetching, failed, budget>>

SaveRest ==
  LET r == th["handler"]
      To(pc) == [r EXCEPT !.at = pc] IN
  /\ r.at = "save"
  /\ \/ r.op = "remove" /\ SetSettings(To(IF r.id = active THEN "drop" ELSE "dropOther"), [subs EXCEPT ![r.id] = None], active, selected)
     \/ r.op = "choose" /\ SetSettings(To("prepare"), subs, r.id, selected)
     \/ r.op = "node" /\ SetSettings(To("switch"), subs, active, r.arg)
     \/ r.op = "device" /\ SetSettings(IF core = NoCore THEN Idle ELSE To("prepare"), subs, active, selected)
  /\ UNCHANGED <<coreVars, loopVars, cache, offer, fetching, failed, budget>>

\* MRemoveProfile: without a subscription there is nothing to be connected to.
Drop ==
  LET r == th["handler"] IN
  /\ r.at \in {"drop", "dropOther"}
  /\ cache' = [cache EXCEPT ![r.id] = NoProfile]
  /\ IF r.at = "dropOther" THEN Ends("handler") ELSE Goto("handler", IF active = None THEN "disconnect" ELSE "prepare")
  /\ UNCHANGED <<settingVars, coreVars, loopVars, offer, prepared, fetching, failed, budget>>

\* MSelectProfile takes its choice back when no configuration could be had.  A loop
\* that was connecting meanwhile may have started the core with the choice.
Rollback ==
  LET r == th["handler"] IN
  /\ r.at = "rollback"
  /\ SetSettings(Idle, subs, r.arg, selected)
  /\ failed' = (failed \/ core.of # r.arg)
  /\ UNCHANGED <<coreVars, loopVars, cache, offer, fetching, budget>>

\* needRebuildFor: the core does not have the node, or not with these parameters.
NeedsRebuild(tag) ==
  /\ tag # "auto"
  /\ \/ tag \notin DOMAIN Nodes[core.list]
     \/ /\ running # None /\ Active # NoProfile
        /\ tag \in DOMAIN Nodes[running] \cap DOMAIN Nodes[Active.list]
        /\ Nodes[running][tag] # Nodes[Active.list][tag]

SwitchNode ==
  LET tag == th["handler"].arg IN
  /\ th["handler"].at = "switch"
  /\ IF core = NoCore THEN Ends("handler") /\ UNCHANGED coreVars
     ELSE IF NeedsRebuild(tag) THEN Goto("handler", "prepare") /\ UNCHANGED coreVars
     ELSE /\ Ends("handler") /\ UNCHANGED running
          /\ core' = [core EXCEPT !.choice = tag, !.borrowed = FALSE] /\ remembered' = tag
  /\ UNCHANGED <<settingVars, loopVars, cache, offer, prepared, fetching, failed, budget>>

Connect ==
  /\ th["handler"].at = "connect" /\ opMu = None
  /\ wanted' = TRUE /\ halted' = FALSE
  /\ th' = [th EXCEPT !["handler"] = Idle, !["loop"].at = IF @ = "idle" THEN "look" ELSE @]
  /\ UNCHANGED <<opMu, pre, settingVars, coreVars, cache, offer, prepared, fetching, failed, budget>>

Disconnect ==
  \/ /\ th["handler"].at = "disconnect" /\ opMu = None
     /\ wanted' = FALSE /\ halted' = TRUE /\ opMu' = "handler" /\ Goto("handler", "disconnecting")
     /\ UNCHANGED <<pre, settingVars, coreVars, cache, offer, prepared, fetching, failed, budget>>
  \/ /\ th["handler"].at = "disconnecting" /\ th["loop"].at = "idle"
     /\ StopCore /\ opMu' = None /\ Ends("handler")
     /\ UNCHANGED <<wanted, halted, pre, settingVars, cache, offer, prepared, fetching, failed, budget>>

(***************************************************************************)
(* The timed refresh, the panel, and the death of the service              *)
(***************************************************************************)
\* maybeRefresh
TimerFires ==
  /\ th["timer"].at = "idle" /\ active # None
  /\ IF CacheOK THEN GrowsStale ELSE UNCHANGED budget
  /\ th' = [th EXCEPT !["timer"] = [Idle EXCEPT !.at = "refresh", !.op = "refresh", !.id = active]]
  /\ UNCHANGED <<settingVars, coreVars, loopVars, cache, offer, prepared, fetching, failed>>

PanelChanges ==
  /\ Spend("changes")
  /\ \E url \in {subs[id] : id \in Subs} \cap Urls, new \in Offers :
       new # offer[url] /\ offer' = [offer EXCEPT ![url] = new]
  /\ UNCHANGED <<settingVars, coreVars, loopVars, cache, prepared, fetching, th, failed>>

\* Settings, caches and cache.db are files; everything else starts anew.
Revive ==
  /\ th' = [t \in Threads |-> IF t = "loop" /\ wanted THEN [Idle EXCEPT !.at = "look"] ELSE Idle]
  /\ core' = NoCore /\ running' = None /\ prepared' = Nothing
  /\ fetching' = [id \in Subs |-> None] /\ opMu' = None /\ pre' = NoProfile /\ halted' = FALSE /\ failed' = FALSE
  /\ cache' = [id \in Subs |-> IF Exists(id) THEN cache[id] ELSE NoProfile]
  /\ UNCHANGED <<settingVars, remembered, wanted, offer>>

Dies == Spend("setbacks") /\ Revive

\* prepare goes on with a nil profile: the control channel catches the panic of a
\* handler, in the loop and the timer it is the service's.
Panic(t) ==
  /\ th[t].at = "nil"
  /\ IF t = "handler"
     THEN Ends(t) /\ failed' = TRUE /\ UNCHANGED <<settingVars, coreVars, loopVars, cache, offer, prepared, fetching>>
     ELSE Revive
  /\ UNCHANGED budget

Work(t) ==
  \/ Refresh(t) \/ Refreshed(t) \/ AfterRefresh(t)
  \/ Prepare(t) \/ Reread(t) \/ Publish(t) \/ PrepareFails(t) \/ Swap(t) \/ Swapped(t) \/ Panic(t)
Handle ==
  \/ SaveFetched \/ Store \/ SaveEdit \/ SaveRest \/ Drop \/ Rollback \/ SwitchNode \/ Connect \/ Disconnect
Loop == Look \/ StartBegins \/ StartCore \/ StartDone \/ RecoverRoute \/ LoopExits

\* The service starts with what is on disk; the cache of a subscription may be lost.
First == CHOOSE id \in Subs : TRUE

SubInit ==
  /\ \E mine \in {<<None, None>>, <<Manual, "v">>, <<"u", None>>, <<"u", "v">>} :
       /\ subs = [id \in Subs |-> IF id = First THEN mine[1] ELSE mine[2]]
       /\ active = IF mine[1] = None THEN None ELSE First
  /\ selected \in {"auto", "x"} /\ wanted \in {active # None, FALSE}
  /\ offer = [url \in Urls |-> IF url = "u" THEN "both" ELSE "fewer"]
  /\ \E lost \in {{}, {First}, Subs \ {First}} : cache = [id \in Subs |->
       IF ~Exists(id) \/ id \in lost THEN NoProfile
       ELSE Profile(subs[id], IF subs[id] = Manual THEN "both" ELSE offer[subs[id]])]
  /\ core = NoCore /\ remembered = "x" /\ running = None
  /\ prepared = Nothing /\ fetching = [id \in Subs |-> None]
  /\ opMu = None /\ pre = NoProfile /\ halted = FALSE
  /\ th = [t \in Threads |-> IF t = "loop" /\ wanted THEN [Idle EXCEPT !.at = "look"] ELSE Idle]
  /\ failed = FALSE
  /\ budget \in Bounds

SubNext ==
  \/ \E t \in Threads : Work(t)
  \/ Handle \/ Loop \/ Request \/ TimerFires \/ PanelChanges \/ LooksForAnother \/ Rebuild \/ Dies

SubSpec == SubInit /\ [][SubNext]_subVars

(***************************************************************************)
(* Properties                                                              *)
(***************************************************************************)
Places ==
  {"idle", "refresh", "waiting", "fetch", "after", "prepare", "reread", "nil", "build", "unprepared", "swap",
   "swapping", "look", "ready", "preset", "started", "up", "save", "store", "drop", "dropOther", "switch",
   "rollback", "connect", "disconnect", "disconnecting"}

\* The variables keep their types.
SubTypeOK ==
  /\ subs \in [Subs -> {None, Manual} \cup Urls] /\ active \in Subs \cup {None}
  /\ (active = None) = (\A id \in Subs : ~Exists(id))
  /\ cache \in [Subs -> Profiles] /\ offer \in [Urls -> Offers]
  /\ selected \in Tags \cup {"auto"} /\ remembered \in Tags \cup {"auto"}
  /\ running \in Lists \cup {None} /\ pre \in Profiles /\ fetching \in [Subs -> Threads \cup {None}]
  /\ core = NoCore \/ (core.list \in Lists /\ core.of \in Subs /\ core.choice \in {"auto"} \cup DOMAIN Nodes[core.list]
                       /\ core.borrowed \in BOOLEAN)
  /\ \A t \in Threads : th[t].at \in Places /\ th[t].was \in Profiles

Up == th["loop"].at = "up"

\* What the service takes for the core's list is the core's list, from the moment
\* the core is up until it is stopped: by it a refresh decides whether the node in
\* use is gone, and a choice whether it can be made in place.  And once a request is
\* over and the core is up, the core runs the subscription the settings call active:
\* a choice that could not be prepared has been taken back.
RunningIsHonest ==
  /\ running # None => core # NoCore
  /\ Up => running = core.list
  /\ Up /\ th["handler"].at = "idle" /\ ~failed => core.of = active

\* Once a request is over and the core is up, the core uses the node the settings
\* name if its list has it, whatever cache.db remembered from an earlier run - unless
\* recoverRoute has borrowed another one since the core was started or told the last
\* time ("it does not switch back": the next start, or the next choice, does).
SelectedIsInForce ==
  Up /\ th["handler"].at = "idle" /\ ~failed /\ ~core.borrowed
  => core.choice = DefaultSelected(core.list, selected)

\* Who waits for another's refresh waits for one that is still going on: a refresh
\* that ends in whatever way, cancelled too, leaves nobody waiting for it.
WaitersAreAnswered ==
  \A t \in Threads : th[t].at = "waiting" =>
    fetching[th[t].id] = th[t].on /\ th[th[t].on].at = "fetch" /\ th[th[t].on].id = th[t].id

\* "Don't let the caller go on with nothing" (refreshProfile): prepare never goes
\* on without a list.
PrepareHasNodes == \A t \in Threads : th[t].at # "nil"

\* A refresh that takes away or changes the node in use leads to a reconnection
\* (refreshReconnect): with nothing under way the core does not go on with such a node.
RefreshIsNotLost ==
  /\ Up /\ active # None /\ CacheOK /\ core.choice # "auto" /\ ~failed
  /\ \A t \in Threads \ {"loop"} : th[t] = Idle
  => ~Reconnects(Active.list, core.choice)
=============================================================================

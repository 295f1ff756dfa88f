------------------------- MODULE SubscriptionsProofs -------------------------
(***************************************************************************)
(* Proofs about subscriptions (Subscriptions): that its safety properties  *)
(* hold for any set of subscriptions and any number of requests, refreshes *)
(* and deaths of the service.                                              *)
(*                                                                         *)
(* SubInv is the inductive invariant.  Beside the types it says where each *)
(* goroutine may be and what it has in hand there (Threading), what the    *)
(* handler's request is about (Handling), whose refresh goes on (Fetches), *)
(* how core, loop and lock fit (Plane), and that a core that does not run  *)
(* what the settings name is about to be replaced (Honest).                *)
(*                                                                         *)
(* What an action does to the goroutines is said once, in XTo, and shown   *)
(* in XMoves; lemmas about each part of SubInv say which moves keep it;    *)
(* XKeeps then goes through the parts for one action.                      *)
(***************************************************************************)
EXTENDS Subscriptions, TLAPS

TagsAuto == Tags \cup {"auto"}
SubOps == {None, "add", "rename", "remove", "choose", "node", "refresh", "edit",
           "device", "connect", "disconnect"}
SubLocals ==
  [at : Places, op : SubOps, id : Subs \cup {None}, arg : Subs \cup Urls \cup TagsAuto \cup {None},
   url : Urls \cup {None}, was : Profiles, had : Lists \cup {None}, on : Threads \cup {None},
   inner : BOOLEAN, coherent : BOOLEAN]

H == th["handler"]
L == th["loop"]

SettingsTyped ==
  /\ subs \in [Subs -> {None, Manual} \cup Urls] /\ active \in Subs \cup {None}
  /\ (active = None) = (\A id \in Subs : ~Exists(id))
  /\ active # None => Exists(active)
  /\ selected \in TagsAuto

StoreTyped ==
  /\ cache \in [Subs -> Profiles] /\ offer \in [Urls -> Offers]
  /\ wanted \in BOOLEAN /\ halted \in BOOLEAN /\ failed \in BOOLEAN
  /\ pre \in Profiles /\ fetching \in [Subs -> Threads \cup {None}]
  /\ opMu \in Threads \cup {None}

CoreTyped ==
  /\ remembered \in TagsAuto
  /\ core = NoCore \/ core \in [list : Lists, of : Subs, choice : TagsAuto, borrowed : BOOLEAN]
  /\ core # NoCore => core.choice \in {"auto"} \cup DOMAIN Nodes[core.list]
  /\ running \in Lists \cup {None}
  /\ prepared \in [list : Lists \cup {None}, of : Subs \cup {None}, current : BOOLEAN]
  /\ prepared.current => prepared.list \in Lists /\ prepared.of \in Subs /\ prepared.of = active

ThreadsTyped == th \in [Threads -> SubLocals]

\* Who is where, with what in hand.
TimerPlaces == {"idle", "refresh", "waiting", "fetch", "after", "prepare", "reread", "nil",
                "build", "unprepared", "swap", "swapping"}
LoopPlaces == {"idle", "look", "prepare", "refresh", "waiting", "fetch", "reread", "nil",
               "build", "unprepared", "ready", "preset", "started", "up"}
Fetching(r) == r.at = "fetch" /\ r.op \notin {"add", "rename"}

InHand(r) ==
  /\ r.at \in {"refresh", "waiting", "fetch", "after", "store", "drop", "dropOther"} => r.id \in Subs
  /\ r.at \in {"build", "swap", "swapping", "ready", "store"} => r.was.list \in Lists
  /\ r.at = "build" => r.id \in Subs
  /\ Fetching(r) => r.url \in Urls
  /\ r.on # None <=> r.at = "waiting"
  /\ r.coherent => r.inner /\ r.id = active
  /\ r.at \in {"after", "save", "store"} => ~r.inner
  /\ r.inner => r.op \in {None, "choose"}

Placed(t, r) ==
  /\ t = "handler" => r.at \in Places \ {"look", "ready", "preset", "started", "up"}
  /\ t = "timer" => r.at \in TimerPlaces /\ r.op \in {None, "refresh"}
  /\ t = "loop" => /\ r.at \in LoopPlaces /\ r.op = None
                   /\ r.at \in {"refresh", "waiting", "fetch"} => r.inner

Threading == \A t \in Threads : Placed(t, th[t]) /\ InHand(th[t])

Handling ==
  /\ H.op \in {"add", "rename"} /\ H.at = "fetch" => H.arg \in Urls
  /\ H.at = "save" => H.op \in {"remove", "choose", "node", "edit", "device"}
  /\ H.at = "save" /\ H.op \in {"remove", "choose", "edit"} => H.id \in Subs
  /\ H.at = "save" /\ H.op \in {"remove", "choose"} => Exists(H.id)
  /\ H.op = "choose" => H.at # "idle" /\ H.arg \in Subs /\ Exists(H.arg)
  /\ H.at = "rollback" => H.op = "choose"
  /\ H.op = "node" => H.arg \in TagsAuto
  /\ H.at = "switch" => H.op = "node" /\ H.arg = selected
  /\ H.at = "store" => H.op \in {"add", "rename", "edit"}
  /\ H.at = "store" /\ H.op = "edit" => subs[H.id] = Manual
  /\ H.at = "after" /\ H.op = "edit" => subs[H.id] = Manual
  /\ H.at = "after" => H.op \in {"refresh", "edit"}
  /\ H.at \in {"refresh", "waiting"} \/ Fetching(H) => H.inner \/ H.op = "refresh"
  /\ H.at = "save" /\ H.op = "edit" => fetching[H.id] = None /\ subs[H.id] \notin Urls

\* A subscription is refreshed by the one who fetches it, and none by hand is.
Fetches ==
  /\ \A id \in Subs, t \in Threads : fetching[id] = t <=> Fetching(th[t]) /\ th[t].id = id
  /\ \A t \in Threads : th[t].at = "waiting" => fetching[th[t].id] = th[t].on
  /\ \A id \in Subs : subs[id] = Manual => fetching[id] = None

Plane ==
  /\ running # None => core # NoCore /\ running = core.list
  /\ L.at \notin {"idle", "started", "up"} => core = NoCore /\ running = None
  /\ L.at = "idle" /\ opMu = None => core = NoCore /\ running = None
  /\ L.at = "up" => running # None
  /\ L.at = "started" => core # NoCore /\ running = None /\ core.list = prepared.list /\ core.of = prepared.of
  /\ Starting => prepared.current
  /\ halted => opMu # None \/ L.at = "idle"
  /\ \A t \in Threads : opMu = t <=> th[t].at \in {"swapping", "disconnecting"}
  /\ opMu # None => halted
  /\ \A t \in Threads : th[t].at = "disconnecting" => t = "handler"
  /\ \A t \in Threads : th[t].at = "swapping" => wanted
  /\ L.at # "idle" => wanted \/ H.at = "disconnecting"

\* The handler is on the way to a restart, or to say that it failed.
Restarting ==
  \/ H.at \in {"prepare", "reread", "nil", "build", "unprepared", "rollback", "swap",
               "swapping", "drop", "disconnect", "disconnecting"}
  \/ H.at \in {"refresh", "waiting", "fetch"} /\ H.inner

\* The node the settings name, or one that recoverRoute borrowed
InForce == core.choice = DefaultSelected(core.list, selected) \/ core.borrowed

\* A node chosen by hand that the list does not have any more
Dropped(list) ==
  /\ H.op = "edit" /\ H.id = active /\ selected = "auto" /\ list \in Lists
  /\ core.choice # "auto" /\ core.choice \notin DOMAIN Nodes[list]

Honest ==
  L.at = "up" /\ ~failed =>
    /\ core.of = active \/ Restarting
    /\ \/ InForce
       \/ Restarting /\ H.op # "choose"
       \/ H.at = "switch"
       \/ H.at = "store" /\ Dropped(H.was.list)
       \/ H.at = "after" /\ Dropped(cache[H.id].list)

SubInv ==
  /\ SettingsTyped /\ StoreTyped /\ CoreTyped /\ ThreadsTyped
  /\ Threading /\ Handling /\ Fetches /\ Plane /\ Honest

\* Lists, profiles and tags: what the constants of the model are.
LEMMA SubBasics ==
  /\ None \notin Lists /\ Lists = {"both", "moved", "fewer"}
  /\ NoProfile \in Profiles
  /\ \A p \in Profiles : p.list \in Lists <=> p # NoProfile
  /\ \A p \in Profiles : p.list \in Lists \cup {None}
  /\ \A l \in Lists, u \in Urls \cup {Manual} : [url |-> u, list |-> l] \in Profiles
  /\ "auto" \notin Tags
  /\ \A l \in Lists : DOMAIN Nodes[l] \subseteq Tags
  /\ "x" \in Tags
<1>1. Lists = {"both", "moved", "fewer"}
  BY DEF Lists, Nodes
<1>2. /\ DOMAIN Nodes["both"] = {"x", "y"} /\ DOMAIN Nodes["moved"] = {"x", "y"}
      /\ DOMAIN Nodes["fewer"] = {"y"}
  BY DEF Nodes
<1>3. \A l \in Lists : DOMAIN Nodes[l] \subseteq {"x", "y"}
  BY <1>1, <1>2
<1>4. Tags \subseteq {"x", "y"}
  BY <1>3 DEF Tags
<1>5. \A l \in Lists : DOMAIN Nodes[l] \subseteq Tags
  BY DEF Tags
<1>6. "x" \in Tags
  BY <1>1, <1>2, <1>5
<1>7. /\ NoProfile \in Profiles
      /\ \A p \in Profiles : p.list \in Lists <=> p # NoProfile
      /\ \A p \in Profiles : p.list \in Lists \cup {None}
      /\ \A l \in Lists, u \in Urls \cup {Manual} : [url |-> u, list |-> l] \in Profiles
  BY <1>1 DEF Profiles, NoProfile, Profile, None
<1> QED  BY <1>1, <1>4, <1>5, <1>6, <1>7 DEF None

\* The choice of a group is the node asked for if the list has it (DefaultSelected).
LEMMA Defaults ==
  ASSUME NEW l \in Lists, NEW tag \in TagsAuto
  PROVE  /\ DefaultSelected(l, tag) \in {"auto"} \cup DOMAIN Nodes[l]
         /\ DefaultSelected(l, tag) \in TagsAuto
         /\ tag \in {"auto"} \cup DOMAIN Nodes[l] => DefaultSelected(l, tag) = tag
BY SubBasics DEF DefaultSelected, TagsAuto

Others(S) == \A u \in Threads \ S : th'[u] = th[u]

\* What a goroutine has in hand and keeps as it goes on
Like(q, r) == /\ q.op = r.op /\ q.id = r.id /\ q.arg = r.arg
              /\ q.inner = r.inner /\ q.coherent = r.coherent
Went(t, pc) == /\ ThreadsTyped' /\ Others({t}) /\ th'[t].at = pc
               /\ Like(th'[t], th[t]) /\ th'[t].was = th[t].was /\ th'[t].on = th[t].on
Finished(t) == ThreadsTyped' /\ Others({t}) /\ th'[t] = Idle
Fresh(q, pc) == /\ q.at = pc /\ q.op = None /\ q.id = None /\ q.on = None
                /\ ~q.inner /\ ~q.coherent
AfterOf(q, r, changed) ==
  /\ q.on = None
  /\ r.inner => /\ q.at \in {"reread", "unprepared", "build"} /\ Like(q, r) /\ q.was = r.was
                /\ q.at = "build" => r.was # NoProfile
  /\ ~r.inner => q = Idle \/ (changed /\ q.at = "after" /\ Like(q, r))
Woken(t, u) == \/ th'[u] = th[u] /\ (th[u].on = t => \A id \in Subs : fetching[id] # t)
               \/ th[u].on = t /\ AfterOf(th'[u], th[u], FALSE)
Returned(t) ==
  /\ ThreadsTyped'
  /\ fetching' = [id \in Subs |-> IF fetching[id] = t THEN None ELSE fetching[id]]
  /\ \A u \in Threads \ {t} : Woken(t, u)
Loosened(u) == /\ th'[u].at = th[u].at /\ th'[u].op = th[u].op /\ th'[u].id = th[u].id
               /\ th'[u].arg = th[u].arg /\ th'[u].was = th[u].was /\ th'[u].on = th[u].on /\ th'[u].url = th[u].url
               /\ th'[u].inner = th[u].inner /\ ~th'[u].coherent
Saved(next) == ThreadsTyped' /\ th'["handler"] = next /\ Loosened("timer") /\ Loosened("loop")

\* A goroutine without work.
LEMMA IdleIs == /\ Idle \in SubLocals /\ Fresh(Idle, "idle")
                /\ Idle.arg = None /\ Idle.was = NoProfile
BY SubBasics DEF Idle, SubLocals, Places, SubOps, Fresh

\* A record of a goroutine with one field changed
LEMMA Fields ==
  ASSUME NEW r \in SubLocals
  PROVE  /\ \A pc \in Places :
              LET q == [r EXCEPT !.at = pc]
              IN q \in SubLocals /\ q.at = pc /\ Like(q, r) /\ q.was = r.was /\ q.on = r.on
         /\ \A p \in Profiles :
              LET q == [r EXCEPT !.was = p]
              IN q \in SubLocals /\ q.was = p /\ q.at = r.at /\ Like(q, r) /\ q.on = r.on
         /\ \A o \in Threads \cup {None} :
              LET q == [r EXCEPT !.on = o]
              IN q \in SubLocals /\ q.on = o /\ q.at = r.at /\ Like(q, r) /\ q.was = r.was
         /\ LET q == [r EXCEPT !.coherent = FALSE]
            IN /\ q \in SubLocals /\ ~q.coherent /\ q.at = r.at /\ q.op = r.op /\ q.id = r.id
               /\ q.arg = r.arg /\ q.was = r.was /\ q.on = r.on /\ q.inner = r.inner /\ q.url = r.url
<1> USE DEF SubLocals, Like
<1>1. \A pc \in Places :
        LET q == [r EXCEPT !.at = pc]
        IN q \in SubLocals /\ q.at = pc /\ Like(q, r) /\ q.was = r.was /\ q.on = r.on
  OBVIOUS
<1>2. \A p \in Profiles :
        LET q == [r EXCEPT !.was = p]
        IN q \in SubLocals /\ q.was = p /\ q.at = r.at /\ Like(q, r) /\ q.on = r.on
  OBVIOUS
<1>3. \A o \in Threads \cup {None} :
        LET q == [r EXCEPT !.on = o]
        IN q \in SubLocals /\ q.on = o /\ q.at = r.at /\ Like(q, r) /\ q.was = r.was
  OBVIOUS
<1>4. LET q == [r EXCEPT !.coherent = FALSE]
      IN /\ q \in SubLocals /\ ~q.coherent /\ q.at = r.at /\ q.op = r.op /\ q.id = r.id
         /\ q.arg = r.arg /\ q.was = r.was /\ q.on = r.on /\ q.inner = r.inner /\ q.url = r.url
  OBVIOUS
<1> QED  BY <1>1, <1>2, <1>3, <1>4

\* One goroutine's record is replaced
LEMMA Replaces ==
  ASSUME ThreadsTyped, NEW t \in Threads, NEW q \in SubLocals, th' = [th EXCEPT ![t] = q]
  PROVE  ThreadsTyped' /\ Others({t}) /\ th'[t] = q
BY DEF ThreadsTyped, Others

\* Going on and ending, for one goroutine.
LEMMA Moves ==
  ASSUME ThreadsTyped, NEW t \in Threads
  PROVE  /\ \A pc \in Places : Goto(t, pc) => Went(t, pc)
         /\ Ends(t) => Finished(t)
<1>1. ASSUME NEW pc \in Places, Goto(t, pc)
      PROVE  Went(t, pc)
  <2>1. th' = [th EXCEPT ![t] = [th[t] EXCEPT !.at = pc]]
    BY <1>1 DEF Goto
  <2>2. th[t] \in SubLocals
    BY DEF ThreadsTyped
  <2> DEFINE q == [th[t] EXCEPT !.at = pc]
  <2>3. q \in SubLocals /\ q.at = pc /\ Like(q, th[t]) /\ q.was = th[t].was /\ q.on = th[t].on
    BY <2>2, Fields
  <2> HIDE DEF q
  <2>4. ThreadsTyped' /\ Others({t}) /\ th'[t] = q
    BY <2>1, <2>3, Replaces DEF q
  <2> QED  BY <2>3, <2>4 DEF Went
<1>2. ASSUME Ends(t)
      PROVE  Finished(t)
  BY <1>2, IdleIs, Replaces DEF Ends, Finished
<1> QED  BY <1>1, <1>2

\* What becomes of a goroutine that has refreshed (refreshProfile returns).
LEMMA AfterIs ==
  ASSUME NEW r \in SubLocals, NEW ok \in BOOLEAN, NEW changed \in BOOLEAN
  PROVE  After(r, ok, changed) \in SubLocals /\ AfterOf(After(r, ok, changed), r, changed)
<1> DEFINE q == [r EXCEPT !.on = None]
<1>1. q \in SubLocals /\ q.on = None /\ q.at = r.at /\ Like(q, r) /\ q.was = r.was
  BY Fields
<1>2. ASSUME NEW pc \in Places
      PROVE  LET p == [r EXCEPT !.on = None, !.at = pc]
             IN p \in SubLocals /\ p.on = None /\ p.at = pc /\ Like(p, r) /\ p.was = r.was
  BY DEF SubLocals, Like
<1>3. CASE r.inner
  <2>1. After(r, ok, changed) =
          [r EXCEPT !.on = None, !.at = IF ok THEN "reread" ELSE IF r.was = NoProfile THEN "unprepared" ELSE "build"]
    BY <1>3 DEF After
  <2>2. {"reread", "unprepared", "build"} \subseteq Places
    BY DEF Places
  <2>3. PICK pc \in {"reread", "unprepared", "build"} :
          /\ After(r, ok, changed) = [r EXCEPT !.on = None, !.at = pc]
          /\ pc = "build" => r.was # NoProfile
    BY <2>1
  <2> DEFINE p == [r EXCEPT !.on = None, !.at = pc]
  <2>4. p \in SubLocals /\ p.on = None /\ p.at = pc /\ Like(p, r) /\ p.was = r.was
    BY <1>2, <2>2
  <2> HIDE DEF p
  <2>5. After(r, ok, changed) = p
    BY <2>3 DEF p
  <2> QED  BY <1>3, <2>3, <2>4, <2>5 DEF AfterOf
<1>4. CASE ~r.inner /\ changed
  <2>1. After(r, ok, changed) = [r EXCEPT !.on = None, !.was = NoProfile, !.at = "after"]
    BY <1>4 DEF After
  <2>2. LET p == [r EXCEPT !.on = None, !.was = NoProfile, !.at = "after"]
        IN p \in SubLocals /\ p.on = None /\ p.at = "after" /\ Like(p, r)
    BY SubBasics DEF SubLocals, Like, Places
  <2> QED  BY <1>4, <2>1, <2>2 DEF AfterOf
<1>5. CASE ~r.inner /\ ~changed
  BY <1>5, IdleIs DEF After, AfterOf, Fresh
<1> QED  BY <1>3, <1>4, <1>5

\* Who fetched returns, and all who wait for it wake up.
LEMMA Returns ==
  ASSUME ThreadsTyped, NEW t \in Threads, NEW own \in SubLocals, NEW ok \in BOOLEAN,
         Return(t, own, ok)
  PROVE  Returned(t) /\ th'[t] = own
<1> DEFINE done == {id \in Subs : fetching[id] = t}
<1>1. th' = [u \in Threads |->
               IF u = t THEN own
               ELSE IF done # {} /\ th[u].on = t THEN After(th[u], ok, FALSE) ELSE th[u]]
  BY DEF Return
<1>2. \A u \in Threads : th[u] \in SubLocals
  BY DEF ThreadsTyped
<1>3. \A u \in Threads : After(th[u], ok, FALSE) \in SubLocals /\ AfterOf(After(th[u], ok, FALSE), th[u], FALSE)
  BY <1>2, AfterIs
<1>4. ThreadsTyped'
  BY <1>1, <1>2, <1>3 DEF ThreadsTyped
<1>5. fetching' = [id \in Subs |-> IF fetching[id] = t THEN None ELSE fetching[id]]
  BY DEF Return
<1>6. ASSUME NEW u \in Threads \ {t}
      PROVE  Woken(t, u)
  <2>1. CASE done # {} /\ th[u].on = t
    BY <1>1, <1>3, <2>1 DEF Woken
  <2>2. CASE done = {} \/ th[u].on # t
    BY <1>1, <2>2 DEF Woken
  <2> QED  BY <2>1, <2>2
<1> QED  BY <1>1, <1>4, <1>5, <1>6 DEF Returned

\* A change of the settings: the handler goes on, and nobody else is coherent any more.
LEMMA Saves ==
  ASSUME ThreadsTyped, NEW next \in SubLocals, NEW s, NEW a, NEW x, SetSettings(next, s, a, x)
  PROVE  Saved(next)
<1>1. th' = [t \in Threads |-> IF t = "handler" THEN next ELSE [th[t] EXCEPT !.coherent = FALSE]]
  BY DEF SetSettings
<1>2. \A u \in Threads : th[u] \in SubLocals
  BY DEF ThreadsTyped
<1>3. \A u \in Threads : [th[u] EXCEPT !.coherent = FALSE] \in SubLocals
  BY <1>2, Fields
<1>4. ThreadsTyped'
  BY <1>1, <1>3 DEF ThreadsTyped
<1>5. th'["handler"] = next
  BY <1>1 DEF Threads
<1>6. ASSUME NEW u \in {"timer", "loop"}
      PROVE  Loosened(u)
  <2>1. th'[u] = [th[u] EXCEPT !.coherent = FALSE] /\ u \in Threads
    BY <1>1 DEF Threads
  <2> QED  BY <1>2, <2>1, Fields DEF Loosened
<1> QED  BY <1>4, <1>5, <1>6 DEF Saved

\* What is fetched is a list, or nothing.
LEMMA FetchedTyped ==
  ASSUME NEW url \in Urls, NEW new \in Fetched(url)
  PROVE  new \in Profiles
BY SubBasics DEF Fetched, Profile

\* refreshProfile, entered
RefreshTo(t) ==
  /\ ThreadsTyped' /\ Others({t}) /\ th[t].at = "refresh"
  /\ \/ /\ th'[t].at = "waiting" /\ th'[t].on = fetching[th[t].id] /\ th'[t].on \in Threads
        /\ th'[t].was = th[t].was /\ Like(th'[t], th[t]) /\ UNCHANGED fetching
     \/ /\ AfterOf(th'[t], th[t], FALSE) /\ UNCHANGED fetching
     \/ /\ th'[t].at = "fetch" /\ th'[t].on = th[t].on /\ th'[t].was = th[t].was
        /\ Like(th'[t], th[t]) /\ th'[t].url \in Urls
        /\ fetching[th[t].id] = None /\ subs[th[t].id] \in Urls
        /\ fetching' = [fetching EXCEPT ![th[t].id] = t]

\* Refresh: who refreshes waits, has an answer, or begins to fetch.
LEMMA RefreshMoves ==
  ASSUME SubInv, NEW t \in Threads, Refresh(t)
  PROVE  RefreshTo(t)
<1> DEFINE id == th[t].id
<1>0. /\ th[t].at = "refresh" /\ id \in Subs /\ th[t] \in SubLocals /\ ThreadsTyped
      /\ fetching \in [Subs -> Threads \cup {None}] /\ subs[id] \in {None, Manual} \cup Urls
  BY DEF Refresh, SubInv, Threading, InHand, ThreadsTyped, StoreTyped, SettingsTyped
<1>1. CASE fetching[id] # None /\ UNCHANGED fetching
           /\ th' = [th EXCEPT ![t].at = "waiting", ![t].on = fetching[id]]
  <2> DEFINE q == [th[t] EXCEPT !.at = "waiting", !.on = fetching[id]]
  <2>1. q \in SubLocals /\ q.at = "waiting" /\ q.on = fetching[id] /\ q.was = th[t].was /\ Like(q, th[t])
    BY <1>0, <1>1 DEF SubLocals, Like, Places
  <2>2. th' = [th EXCEPT ![t] = q]
    BY <1>1
  <2> HIDE DEF q
  <2>3. ThreadsTyped' /\ Others({t}) /\ th'[t] = q
    BY <1>0, <2>1, <2>2, Replaces
  <2> QED  BY <1>0, <1>1, <2>1, <2>3 DEF RefreshTo
<1>2. CASE /\ fetching[id] = None /\ UNCHANGED fetching
           /\ th' = [th EXCEPT ![t] = After(@, subs[id] = Manual /\ cache[id] # NoProfile, FALSE)]
  <2> DEFINE q == After(th[t], subs[id] = Manual /\ cache[id] # NoProfile, FALSE)
  <2>1. q \in SubLocals /\ AfterOf(q, th[t], FALSE)
    BY <1>0, AfterIs
  <2>2. th' = [th EXCEPT ![t] = q]
    BY <1>2
  <2> HIDE DEF q
  <2>3. ThreadsTyped' /\ Others({t}) /\ th'[t] = q
    BY <1>0, <2>1, <2>2, Replaces
  <2> QED  BY <1>0, <1>2, <2>1, <2>3 DEF RefreshTo
<1>3. CASE /\ fetching[id] = None /\ subs[id] \in Urls /\ fetching' = [fetching EXCEPT ![id] = t]
           /\ th' = [th EXCEPT ![t].at = "fetch", ![t].url = subs[id], ![t].had = cache[id].list]
  <2> DEFINE q == [th[t] EXCEPT !.at = "fetch", !.url = subs[id], !.had = cache[id].list]
  <2>0. cache[id].list \in Lists \cup {None}
    BY <1>0, SubBasics DEF SubInv, StoreTyped
  <2>1. q \in SubLocals /\ q.at = "fetch" /\ q.on = th[t].on /\ q.was = th[t].was /\ Like(q, th[t])
       /\ q.url = subs[id]
    <3>1. "fetch" \in Places /\ subs[id] \in Urls \cup {None}
      BY <1>3 DEF Places
    <3> QED  BY <1>0, <2>0, <3>1 DEF SubLocals, Like
  <2>2. th' = [th EXCEPT ![t] = q]
    BY <1>3
  <2> HIDE DEF q
  <2>3. ThreadsTyped' /\ Others({t}) /\ th'[t] = q
    BY <1>0, <2>1, <2>2, Replaces
  <2> QED  BY <1>0, <1>3, <2>1, <2>3 DEF RefreshTo
<1> QED  BY <1>1, <1>2, <1>3 DEF Refresh

\* The end of a refresh
RefreshedTo(t) ==
  /\ Returned(t) /\ AfterOf(th'[t], th[t], TRUE) /\ Fetching(th[t])
  /\ cache' \in [Subs -> Profiles] /\ \A i \in Subs \ {th[t].id} : cache'[i] = cache[i]

\* Refreshed: who fetched goes on, and with it all who wait for it.
LEMMA RefreshedMoves ==
  ASSUME SubInv, NEW t \in Threads, Refreshed(t)
  PROVE  RefreshedTo(t)
<1> DEFINE r == [th[t] EXCEPT !.url = None, !.had = None]
<1>0. /\ Fetching(th[t]) /\ th[t].id \in Subs /\ th[t] \in SubLocals /\ ThreadsTyped
      /\ cache \in [Subs -> Profiles]
  BY DEF Refreshed, Fetching, SubInv, Threading, InHand, ThreadsTyped, StoreTyped
<1>1. r \in SubLocals /\ Like(r, th[t]) /\ r.was = th[t].was
  BY <1>0 DEF SubLocals, Like
<1>2. PICK new \in Fetched(th[t].url) :
        /\ cache' = IF new = NoProfile THEN cache ELSE [cache EXCEPT ![th[t].id] = new]
        /\ Return(t, After(r, new # NoProfile, th[t].had # new.list), new # NoProfile)
  BY DEF Refreshed
<1>3. th[t].url \in Urls
  BY <1>0 DEF SubInv, Threading, InHand
<1>4. new \in Profiles
  BY <1>2, <1>3, FetchedTyped
<1> DEFINE own == After(r, new # NoProfile, th[t].had # new.list)
<1> HIDE DEF r
<1>5. own \in SubLocals /\ AfterOf(own, r, th[t].had # new.list)
  BY <1>1, AfterIs
<1>6. AfterOf(own, th[t], TRUE)
  BY <1>1, <1>5 DEF AfterOf, Like
<1> HIDE DEF own
<1>7. Returned(t) /\ th'[t] = own
  BY <1>0, <1>2, <1>5, Returns DEF own
<1>8. cache' \in [Subs -> Profiles] /\ \A i \in Subs \ {th[t].id} : cache'[i] = cache[i]
  BY <1>0, <1>2, <1>4
<1> QED  BY <1>0, <1>6, <1>7, <1>8 DEF RefreshedTo

\* AfterRefresh: a changed list leads to a reconnection or to nothing.
LEMMA AfterRefreshMoves ==
  ASSUME SubInv, NEW t \in Threads, AfterRefresh(t)
  PROVE  Went(t, "prepare") \/ Finished(t)
BY Moves DEF AfterRefresh, SubInv, Places

\* prepare, entered
PrepareTo(t) ==
  /\ ThreadsTyped' /\ Others({t}) /\ active \in Subs
  /\ th'[t].at \in {"refresh", "build"} /\ th'[t].id = active /\ th'[t].inner /\ th'[t].coherent
  /\ th'[t].on = None
  /\ IF th[t].op = "choose" THEN th'[t].op = "choose" /\ th'[t].arg = th[t].arg
     ELSE th'[t].op = None /\ th'[t].arg = None
  /\ th'[t].was \in Profiles /\ (th'[t].at = "build" => th'[t].was.list \in Lists)

\* Prepare: prepare begins with a list, or refreshes first.
LEMMA PrepareMoves ==
  ASSUME SubInv, NEW t \in Threads, Prepare(t)
  PROVE  \/ t # "loop" /\ ~wanted /\ Finished(t)
         \/ Went(t, "unprepared")
         \/ PrepareTo(t)
<1>0. /\ th[t].at = "prepare" /\ th[t] \in SubLocals /\ ThreadsTyped /\ th[t].on = None
      /\ active \in Subs \cup {None} /\ cache \in [Subs -> Profiles]
  BY DEF Prepare, SubInv, Threading, InHand, ThreadsTyped, StoreTyped, SettingsTyped
<1>1. CASE t # "loop" /\ ~wanted /\ Ends(t)
  BY <1>0, <1>1, Moves
<1>2. CASE Goto(t, "unprepared")
  BY <1>0, <1>2, Moves DEF Places
<1>3. CASE /\ active # None
           /\ \E pc \in {"refresh", "build"} :
                /\ pc = "build" => CacheOK
                /\ LET was == IF CacheOK THEN Active ELSE NoProfile
                       r == IF th[t].op = "choose" THEN th[t] ELSE Idle IN
                   th' = [th EXCEPT ![t] = [r EXCEPT !.at = pc, !.id = active, !.was = was, !.inner = TRUE, !.coherent = TRUE]]
  <2> DEFINE was == IF CacheOK THEN Active ELSE NoProfile
             r == IF th[t].op = "choose" THEN th[t] ELSE Idle
  <2>1. PICK pc \in {"refresh", "build"} :
          /\ pc = "build" => CacheOK
          /\ th' = [th EXCEPT ![t] = [r EXCEPT !.at = pc, !.id = active, !.was = was, !.inner = TRUE, !.coherent = TRUE]]
    BY <1>3
  <2>2. active \in Subs
    BY <1>0, <1>3
  <2>3. was \in Profiles /\ (pc = "build" => was.list \in Lists)
    BY <1>0, <2>1, <2>2, SubBasics DEF Active, CacheOK
  <2>4. /\ r \in SubLocals /\ r.on = None
        /\ IF th[t].op = "choose" THEN r.op = "choose" /\ r.arg = th[t].arg
           ELSE r.op = None /\ r.arg = None
    BY <1>0, IdleIs DEF Fresh
  <2> DEFINE q == [r EXCEPT !.at = pc, !.id = active, !.was = was, !.inner = TRUE, !.coherent = TRUE]
  <2> HIDE DEF r, was
  <2>5. /\ q \in SubLocals /\ q.at = pc /\ q.id = active /\ q.was = was /\ q.inner /\ q.coherent
        /\ q.op = r.op /\ q.arg = r.arg /\ q.on = r.on
    <3>1. pc \in Places
      BY DEF Places
    <3> QED  BY <2>2, <2>3, <2>4, <3>1 DEF SubLocals
  <2>6. th' = [th EXCEPT ![t] = q]
    BY <2>1 DEF r, was
  <2> HIDE DEF q
  <2>7. ThreadsTyped' /\ Others({t}) /\ th'[t] = q
    BY <1>0, <2>5, <2>6, Replaces
  <2> QED  BY <2>2, <2>3, <2>4, <2>5, <2>7 DEF PrepareTo
<1> QED  BY <1>1, <1>2, <1>3 DEF Prepare

RereadTo(t) ==
  /\ ThreadsTyped' /\ Others({t}) /\ Like(th'[t], th[t]) /\ th'[t].on = th[t].on
  /\ th'[t].was \in Profiles
  /\ th'[t].at \in {"nil", "build"} /\ (th'[t].at = "build" => active \in Subs /\ th'[t].was.list \in Lists)

\* Reread: prepare reads again what it has refreshed.
LEMMA RereadMoves ==
  ASSUME SubInv, NEW t \in Threads, Reread(t)
  PROVE  RereadTo(t)
<1> DEFINE pc == IF Active = NoProfile THEN "nil" ELSE "build"
           q == [th[t] EXCEPT !.was = Active, !.at = pc]
<1>0. /\ th[t] \in SubLocals /\ ThreadsTyped /\ active \in Subs \cup {None}
      /\ cache \in [Subs -> Profiles]
  BY DEF SubInv, ThreadsTyped, StoreTyped, SettingsTyped
<1>1. Active \in Profiles /\ (Active # NoProfile => active \in Subs /\ Active.list \in Lists)
  BY <1>0, SubBasics DEF Active
<1>2. th' = [th EXCEPT ![t] = q]
  BY DEF Reread
<1>3. q \in SubLocals /\ q.was = Active /\ q.at = pc /\ Like(q, th[t]) /\ q.on = th[t].on
  <2>1. pc \in Places
    BY DEF Places
  <2> HIDE DEF pc
  <2> QED  BY <1>0, <1>1, <2>1 DEF SubLocals, Like
<1> HIDE DEF q
<1>4. ThreadsTyped' /\ Others({t}) /\ th'[t] = q
  BY <1>0, <1>2, <1>3, Replaces
<1> QED  BY <1>1, <1>3, <1>4 DEF RereadTo

\* A record begun anew
Begun(t, pc) == ThreadsTyped' /\ Others({t}) /\ Fresh(th'[t], pc) /\ th'[t].arg = None

\* A goroutine that begins anew.
LEMMA BeginAt ==
  ASSUME NEW pc \in Places, NEW was \in Profiles
  PROVE  LET q == [Idle EXCEPT !.at = pc, !.was = was]
         IN q \in SubLocals /\ Fresh(q, pc) /\ q.arg = None /\ q.was = was
BY IdleIs DEF SubLocals, Fresh

\* A goroutine begins anew, with a profile.
LEMMA Begins ==
  ASSUME ThreadsTyped, NEW t \in Threads, NEW pc \in Places, NEW was \in Profiles,
         th' = [th EXCEPT ![t] = [Idle EXCEPT !.at = pc, !.was = was]]
  PROVE  Begun(t, pc) /\ th'[t].was = was
<1> DEFINE q == [Idle EXCEPT !.at = pc, !.was = was]
<1>1. q \in SubLocals /\ Fresh(q, pc) /\ q.arg = None /\ q.was = was
  BY BeginAt
<1> HIDE DEF q
<1>2. ThreadsTyped' /\ Others({t}) /\ th'[t] = q
  BY <1>1, Replaces DEF q
<1> QED  BY <1>1, <1>2 DEF Begun

\* Publish: what was built from the current settings is published.
LEMMA PublishMoves ==
  ASSUME SubInv, NEW t \in Threads, Publish(t)
  PROVE  /\ th[t].coherent => Begun(t, IF t = "loop" THEN "ready" ELSE "swap") /\ th'[t].was = th[t].was
         /\ ~th[t].coherent => Went(t, "unprepared")
<1>0. th[t].was \in Profiles /\ ThreadsTyped
  BY DEF SubInv, ThreadsTyped, SubLocals
<1>1. "ready" \in Places /\ "swap" \in Places /\ "unprepared" \in Places
  BY DEF Places
<1>2. CASE th[t].coherent
  BY <1>0, <1>1, <1>2, Begins DEF Publish
<1>3. CASE ~th[t].coherent
  BY <1>0, <1>1, <1>3, Moves DEF Publish
<1> QED  BY <1>2, <1>3

\* PrepareFails: who could not prepare ends, looks again, or takes its choice back.
LEMMA PrepareFailsMoves ==
  ASSUME SubInv, NEW t \in Threads, PrepareFails(t)
  PROVE  /\ t = "loop" => Went(t, "look")
         /\ t # "loop" /\ th[t].op = "choose" => Went(t, "rollback")
         /\ t # "loop" /\ th[t].op # "choose" => Finished(t)
BY Moves DEF PrepareFails, SubInv, Places

\* Swap: a reconnection begins, if one is wanted.
LEMMA SwapMoves ==
  ASSUME SubInv, NEW t \in Threads, Swap(t)
  PROVE  /\ wanted => Went(t, "swapping")
         /\ ~wanted => Finished(t)
BY Moves DEF Swap, SubInv, Places

SwappedTo(t) ==
  /\ ThreadsTyped' /\ Others({t, "loop"}) /\ th'[t] = Idle /\ t # "loop"
  /\ th'["loop"].at = "look" /\ Like(th'["loop"], L) /\ th'["loop"].on = L.on /\ th'["loop"].was = L.was

\* Swapped: a reconnection ends with the loop started anew.
LEMMA SwappedMoves ==
  ASSUME SubInv, NEW t \in Threads, Swapped(t)
  PROVE  SwappedTo(t)
<1> DEFINE q == [th["loop"] EXCEPT !.at = "look"]
<1>0. ThreadsTyped /\ t # "loop" /\ "loop" \in Threads /\ th["loop"] \in SubLocals
  BY DEF SubInv, Swapped, ThreadsTyped, Threads
<1>1. q \in SubLocals /\ q.at = "look" /\ Like(q, L) /\ q.was = L.was /\ q.on = L.on
  BY <1>0, Fields DEF Places, L
<1>2. th' = [th EXCEPT ![t] = Idle, !["loop"] = q]
  BY <1>0 DEF Swapped
<1> HIDE DEF q
<1> QED  BY <1>0, <1>1, <1>2, IdleIs DEF SwappedTo, ThreadsTyped, Others

\* The service starts anew: the loop looks if the user wants to be connected.
Revived ==
  /\ ThreadsTyped' /\ \A t \in {"handler", "timer"} : th'[t] = Idle
  /\ Fresh(th'["loop"], IF wanted THEN "look" ELSE "idle")

\* Revive: a service that starts has its goroutines idle.
LEMMA ReviveMoves ==
  ASSUME SubInv, Revive
  PROVE  Revived
<1> DEFINE q == [Idle EXCEPT !.at = "look"]
<1>1. q \in SubLocals /\ Fresh(q, "look")
  BY IdleIs DEF Fresh, SubLocals, Places
<1>2. th' = [t \in Threads |-> IF t = "loop" /\ wanted THEN q ELSE Idle]
  BY DEF Revive
<1> HIDE DEF q
<1> QED  BY <1>1, <1>2, IdleIs DEF Revived, ThreadsTyped, Threads

\* A request saves settings: the handler's record, and what the settings become.
SavedTo(pc, newSubs, newActive, newSelected) ==
  /\ ThreadsTyped' /\ Loosened("timer") /\ Loosened("loop") /\ ~Starting
  /\ th'["handler"].at = pc
  /\ subs' = newSubs /\ selected' = newSelected
  /\ prepared' = [prepared EXCEPT !.current = FALSE]
  /\ LET left == {id \in Subs : newSubs[id] # None} IN
     active' \in IF newActive \in left THEN {newActive} ELSE IF left = {} THEN {None} ELSE left

\* Saving settings: the next place of the handler, and settings of their types.
LEMMA SetSettingsMoves ==
  ASSUME ThreadsTyped, NEW next \in SubLocals, NEW s, NEW a, NEW x, SetSettings(next, s, a, x)
  PROVE  SavedTo(next.at, s, a, x) /\ th'["handler"] = next
BY Saves DEF Saved, SavedTo, SetSettings

\* SaveFetched: a subscription that was fetched is saved.
LEMMA SaveFetchedMoves ==
  ASSUME SubInv, SaveFetched
  PROVE  \/ Finished("handler") /\ UNCHANGED <<settingVars, prepared>>
         \/ /\ SavedTo("store", [subs EXCEPT ![H.id] = H.arg], IF active = None THEN H.id ELSE active, selected)
            /\ Like(th'["handler"], H) /\ th'["handler"].on = H.on /\ th'["handler"].was.list \in Lists
<1>0. /\ H \in SubLocals /\ ThreadsTyped /\ "handler" \in Threads /\ H.at = "fetch" /\ H.op \in {"add", "rename"}
      /\ H.arg \in Urls
  BY DEF SubInv, ThreadsTyped, H, Threads, SaveFetched, Handling
<1>1. PICK new \in Fetched(H.arg) :
        IF new = NoProfile THEN Ends("handler") /\ UNCHANGED <<settingVars, prepared>>
        ELSE SetSettings([H EXCEPT !.at = "store", !.was = new], [subs EXCEPT ![H.id] = H.arg],
                         IF active = None THEN H.id ELSE active, selected)
  BY DEF SaveFetched, H
<1>2. new \in Profiles
  BY <1>0, <1>1, FetchedTyped
<1>3. CASE new = NoProfile
  BY <1>0, <1>1, <1>3, Moves
<1>4. CASE new # NoProfile
  <2> DEFINE q == [H EXCEPT !.at = "store", !.was = new]
  <2>1. q \in SubLocals /\ q.at = "store" /\ q.was = new /\ Like(q, H) /\ q.on = H.on
    BY <1>0, <1>2 DEF SubLocals, Like, Places
  <2> HIDE DEF q
  <2>2. SetSettings(q, [subs EXCEPT ![H.id] = H.arg], IF active = None THEN H.id ELSE active, selected)
    BY <1>1, <1>4 DEF q
  <2> QED  BY <1>0, <1>2, <1>4, <2>1, <2>2, SetSettingsMoves, SubBasics
<1> QED  BY <1>3, <1>4

\* Store: a fetched or edited list goes to the cache.
LEMMA StoreMoves ==
  ASSUME SubInv, Store
  PROVE  \/ H.op = "edit" /\ Went("handler", "after")
         \/ H.op # "edit" /\ Went("handler", "prepare")
         \/ H.op # "edit" /\ Finished("handler")
BY Moves DEF Store, SubInv, Places, Threads, H

\* SaveEdit: the list kept by hand is saved.
LEMMA SaveEditMoves ==
  ASSUME SubInv, SaveEdit
  PROVE  \E list \in Lists :
           /\ SavedTo("store", [subs EXCEPT ![H.id] = Manual], IF active = None THEN H.id ELSE active,
                      IF H.id = active /\ selected \notin DOMAIN Nodes[list] THEN "auto" ELSE selected)
           /\ th'["handler"].op = IF Exists(H.id) THEN "edit" ELSE "add"
           /\ th'["handler"].id = H.id /\ th'["handler"].on = H.on /\ th'["handler"].was.list = list
           /\ th'["handler"].inner = H.inner /\ th'["handler"].coherent = H.coherent
<1>0. H \in SubLocals /\ ThreadsTyped /\ H.at = "save" /\ H.op = "edit"
  BY DEF SubInv, ThreadsTyped, H, Threads, SaveEdit
<1>1. PICK list \in Lists \ {cache[H.id].list} :
        SetSettings([H EXCEPT !.at = "store", !.was = Profile(Manual, list), !.op = IF Exists(H.id) THEN @ ELSE "add"],
                    [subs EXCEPT ![H.id] = Manual], IF active = None THEN H.id ELSE active,
                    IF H.id = active /\ selected \notin DOMAIN Nodes[list] THEN "auto" ELSE selected)
  BY DEF SaveEdit, H
<1> DEFINE op == IF Exists(H.id) THEN "edit" ELSE "add"
           q == [H EXCEPT !.at = "store", !.was = Profile(Manual, list), !.op = op]
<1>2. Profile(Manual, list) \in Profiles /\ Profile(Manual, list).list = list
  BY SubBasics DEF Profile
<1>3. op \in SubOps
  BY DEF SubOps
<1>4. q = [H EXCEPT !.at = "store", !.was = Profile(Manual, list), !.op = IF Exists(H.id) THEN @ ELSE "add"]
  BY <1>0
<1>5. /\ q \in SubLocals /\ q.at = "store" /\ q.was = Profile(Manual, list) /\ q.op = op /\ q.id = H.id /\ q.on = H.on
      /\ q.inner = H.inner /\ q.coherent = H.coherent
  <2> HIDE DEF op
  <2>1. "store" \in Places
    BY DEF Places
  <2> QED  BY <1>0, <1>2, <1>3, <2>1 DEF SubLocals
<1> HIDE DEF q
<1>6. SetSettings(q, [subs EXCEPT ![H.id] = Manual], IF active = None THEN H.id ELSE active,
                    IF H.id = active /\ selected \notin DOMAIN Nodes[list] THEN "auto" ELSE selected)
  BY <1>1, <1>4
<1> QED  BY <1>0, <1>2, <1>5, <1>6, SetSettingsMoves

SaveTo(pc, newSubs, newActive, newSelected) ==
  /\ SavedTo(pc, newSubs, newActive, newSelected)
  /\ Like(th'["handler"], H) /\ th'["handler"].on = H.on /\ th'["handler"].was = H.was

\* SaveRest: the other changes of the settings are saved.
LEMMA SaveRestMoves ==
  ASSUME SubInv, SaveRest
  PROVE  /\ H.at = "save"
         /\ \/ H.op = "remove" /\ SaveTo(IF H.id = active THEN "drop" ELSE "dropOther", [subs EXCEPT ![H.id] = None], active, selected)
            \/ H.op = "choose" /\ SaveTo("prepare", subs, H.id, selected)
            \/ H.op = "node" /\ SaveTo("switch", subs, active, H.arg)
            \/ H.op = "device" /\ core # NoCore /\ SaveTo("prepare", subs, active, selected)
            \/ /\ H.op = "device" /\ core = NoCore /\ SavedTo("idle", subs, active, selected)
               /\ th'["handler"] = Idle
<1>0. H \in SubLocals /\ ThreadsTyped /\ H.at = "save"
  BY DEF SubInv, ThreadsTyped, H, Threads, SaveRest
<1>1. ASSUME NEW pc \in Places, NEW s, NEW a, NEW x, SetSettings([H EXCEPT !.at = pc], s, a, x)
      PROVE  SaveTo(pc, s, a, x)
  <2> DEFINE q == [H EXCEPT !.at = pc]
  <2>1. q \in SubLocals /\ q.at = pc /\ Like(q, H) /\ q.was = H.was /\ q.on = H.on
    BY <1>0, Fields
  <2> HIDE DEF q
  <2>2. SetSettings(q, s, a, x)
    BY <1>1 DEF q
  <2> QED  BY <1>0, <2>1, <2>2, SetSettingsMoves DEF SaveTo
<1>2. {"drop", "dropOther", "prepare", "switch"} \subseteq Places
  BY DEF Places
<1>3. CASE H.op = "remove" /\ SetSettings([H EXCEPT !.at = IF H.id = active THEN "drop" ELSE "dropOther"], [subs EXCEPT ![H.id] = None], active, selected)
  BY <1>0, <1>1, <1>2, <1>3
<1>4. CASE H.op = "choose" /\ SetSettings([H EXCEPT !.at = "prepare"], subs, H.id, selected)
  BY <1>0, <1>1, <1>2, <1>4
<1>5. CASE H.op = "node" /\ SetSettings([H EXCEPT !.at = "switch"], subs, active, H.arg)
  BY <1>0, <1>1, <1>2, <1>5
<1>6. CASE H.op = "device" /\ SetSettings(IF core = NoCore THEN Idle ELSE [H EXCEPT !.at = "prepare"], subs, active, selected)
  <2>1. CASE core = NoCore
    <3>1. SetSettings(Idle, subs, active, selected)
      BY <1>6, <2>1
    <3> QED  BY <1>0, <1>6, <2>1, <3>1, IdleIs, SetSettingsMoves DEF Fresh
  <2>2. CASE core # NoCore
    <3>1. SetSettings([H EXCEPT !.at = "prepare"], subs, active, selected)
      BY <1>6, <2>2
    <3> QED  BY <1>0, <1>1, <1>2, <1>6, <2>2, <3>1
  <2> QED  BY <2>1, <2>2
<1> QED  BY <1>0, <1>3, <1>4, <1>5, <1>6 DEF SaveRest, H

\* Drop: a removed subscription is forgotten.
LEMMA DropMoves ==
  ASSUME SubInv, Drop
  PROVE  /\ H.at = "dropOther" => Finished("handler")
         /\ H.at = "drop" => Went("handler", IF active = None THEN "disconnect" ELSE "prepare")
BY Moves DEF Drop, SubInv, Places, Threads, H

\* Rollback: a choice is taken back.
LEMMA RollbackMoves ==
  ASSUME SubInv, Rollback
  PROVE  SavedTo("idle", subs, H.arg, selected) /\ th'["handler"] = Idle
BY IdleIs, SetSettingsMoves DEF Rollback, SubInv, Fresh, H

\* SwitchNode: a node is chosen in place or by a reconnection.
LEMMA SwitchNodeMoves ==
  ASSUME SubInv, SwitchNode
  PROVE  \/ core # NoCore /\ NeedsRebuild(H.arg) /\ Went("handler", "prepare") /\ UNCHANGED coreVars
         \/ core = NoCore /\ Finished("handler") /\ UNCHANGED coreVars
         \/ /\ core # NoCore /\ ~NeedsRebuild(H.arg) /\ Finished("handler")
            /\ core' = [core EXCEPT !.choice = H.arg, !.borrowed = FALSE] /\ remembered' = H.arg /\ UNCHANGED running
BY Moves DEF SwitchNode, SubInv, Places, Threads, H

ConnectTo ==
  /\ ThreadsTyped' /\ Others({"handler", "loop"}) /\ th'["handler"] = Idle
  /\ th'["loop"].at = (IF L.at = "idle" THEN "look" ELSE L.at)
  /\ Like(th'["loop"], L) /\ th'["loop"].on = L.on /\ th'["loop"].was = L.was /\ th'["loop"].url = L.url

\* Connect: the loop is started.
LEMMA ConnectMoves ==
  ASSUME SubInv, Connect
  PROVE  ConnectTo
<1> DEFINE pc == IF L.at = "idle" THEN "look" ELSE L.at
           q == [th["loop"] EXCEPT !.at = pc]
<1>0. ThreadsTyped /\ "loop" \in Threads /\ "handler" \in Threads /\ th["loop"] \in SubLocals
  BY DEF SubInv, ThreadsTyped, Threads
<1>1. pc \in Places
  BY <1>0 DEF Places, L, SubLocals
<1>2. th' = [th EXCEPT !["handler"] = Idle, !["loop"] = q]
  BY <1>0 DEF Connect, L
<1> HIDE DEF pc
<1>3. q \in SubLocals /\ q.at = pc /\ Like(q, L) /\ q.was = L.was /\ q.on = L.on /\ q.url = L.url
  BY <1>0, <1>1 DEF L, SubLocals, Like
<1> HIDE DEF q
<1> QED  BY <1>0, <1>2, <1>3, IdleIs DEF ConnectTo, ThreadsTyped, Others, pc

\* Disconnect: the core is stopped and the loop with it.
LEMMA DisconnectMoves ==
  ASSUME SubInv, Disconnect
  PROVE  \/ H.at = "disconnect" /\ opMu = None /\ Went("handler", "disconnecting")
            /\ wanted' = FALSE /\ halted' = TRUE /\ opMu' = "handler"
            /\ UNCHANGED <<pre, settingVars, coreVars, cache, offer, prepared, fetching, failed>>
         \/ H.at = "disconnecting" /\ L.at = "idle" /\ Finished("handler") /\ StopCore /\ opMu' = None
            /\ UNCHANGED <<wanted, halted, pre, settingVars, cache, offer, prepared, fetching, failed>>
BY Moves DEF Disconnect, SubInv, Places, Threads, H, L

\* Look: the loop begins to prepare.
LEMMA LookMoves ==
  ASSUME SubInv, Look
  PROVE  Begun("loop", IF pre = NoProfile THEN "prepare" ELSE "ready") /\ th'["loop"].was = pre
<1>0. ThreadsTyped /\ "loop" \in Threads /\ pre \in Profiles /\ {"prepare", "ready"} \subseteq Places
  BY DEF SubInv, Threads, StoreTyped, Places
<1> QED  BY <1>0, Begins DEF Look

\* StartBegins: the loop takes what was prepared, or looks again.
LEMMA StartBeginsMoves ==
  ASSUME SubInv, StartBegins
  PROVE  \/ /\ Went("loop", "preset") /\ prepared.current /\ prepared.list = L.was.list
            /\ remembered' \in {remembered, Choice} /\ UNCHANGED <<core, running>>
         \/ Went("loop", "unprepared") /\ UNCHANGED coreVars
BY Moves DEF StartBegins, SubInv, Places, Threads, L

\* StartCore: the loop starts the core.
LEMMA StartCoreMoves ==
  ASSUME SubInv, StartCore
  PROVE  \/ /\ Went("loop", "started") /\ UNCHANGED <<remembered, running>>
            /\ core' = [list |-> prepared.list, of |-> prepared.of, borrowed |-> FALSE,
                      choice |-> DefaultSelected(prepared.list, remembered)]
         \/ Went("loop", "unprepared") /\ UNCHANGED coreVars
BY Moves DEF StartCore, SubInv, Places, Threads

\* StartDone: the loop has the core up.
LEMMA StartDoneMoves ==
  ASSUME SubInv, StartDone
  PROVE  Begun("loop", "up")
<1> DEFINE q == [Idle EXCEPT !.at = "up"]
<1>1. q \in SubLocals /\ Fresh(q, "up") /\ q.arg = None
  BY IdleIs DEF Fresh, SubLocals, Places
<1>2. th' = [th EXCEPT !["loop"] = q] /\ ThreadsTyped /\ "loop" \in Threads
  BY DEF StartDone, SubInv, Threads
<1> HIDE DEF q
<1>3. ThreadsTyped' /\ Others({"loop"}) /\ th'["loop"] = q
  BY <1>1, <1>2, Replaces
<1> QED  BY <1>1, <1>3 DEF Begun

\* LoopExits: a cancelled loop ends.
LEMMA LoopExitsMoves ==
  ASSUME SubInv, LoopExits
  PROVE  Returned("loop") /\ th'["loop"] = Idle
BY Returns, IdleIs DEF LoopExits, SubInv, Threads

Asked(op, pc, id, arg) ==
  /\ ThreadsTyped' /\ Others({"handler"})
  /\ th'["handler"].at = pc /\ th'["handler"].op = op /\ th'["handler"].id = id /\ th'["handler"].arg = arg
  /\ th'["handler"].on = None /\ ~th'["handler"].inner /\ ~th'["handler"].coherent

\* A request begins at its place, with its operands.
LEMMA Requesting ==
  ASSUME ThreadsTyped, NEW op \in SubOps, NEW pc \in Places, NEW id \in Subs \cup {None},
         NEW arg \in Subs \cup Urls \cup TagsAuto \cup {None}, Ask(op, pc, id, arg)
  PROVE  Asked(op, pc, id, arg)
<1> DEFINE q == [Idle EXCEPT !.at = pc, !.op = op, !.id = id, !.arg = arg]
<1>1. /\ q \in SubLocals /\ q.at = pc /\ q.op = op /\ q.id = id /\ q.arg = arg
      /\ q.on = None /\ ~q.inner /\ ~q.coherent
  BY IdleIs DEF SubLocals, Fresh
<1>2. th' = [th EXCEPT !["handler"] = q] /\ "handler" \in Threads
  BY DEF Ask, Threads
<1> HIDE DEF q
<1>3. ThreadsTyped' /\ Others({"handler"}) /\ th'["handler"] = q
  BY <1>1, <1>2, Replaces
<1> QED  BY <1>1, <1>3 DEF Asked

\* What may be asked for
Requested ==
  \/ \E id \in Subs, url \in Urls : New(id) /\ Asked("add", "fetch", id, url)
  \/ \E id \in Subs, url \in Urls : subs[id] \in Urls /\ Asked("rename", "fetch", id, url)
  \/ \E id \in Subs : Exists(id) /\ Asked("remove", "save", id, None)
  \/ \E id \in Subs : Exists(id) /\ active \in Subs /\ Exists(active) /\ Asked("choose", "save", id, active)
  \/ \E tag \in TagsAuto : Asked("node", "save", None, tag)
  \/ \E id \in Subs : Exists(id) /\ Asked("refresh", "refresh", id, None)
  \/ \E id \in Subs : (subs[id] = Manual \/ New(id)) /\ Asked("edit", "save", id, None)
  \/ Asked("device", "save", None, None)
  \/ Asked("connect", "connect", None, None)
  \/ Asked("disconnect", "disconnect", None, None)

\* Request: a request begins.
LEMMA RequestMoves ==
  ASSUME SubInv, Request
  PROVE  Requested
<1>0. /\ ThreadsTyped /\ active \in Subs \cup {None} /\ (active = None) = (\A id \in Subs : ~Exists(id))
      /\ {"fetch", "save", "refresh", "connect", "disconnect"} \subseteq Places
      /\ {"add", "rename", "remove", "choose", "node", "refresh", "edit", "device", "connect", "disconnect"} \subseteq SubOps
  BY DEF SubInv, SettingsTyped, Places, SubOps
<1>1. CASE \E id \in Subs, url \in Urls : New(id) /\ Ask("add", "fetch", id, url)
  BY <1>0, <1>1, Requesting DEF Requested
<1>2. CASE \E id \in Subs, url \in Urls :
          /\ subs[id] \in Urls /\ (url # subs[id] \/ cache[id] = NoProfile)
          /\ Ask("rename", "fetch", id, url)
  BY <1>0, <1>2, Requesting DEF Requested
<1>3. CASE \E id \in Subs : Exists(id) /\ Ask("remove", "save", id, None)
  BY <1>0, <1>3, Requesting DEF Requested
<1>4. CASE \E id \in Subs : Exists(id) /\ id # active /\ Ask("choose", "save", id, active)
  <2>1. PICK id \in Subs : Exists(id) /\ id # active /\ Ask("choose", "save", id, active)
    BY <1>4
  <2>2. active \in Subs
    BY <1>0, <2>1
  <2>3. Exists(active)
    BY <2>2, SubConstants DEF SubInv, SettingsTyped
  <2>4. Asked("choose", "save", id, active)
    BY <1>0, <2>1, <2>2, Requesting
  <2> QED  BY <2>1, <2>2, <2>3, <2>4 DEF Requested
<1>5. CASE \E tag \in Tags \cup {"auto"} : Ask("node", "save", None, tag)
  BY <1>0, <1>5, Requesting DEF Requested, TagsAuto
<1>6. CASE \E id \in Subs : Exists(id) /\ Ask("refresh", "refresh", id, None)
  BY <1>0, <1>6, Requesting DEF Requested
<1>7. CASE \E id \in Subs : subs[id] = Manual /\ Ask("edit", "save", id, None)
  BY <1>0, <1>7, Requesting DEF Requested
<1>8. CASE \E id \in Subs : New(id) /\ (\A i \in Subs : subs[i] # Manual) /\ Ask("edit", "save", id, None)
  BY <1>0, <1>8, Requesting DEF Requested
<1>9. CASE Ask("device", "save", None, None)
  BY <1>0, <1>9, Requesting DEF Requested
<1>10. CASE active # None /\ ~wanted /\ Ask("connect", "connect", None, None)
  BY <1>0, <1>10, Requesting DEF Requested
<1>11. CASE wanted /\ Ask("disconnect", "disconnect", None, None)
  BY <1>0, <1>11, Requesting DEF Requested
<1> QED
  BY <1>1, <1>2, <1>3, <1>4, <1>5, <1>6, <1>7, <1>8, <1>9, <1>10, <1>11 DEF Request

TimerTo ==
  /\ ThreadsTyped' /\ Others({"timer"}) /\ active \in Subs
  /\ th'["timer"].at = "refresh" /\ th'["timer"].op = "refresh" /\ th'["timer"].id = active
  /\ th'["timer"].on = None /\ ~th'["timer"].inner /\ ~th'["timer"].coherent

\* TimerFires: a timed refresh begins.
LEMMA TimerFiresMoves ==
  ASSUME SubInv, TimerFires
  PROVE  TimerTo
<1> DEFINE q == [Idle EXCEPT !.at = "refresh", !.op = "refresh", !.id = active]
<1>0. ThreadsTyped /\ active \in Subs
  BY DEF SubInv, SettingsTyped, TimerFires
<1>1. /\ q \in SubLocals /\ q.at = "refresh" /\ q.op = "refresh" /\ q.id = active
      /\ q.on = None /\ ~q.inner /\ ~q.coherent
  <2>1. "refresh" \in Places /\ "refresh" \in SubOps
    BY DEF Places, SubOps
  <2> QED  BY <1>0, <2>1, IdleIs DEF SubLocals, Fresh
<1>2. th' = [th EXCEPT !["timer"] = q] /\ "timer" \in Threads
  BY DEF TimerFires, Threads
<1> HIDE DEF q
<1>3. ThreadsTyped' /\ Others({"timer"}) /\ th'["timer"] = q
  BY <1>0, <1>1, <1>2, Replaces
<1> QED  BY <1>0, <1>1, <1>3 DEF TimerTo

\* Rebuild: the core dies and the loop looks again.
LEMMA RebuildMoves ==
  ASSUME SubInv, Rebuild
  PROVE  Went("loop", "look")
BY Moves DEF Rebuild, SubInv, Places, Threads

\* LooksForAnother, RecoverRoute: the loop stays up.
LEMMA RecoverMoves ==
  ASSUME SubInv, LooksForAnother \/ RecoverRoute
  PROVE  /\ ThreadsTyped' /\ Others({"loop"}) /\ L.at = "up" /\ "loop" \in Threads
         /\ th'["loop"] = [L EXCEPT !.arg = th'["loop"].arg] /\ L \in SubLocals /\ th'["loop"] \in SubLocals
<1>1. /\ ThreadsTyped /\ selected \in TagsAuto /\ "loop" \in Threads /\ L \in SubLocals
  BY DEF SubInv, SettingsTyped, Threads, ThreadsTyped, L
<1>2. PICK a \in TagsAuto \cup {None} : th' = [th EXCEPT !["loop"] = [L EXCEPT !.arg = a]]
  BY <1>1 DEF LooksForAnother, RecoverRoute, L
<1>3. [L EXCEPT !.arg = a] \in SubLocals
  BY <1>1 DEF SubLocals
<1>4. ThreadsTyped' /\ Others({"loop"}) /\ th'["loop"] = [L EXCEPT !.arg = a]
  BY <1>1, <1>2, <1>3, Replaces
<1>5. L.at = "up"
  BY DEF LooksForAnother, RecoverRoute, L
<1> QED  BY <1>1, <1>3, <1>4, <1>5 DEF SubLocals

\* Settings as they are saved keep their types, and what was prepared stays prepared
\* for a subscription that is no longer the active one.
LEMMA SavedSettings ==
  ASSUME SubInv, NEW pc, NEW s \in [Subs -> {None, Manual} \cup Urls], NEW a, NEW x \in TagsAuto,
         SavedTo(pc, s, a, x)
  PROVE  /\ SettingsTyped'
         /\ (a \in Subs /\ s[a] # None => active' = a)
<1> DEFINE left == {id \in Subs : s[id] # None}
<1>1. /\ subs' = s /\ selected' = x
      /\ active' \in IF a \in left THEN {a} ELSE IF left = {} THEN {None} ELSE left
  BY DEF SavedTo
<1>2. CASE left = {}
  <2>1. active' = None /\ \A id \in Subs : subs'[id] = None
    BY <1>1, <1>2
  <2> QED  BY <1>1, <2>1 DEF SettingsTyped, Exists
<1>3. CASE left # {}
  <2>1. active' \in left /\ (a \in left => active' = a)
    BY <1>1, <1>3
  <2>2. active' \in Subs /\ s[active'] # None /\ active' # None
    BY <2>1, SubConstants
  <2> QED  BY <1>1, <2>1, <2>2 DEF SettingsTyped, Exists
<1> QED  BY <1>2, <1>3

\* What holds of a goroutine that went on, ended, began anew, or came back
LEMMA KeptFits ==
  ASSUME Threading, NEW u \in Threads, th'[u] = th[u], active' = active
  PROVE  Placed(u, th[u])' /\ InHand(th[u])'
BY DEF Threading, Placed, InHand, Fetching

\* Whose settings are out of date is where it was, with the same in hand.
LEMMA LooseFits ==
  ASSUME Threading, NEW u \in {"timer", "loop"}, Loosened(u)
  PROVE  Placed(u, th[u])' /\ InHand(th[u])'
<1>1. u \in Threads
  BY DEF Threads
<1> QED  BY <1>1 DEF Threading, Placed, InHand, Fetching, Loosened

\* Who is idle has nothing in hand.
LEMMA IdleFits ==
  ASSUME NEW u \in Threads, th'[u] = Idle
  PROVE  Placed(u, th[u])' /\ InHand(th[u])'
BY IdleIs, SubBasics
   DEF Placed, InHand, Fetching, Fresh, TimerPlaces, LoopPlaces, Places

Free == {"prepare", "reread", "nil", "unprepared", "look", "preset", "started", "rollback",
         "disconnect", "disconnecting"}

\* Who goes on to a place it may be at still has what it needs there.
LEMMA WentFits ==
  ASSUME Threading, NEW t \in Threads, NEW pc \in Free \cup {"swapping"}, Went(t, pc),
         th[t].at # "waiting", active' = active, pc = "swapping" => th[t].at = "swap",
         t = "handler" => pc \notin {"look", "preset", "started"},
         t = "timer" => pc \in TimerPlaces, t = "loop" => pc \in LoopPlaces
  PROVE  Placed(t, th[t])' /\ InHand(th[t])'
BY DEF Threading, Placed, InHand, Fetching, Went, Like, Free, Places

\* Who has refreshed goes on to where it may be, with what it needs.
LEMMA AfterFits ==
  ASSUME ThreadsTyped, Threading, NEW t \in Threads, NEW c \in BOOLEAN, AfterOf(th'[t], th[t], c),
         th[t].at \in {"refresh", "waiting", "fetch"}, active' = active,
         t = "loop" => ~c \/ th[t].inner
  PROVE  Placed(t, th[t])' /\ InHand(th[t])'
<1>1. th[t].was \in Profiles /\ th[t].id \in Subs
  BY DEF ThreadsTyped, SubLocals, Threading, InHand
<1>2. CASE th'[t] = Idle
  BY <1>2, IdleFits
<1>3. CASE th[t].inner
  BY <1>1, <1>3, SubBasics
     DEF Threading, Placed, InHand, Fetching, AfterOf, Like, Places, TimerPlaces,
         LoopPlaces
<1>4. CASE ~th[t].inner /\ c /\ th'[t].at = "after" /\ Like(th'[t], th[t])
  BY <1>1, <1>4, SubBasics
     DEF Threading, Placed, InHand, Fetching, AfterOf, Like, Places, TimerPlaces,
         LoopPlaces
<1> QED  BY <1>2, <1>3, <1>4 DEF AfterOf

\* Who begins anew is where it may be, with what it needs.
LEMMA BegunFits ==
  ASSUME NEW t \in Threads, NEW pc \in {"ready", "swap", "prepare", "up"}, Begun(t, pc),
         pc \in {"ready", "swap"} => th'[t].was.list \in Lists,
         t = "handler" => pc \in {"swap", "prepare"}, t = "timer" => pc \in {"swap", "prepare"},
         t = "loop" => pc # "swap"
  PROVE  Placed(t, th[t])' /\ InHand(th[t])'
BY SubBasics
   DEF Placed, InHand, Fetching, Begun, Fresh, Places, TimerPlaces, LoopPlaces

\* The others stay as they are.
LEMMA OthersFit ==
  ASSUME Threading, NEW S, Others(S), active' = active,
         \A u \in Threads \cap S : Placed(u, th[u])' /\ InHand(th[u])'
  PROVE  Threading'
<1>1. ASSUME NEW u \in Threads
      PROVE  Placed(u, th[u])' /\ InHand(th[u])'
  <2>1. CASE u \in S
    BY <2>1
  <2>2. CASE u \notin S
    BY <2>2, KeptFits DEF Others
  <2> QED  BY <2>1, <2>2
<1> QED  BY <1>1 DEF Threading

\* The call of t returns, and those who waited for it wake up.
LEMMA ReturnedFits ==
  ASSUME ThreadsTyped, Threading, Fetches, NEW t \in Threads, Returned(t), active' = active,
         Placed(t, th[t])' /\ InHand(th[t])'
  PROVE  Threading'
<1>1. ASSUME NEW u \in Threads \ {t}
      PROVE  Placed(u, th[u])' /\ InHand(th[u])'
  <2>1. CASE th'[u] = th[u]
    BY <2>1, KeptFits
  <2>2. CASE th[u].on = t /\ AfterOf(th'[u], th[u], FALSE)
    <3>1. th[u].at = "waiting"
      BY <2>2, SubBasics DEF Threading, InHand, Threads, None
    <3> QED  BY <2>2, <3>1, AfterFits
  <2> QED  BY <2>1, <2>2 DEF Returned, Woken
<1> QED  BY <1>1 DEF Threading

\* The handler saved settings.
LEMMA SavedFits ==
  ASSUME Threading, Loosened("timer"), Loosened("loop"),
         Placed("handler", th["handler"])' /\ InHand(th["handler"])'
  PROVE  Threading'
<1>1. \A u \in {"timer", "loop"} : Placed(u, th[u])' /\ InHand(th[u])'
  BY LooseFits
<1> QED  BY <1>1 DEF Threading, Threads

\* What holds of the request in hand as others move, and as it goes on
LEMMA OtherHandling ==
  ASSUME Handling, UNCHANGED settingVars, th'["handler"] = H,
         \A id \in Subs : fetching'[id] \in {fetching[id], None} \/ subs[id] \in Urls
  PROVE  Handling'
BY DEF Handling, Fetching, H, Exists, settingVars

\* An idle handler has no request.
LEMMA IdleHandling ==
  ASSUME th'["handler"] = Idle
  PROVE  Handling'
BY IdleIs, SubBasics DEF Handling, Fetching, H, Fresh, None

\* A handler that goes on is still about the same.
LEMMA WentHandling ==
  ASSUME Handling, UNCHANGED <<subs, selected>>,
         NEW pc \in {"prepare", "unprepared", "swapping", "disconnect", "disconnecting"},
         Went("handler", pc)
  PROVE  Handling'
BY DEF Handling, Fetching, H, Exists, Went, Like

\* A handler that has refreshed is still about the same.
LEMMA AfterHandling ==
  ASSUME Handling, UNCHANGED settingVars, NEW c \in BOOLEAN, AfterOf(th'["handler"], H, c),
         H.at \in {"refresh", "waiting"} \/ Fetching(H)
  PROVE  Handling'
<1>1. CASE th'["handler"] = Idle
  BY <1>1, IdleHandling
<1>2. CASE th'["handler"].at \in {"reread", "unprepared", "build"} /\ Like(th'["handler"], H)
  BY <1>2 DEF Handling, Fetching, H, Exists, Like, settingVars
<1>3. CASE ~H.inner /\ th'["handler"].at = "after" /\ Like(th'["handler"], H)
  BY <1>3 DEF Handling, Fetching, H, Like
<1> QED  BY <1>1, <1>2, <1>3 DEF AfterOf

\* Another's call returns, and the request may have waited for it.
LEMMA WokenHandling ==
  ASSUME Handling, Threading, UNCHANGED settingVars, NEW t \in Threads \ {"handler"}, Returned(t),
         ThreadsTyped, fetching \in [Subs -> Threads \cup {None}]
  PROVE  Handling'
<1>1. "handler" \in Threads \ {t}
  BY DEF Threads
<1>2. CASE th'["handler"] = H
  <2>1. \A id \in Subs : fetching'[id] \in {fetching[id], None}
    BY DEF Returned
  <2> QED  BY <1>2, <2>1, OtherHandling
<1>3. CASE H.on = t /\ AfterOf(th'["handler"], H, FALSE)
  <2>1. H.at = "waiting"
    BY <1>1, <1>3, SubBasics DEF Threading, InHand, H, Threads, None
  <2> QED  BY <1>3, <2>1, AfterHandling
<1> QED  BY <1>1, <1>2, <1>3 DEF Returned, Woken, H

\* Nobody fetches for an identifier that nobody knows, nor for the list kept by hand.
LEMMA NoFetchOfNew ==
  ASSUME Fetches, fetching \in [Subs -> Threads \cup {None}], NEW id \in Subs,
         New(id) \/ subs[id] = Manual
  PROVE  fetching[id] = None
BY SubBasics DEF Fetches, New

\* u neither begins nor ends to refresh, nor to wait for who does.
Quiet(u) ==
  \/ /\ th'[u].at = th[u].at /\ th'[u].op = th[u].op
     /\ th'[u].id = th[u].id /\ th'[u].on = th[u].on
  \/ ~Fetching(th[u]) /\ ~Fetching(th'[u]) /\ th'[u].at # "waiting"

\* If nobody begins or ends a fetch, who refreshes what is as before.
LEMMA QuietFetches ==
  ASSUME Fetches, UNCHANGED fetching, \A u \in Threads : Quiet(u),
         \A id \in Subs : subs'[id] = Manual => subs[id] = Manual \/ fetching[id] = None
  PROVE  Fetches'
BY DEF Fetches, Fetching, Quiet

\* The same when one goroutine moves and the others stay.
LEMMA OthersQuiet ==
  ASSUME Fetches, UNCHANGED <<fetching, settingVars>>, NEW S, Others(S),
         \A u \in Threads \cap S : Quiet(u)
  PROVE  Fetches'
<1>1. \A u \in Threads : Quiet(u)
  BY DEF Others, Quiet
<1> QED  BY <1>1, QuietFetches DEF settingVars

\* The same when settings are saved.
LEMMA SavedQuiet ==
  ASSUME Fetches, UNCHANGED fetching, Loosened("timer"), Loosened("loop"), Quiet("handler"),
         \A id \in Subs : subs'[id] = Manual => subs[id] = Manual \/ fetching[id] = None
  PROVE  Fetches'
<1>1. \A u \in Threads : Quiet(u)
  BY DEF Threads, Loosened, Quiet
<1> QED  BY <1>1, QuietFetches

\* Who returns refreshes nothing any more, and nobody waits for it.
LEMMA ReturnedFetches ==
  ASSUME ThreadsTyped, Threading, Fetches, fetching \in [Subs -> Threads \cup {None}],
         NEW t \in Threads, Returned(t), UNCHANGED subs, ~Fetching(th'[t]), th'[t].at # "waiting"
  PROVE  Fetches'
<1>1. \A u \in Threads : u # None
  BY DEF Threads, None
<1>2. fetching' = [id \in Subs |-> IF fetching[id] = t THEN None ELSE fetching[id]]
  BY DEF Returned
<1>3. ASSUME NEW id \in Subs, NEW u \in Threads
      PROVE  fetching'[id] = u <=> Fetching(th'[u]) /\ th'[u].id = id
  <2>1. CASE u = t
    BY <1>1, <1>2, <2>1
  <2>2. CASE u # t /\ th'[u] = th[u]
    BY <1>1, <1>2, <2>2 DEF Fetches
  <2>3. CASE u # t /\ th[u].on = t /\ AfterOf(th'[u], th[u], FALSE)
    <3>1. th[u].at = "waiting"
      BY <1>1, <2>3 DEF Threading, InHand
    <3>2. ~Fetching(th[u]) /\ ~Fetching(th'[u])
      BY <2>3, <3>1, IdleIs DEF Fetching, AfterOf, Fresh
    <3> QED  BY <1>1, <1>2, <2>3, <3>2 DEF Fetches
  <2> QED  BY <2>1, <2>2, <2>3 DEF Returned, Woken
<1>4. ASSUME NEW u \in Threads, th'[u].at = "waiting"
      PROVE  fetching'[th'[u].id] = th'[u].on
  <2>1. u # t
    BY <1>4
  <2>2. CASE th'[u] = th[u] /\ (th[u].on = t => \A id \in Subs : fetching[id] # t)
    BY <1>2, <1>4, <2>2 DEF Fetches, Threading, InHand
  <2>3. CASE AfterOf(th'[u], th[u], FALSE)
    BY <1>4, <2>3, IdleIs DEF AfterOf, Fresh
  <2> QED  BY <2>1, <2>2, <2>3 DEF Returned, Woken
<1>5. \A id \in Subs : subs'[id] = Manual => fetching'[id] = None
  BY <1>2 DEF Fetches
<1> QED  BY <1>3, <1>4, <1>5 DEF Fetches

\* Who is about to refresh has something to refresh for.
LEMMA AboutToFetch ==
  ASSUME Threading, Handling, NEW t \in Threads, th[t].at = "refresh"
  PROVE  th[t].op \notin {"add", "rename"}
<1>1. CASE t = "handler"
  BY <1>1 DEF Handling, Threading, InHand, H, None
<1>2. CASE t # "handler"
  BY <1>2 DEF Threading, Placed, Threads, None
<1> QED  BY <1>1, <1>2

Swapping == {"swapping", "disconnecting"}
Underway == LoopPlaces \ {"idle", "preset", "started", "up"}

\* u neither takes nor gives the lock, and the loop neither starts nor ends.
Still(u) ==
  \/ th'[u].at = th[u].at
  \/ /\ th[u].at \notin Swapping /\ th'[u].at \notin Swapping
     /\ u = "loop" => th[u].at \in Underway /\ th'[u].at \in Underway

\* If no goroutine takes or leaves a place of the data plane, it fits as before.
LEMMA StillPlane ==
  ASSUME Plane, UNCHANGED loopVars, UNCHANGED running, prepared' = prepared \/ ~Starting,
         core' = core \/ (core # NoCore /\ core' # NoCore /\ core'.list = core.list /\ core'.of = core.of),
         \A u \in Threads : Still(u)
  PROVE  Plane'
<1>1. "loop" \in Threads /\ "handler" \in Threads
  BY DEF Threads
<1>2. Still("loop") /\ Still("handler")
  BY <1>1
<1>3. /\ (L.at)' = L.at \/ (L.at \in Underway /\ (L.at)' \in Underway)
      /\ H.at = "disconnecting" <=> (H.at)' = "disconnecting"
  BY <1>2 DEF Still, L, H, Swapping
<1>4. \A u \in Threads : th'[u].at \in Swapping \/ th[u].at \in Swapping => th'[u].at = th[u].at
  BY DEF Still
<1>5. Starting' = Starting
  BY <1>3 DEF Starting, L, Underway
<1> QED
  BY <1>3, <1>4, <1>5 DEF Plane, Swapping, Underway, LoopPlaces, loopVars, L, H, Starting

\* The same when one goroutine moves and the others stay.
LEMMA OthersStill ==
  ASSUME Plane, UNCHANGED loopVars, UNCHANGED <<core, running>>, prepared' = prepared \/ ~Starting,
         NEW S, Others(S), \A u \in Threads \cap S : Still(u)
  PROVE  Plane'
<1>1. \A u \in Threads : Still(u)
  BY DEF Others, Still
<1> QED  BY <1>1, StillPlane

\* Who wakes up takes no place of the data plane.
LEMMA WokenStill ==
  ASSUME Threading, NEW t \in Threads, NEW u \in Threads \ {t}, Returned(t)
  PROVE  Still(u)
<1>1. CASE th'[u] = th[u]
  BY <1>1 DEF Still
<1>2. CASE th[u].on = t /\ AfterOf(th'[u], th[u], FALSE)
  <2>1. th[u].at = "waiting" /\ (u = "loop" => th[u].inner)
    BY <1>2 DEF Threading, InHand, Placed, Threads, None
  <2> QED  BY <1>2, <2>1, IdleIs
              DEF Still, Swapping, Underway, LoopPlaces, AfterOf, Fresh
<1> QED  BY <1>1, <1>2 DEF Returned, Woken

\* The loop is up, and nobody knows of a failure.
Claims == L.at = "up" /\ ~failed
PlaneKept == UNCHANGED <<core, active, selected, failed>> /\ ((L.at)' = "up" => L.at = "up")

\* Nothing is claimed of a core that is not up.
LEMMA NotUpHonest ==
  ASSUME (L.at)' # "up" \/ failed'
  PROVE  Honest'
BY DEF Honest

\* A core that runs what the settings name goes on to.
LEMMA FirmHonest ==
  ASSUME PlaneKept, Claims => core.of = active /\ InForce
  PROVE  Honest'
BY DEF Honest, PlaneKept, Claims, InForce

\* With no restart under way the core runs what the settings name.
LEMMA Firm ==
  ASSUME Honest, ~Restarting, H.at # "switch", H.op # "edit" \/ H.at \notin {"store", "after"}
  PROVE  Claims => core.of = active /\ InForce
BY DEF Honest, Claims, Dropped

\* While another subscription is chosen the node stays in force.
LEMMA ChooseInForce ==
  ASSUME Honest, Handling, H.op = "choose", Claims
  PROVE  InForce
BY DEF Honest, Claims, Dropped, Handling

\* A handler on the way to a restart may leave core and settings apart.
LEMMA StepHonest ==
  ASSUME Honest, Handling, PlaneKept, Restarting',
         th'["handler"].op = "choose" => H.op = "choose"
  PROVE  Honest'
<1>1. CASE th'["handler"].op # "choose"
  BY <1>1 DEF Honest, H
<1>2. CASE H.op = "choose"
  BY <1>2, ChooseInForce DEF Honest, PlaneKept, Claims, InForce
<1> QED  BY <1>1, <1>2

\* What others do is nothing to the core and the settings.
LEMMA OtherHonest ==
  ASSUME Honest, PlaneKept, th'["handler"] = H,
         H.at = "after" /\ H.op = "edit" => cache'[H.id] = cache[H.id]
  PROVE  Honest'
BY DEF Honest, PlaneKept, H, Restarting, InForce, Dropped

\* A core that is up belongs to a subscription.
LEMMA UpIsOf ==
  ASSUME CoreTyped, Plane, L.at = "up"
  PROVE  /\ core # NoCore /\ core.of \in Subs /\ core.list \in Lists /\ running = core.list
         /\ core.choice \in {"auto"} \cup DOMAIN Nodes[core.list]
BY DEF CoreTyped, Plane

\* Nobody is connected who does not want to be.
LEMMA UpIsWanted ==
  ASSUME Plane, ~wanted, H.at # "disconnecting"
  PROVE  L.at # "up"
BY DEF Plane

\* The service has just started: nobody is anywhere, but the loop may be about to look.
AtStart ==
  /\ SettingsTyped /\ StoreTyped /\ ThreadsTyped /\ remembered \in TagsAuto
  /\ \A t \in {"handler", "timer"} : th[t] = Idle
  /\ Fresh(th["loop"], IF wanted THEN "look" ELSE "idle")
  /\ core = NoCore /\ running = None /\ prepared = Nothing
  /\ \A id \in Subs : fetching[id] = None
  /\ opMu = None /\ halted = FALSE

\* The invariant holds when the service starts, the first time or again.
LEMMA AtStartRight ==
  ASSUME AtStart
  PROVE  SubInv
<1>1. Fresh(th["handler"], "idle") /\ Fresh(th["timer"], "idle") /\ Idle.arg = None
  BY IdleIs DEF AtStart
<1>2. \A t \in Threads : /\ th[t].at \in {"idle", "look"} /\ th[t].op = None /\ th[t].on = None
                         /\ ~th[t].inner /\ ~th[t].coherent
                         /\ t # "loop" => th[t].at = "idle"
  BY <1>1 DEF AtStart, Fresh, Threads
<1>3. CoreTyped
  BY DEF AtStart, CoreTyped, Nothing
<1>4. Threading
  BY <1>2 DEF Threading, Placed, InHand, Fetching, Places, TimerPlaces, LoopPlaces
<1>5. Handling
  BY <1>1 DEF Handling, Fetching, Fresh, H, None
<1>6. Fetches
  BY <1>2 DEF Fetches, Fetching, AtStart, Threads, None
<1>7. Plane
  <2>1. \A t \in Threads : t # None
    BY DEF Threads, None
  <2>2. L.at \in {"idle", "look"} /\ (L.at = "look" => wanted) /\ H.at = "idle"
    BY <1>1 DEF AtStart, Fresh, L, H
  <2> QED  BY <1>2, <2>1, <2>2 DEF Plane, AtStart, Starting, L
<1>8. Honest
  BY <1>2 DEF Honest, AtStart, L, Threads
<1> QED  BY <1>3, <1>4, <1>5, <1>6, <1>7, <1>8 DEF SubInv, AtStart

\* The invariant holds initially.
LEMMA SubInitRight ==
  ASSUME SubInit
  PROVE  SubInv
<1>1. First \in Subs
  BY SubConstants DEF First
<1>2. SettingsTyped
  <2>1. selected \in TagsAuto
    BY SubBasics DEF SubInit, TagsAuto
  <2>2. PICK mine \in {<<None, None>>, <<Manual, "v">>, <<"u", None>>, <<"u", "v">>} :
          /\ subs = [id \in Subs |-> IF id = First THEN mine[1] ELSE mine[2]]
          /\ active = IF mine[1] = None THEN None ELSE First
    BY DEF SubInit
  <2>3. mine[1] \in {None, Manual, "u"} /\ mine[2] \in {None, "v"} /\ (mine[1] = None => mine[2] = None)
    <3>1. CASE mine = <<None, None>>
      BY <3>1
    <3>2. CASE mine = <<Manual, "v">>
      BY <3>2 DEF Manual, None
    <3>3. CASE mine = <<"u", None>>
      BY <3>3 DEF None
    <3>4. CASE mine = <<"u", "v">>
      BY <3>4 DEF None
    <3> QED  BY <3>1, <3>2, <3>3, <3>4
  <2>4. subs \in [Subs -> {None, Manual} \cup Urls]
    BY <2>2, <2>3 DEF Urls
  <2>5. CASE mine[1] = None
    BY <2>1, <2>2, <2>3, <2>4, <2>5 DEF SettingsTyped, Exists
  <2>6. CASE mine[1] # None
    BY <1>1, <2>1, <2>2, <2>4, <2>6, SubConstants DEF SettingsTyped, Exists
  <2> QED  BY <2>5, <2>6
<1>3. StoreTyped
  <2>1. offer \in [Urls -> Offers]
    BY SubBasics DEF SubInit, Offers
  <2>2. cache \in [Subs -> Profiles]
    <3>1. PICK lost \in {{}, {First}, Subs \ {First}} : cache = [id \in Subs |->
             IF ~Exists(id) \/ id \in lost THEN NoProfile
             ELSE Profile(subs[id], IF subs[id] = Manual THEN "both" ELSE offer[subs[id]])]
      BY DEF SubInit
    <3>2. ASSUME NEW id \in Subs, Exists(id)
          PROVE  Profile(subs[id], IF subs[id] = Manual THEN "both" ELSE offer[subs[id]]) \in Profiles
      <4>1. subs[id] \in Urls \cup {Manual}
        BY <1>2, <3>2 DEF SettingsTyped, Exists
      <4>2. offer = [url \in Urls |-> IF url = "u" THEN "both" ELSE "fewer"]
        BY DEF SubInit
      <4>3. (IF subs[id] = Manual THEN "both" ELSE offer[subs[id]]) \in Lists
        BY <4>1, <4>2, SubBasics
      <4> QED  BY <4>1, <4>3, SubBasics DEF Profile
    <3> QED  BY <3>1, <3>2, SubBasics
  <2>3. wanted \in BOOLEAN /\ halted \in BOOLEAN /\ failed \in BOOLEAN /\ pre \in Profiles
        /\ fetching \in [Subs -> Threads \cup {None}] /\ opMu \in Threads \cup {None}
    BY SubBasics DEF SubInit
  <2> QED  BY <2>1, <2>2, <2>3 DEF StoreTyped
<1>4. /\ ThreadsTyped /\ \A t \in {"handler", "timer"} : th[t] = Idle
      /\ Fresh(th["loop"], IF wanted THEN "look" ELSE "idle")
  <2> DEFINE q == [Idle EXCEPT !.at = "look"]
  <2>1. q \in SubLocals /\ Fresh(q, "look")
    BY IdleIs DEF Fresh, SubLocals, Places
  <2>2. th = [t \in Threads |-> IF t = "loop" /\ wanted THEN q ELSE Idle]
    BY DEF SubInit
  <2> HIDE DEF q
  <2> QED  BY <2>1, <2>2, IdleIs DEF ThreadsTyped, Threads
<1>5. remembered \in TagsAuto
  BY SubBasics DEF SubInit, TagsAuto
<1> QED  BY <1>2, <1>3, <1>4, <1>5, AtStartRight DEF SubInit, AtStart

\* Revive keeps the invariant: a service that starts has its goroutines idle.
LEMMA ReviveKeeps ==
  ASSUME SubInv, Revive
  PROVE  SubInv'
<1>1. Revived
  BY ReviveMoves
<1>2. SettingsTyped'
  BY DEF Revive, SubInv, SettingsTyped, settingVars, Exists
<1>3. StoreTyped'
  BY SubBasics DEF Revive, SubInv, StoreTyped
<1>4. AtStart'
  BY <1>1, <1>2, <1>3 DEF AtStart, Revived, Revive, SubInv, CoreTyped
<1> QED  BY <1>4, AtStartRight, PTL

\* Refresh keeps the invariant: who refreshes waits, has an answer, or begins to fetch.
LEMMA RefreshKeeps ==
  ASSUME SubInv, NEW t \in Threads, Refresh(t)
  PROVE  SubInv'
<1>0. RefreshTo(t)
  BY RefreshMoves
<1>1. ThreadsTyped'
  BY <1>0 DEF RefreshTo
<1>2. SettingsTyped'
  BY <1>0, SubBasics
     DEF Refresh, RefreshTo, SettingsTyped, Exists, TagsAuto, SubInv, settingVars,
         coreVars, loopVars
<1>3. StoreTyped'
  BY <1>0, SubBasics
     DEF Refresh, RefreshTo, StoreTyped, SubInv, settingVars, coreVars, loopVars
<1>4. CoreTyped'
  BY <1>0, SubBasics
     DEF Refresh, RefreshTo, CoreTyped, SubInv, settingVars, coreVars, loopVars
<1>5. Threading'
  <2>0. ThreadsTyped /\ Threading /\ UNCHANGED active
    BY DEF SubInv, Refresh, settingVars
  <2>1. Placed(t, th[t])' /\ InHand(th[t])'
    <3>1. th[t].at = "refresh" /\ th[t].id \in Subs /\ Placed(t, th[t]) /\ InHand(th[t])
      BY <1>0, <2>0 DEF RefreshTo, Threading, InHand
    <3>2. CASE th'[t].at = "waiting" /\ th'[t].on \in Threads /\ Like(th'[t], th[t])
      BY <2>0, <3>1, <3>2, SubBasics
         DEF Placed, InHand, Fetching, Like, Places, TimerPlaces, LoopPlaces,
             Threads, None
    <3>3. CASE AfterOf(th'[t], th[t], FALSE)
      BY <2>0, <3>1, <3>3, AfterFits
    <3>4. CASE th'[t].at = "fetch" /\ th'[t].on = th[t].on /\ Like(th'[t], th[t]) /\ th'[t].url \in Urls
      BY <2>0, <3>1, <3>4, SubBasics
         DEF None, Placed, InHand, Fetching, Like, Places, TimerPlaces, LoopPlaces
    <3> QED  BY <1>0, <3>2, <3>3, <3>4 DEF RefreshTo
  <2> QED  BY <1>0, <2>0, <2>1, OthersFit DEF RefreshTo
<1>6. Handling'
  <2>0. ThreadsTyped /\ Handling /\ UNCHANGED settingVars /\ "handler" \in Threads
    BY DEF SubInv, Refresh, Threads
  <2>1. CASE t # "handler"
    <3>1. th'["handler"] = H
      BY <1>0, <2>0, <2>1 DEF RefreshTo, Others, H
    <3>2. \A id \in Subs : fetching'[id] = fetching[id] \/ subs[id] \in Urls
      BY <1>0 DEF RefreshTo, SubInv, StoreTyped
    <3> QED  BY <2>0, <3>1, <3>2, OtherHandling
  <2>2. CASE t = "handler"
    <3>1. H.at = "refresh"
      BY <1>0, <2>2 DEF RefreshTo, H
    <3>2. CASE AfterOf(th'[t], th[t], FALSE)
      BY <2>0, <2>2, <3>1, <3>2, AfterHandling DEF H
    <3>3. CASE Like(th'[t], th[t]) /\ th'[t].at \in {"waiting", "fetch"}
      <4>1. H.op \in {None, "choose", "refresh"}
        BY <2>0, <3>1 DEF Handling, SubInv, Threading, InHand, H
      <4> QED  BY <2>0, <2>2, <3>1, <3>3, <4>1
                  DEF Like, Handling, Fetching, settingVars, H, Exists, None
    <3> QED  BY <1>0, <2>2, <3>2, <3>3 DEF RefreshTo
  <2> QED  BY <2>1, <2>2
<1>7. Fetches'
  <2>0. /\ ThreadsTyped /\ Threading /\ Handling /\ Fetches /\ fetching \in [Subs -> Threads \cup {None}]
        /\ UNCHANGED settingVars /\ "handler" \in Threads /\ "loop" \in Threads
    BY DEF SubInv, StoreTyped, Refresh, Threads
  <2>1. th[t].at = "refresh" /\ th[t].op \notin {"add", "rename"} /\ th[t].id \in Subs
    BY <1>0, <2>0, AboutToFetch DEF RefreshTo, Threading, InHand
  <2>2. CASE th'[t].at = "waiting" /\ th'[t].on = fetching[th[t].id] /\ Like(th'[t], th[t]) /\ UNCHANGED fetching
    BY <1>0, <2>0, <2>1, <2>2
       DEF RefreshTo, Others, Like, Fetches, Fetching, settingVars
  <2>3. CASE AfterOf(th'[t], th[t], FALSE) /\ UNCHANGED fetching
    <3>1. Quiet(t)
      BY <2>1, <2>3, IdleIs DEF Quiet, Fetching, AfterOf, Fresh
    <3> QED  BY <1>0, <2>0, <2>3, <3>1, OthersQuiet DEF RefreshTo
  <2>4. CASE /\ th'[t].at = "fetch" /\ Like(th'[t], th[t]) /\ fetching' = [fetching EXCEPT ![th[t].id] = t]
             /\ fetching[th[t].id] = None /\ subs[th[t].id] \in Urls
    <3>1. Fetching(th'[t]) /\ ~Fetching(th[t]) /\ th'[t].id = th[t].id
      BY <2>1, <2>4 DEF Fetching, Like
    <3>2. \A u \in Threads \ {t} : th'[u] = th[u]
      BY <1>0 DEF RefreshTo, Others
    <3>3. /\ Manual \notin Urls /\ None \notin Threads /\ subs' = subs
      BY <2>0 DEF Manual, Urls, None, Threads, settingVars
    <3>4. \A id \in Subs, u \in Threads : fetching'[id] = u <=> Fetching(th'[u]) /\ th'[u].id = id
      <4>1. ASSUME NEW id \in Subs, NEW u \in Threads
            PROVE  fetching'[id] = u <=> Fetching(th'[u]) /\ th'[u].id = id
        <5>1. CASE u = t
          BY <2>0, <2>1, <2>4, <3>1, <5>1 DEF Fetches
        <5>2. CASE u # t
          BY <2>0, <2>1, <2>4, <3>2, <3>3, <5>2 DEF Fetches
        <5> QED  BY <5>1, <5>2
      <4> QED  BY <4>1
    <3>5. \A u \in Threads : th'[u].at = "waiting" => fetching'[th'[u].id] = th'[u].on
      <4>1. ASSUME NEW u \in Threads, th'[u].at = "waiting"
            PROVE  fetching'[th'[u].id] = th'[u].on
        <5>1. u # t /\ th'[u] = th[u]
          BY <2>4, <3>2, <4>1
        <5>2. th[u].on # None /\ fetching[th[u].id] = th[u].on
          BY <2>0, <4>1, <5>1 DEF Fetches, Threading, InHand
        <5> QED  BY <2>0, <2>1, <2>4, <5>1, <5>2
      <4> QED  BY <4>1
    <3>6. \A id \in Subs : subs'[id] = Manual => fetching'[id] = None
      BY <2>0, <2>1, <2>4, <3>3 DEF Fetches
    <3> QED  BY <3>4, <3>5, <3>6 DEF Fetches
  <2> QED  BY <1>0, <2>2, <2>3, <2>4 DEF RefreshTo
<1>8. Plane'
  <2>0. /\ Plane /\ Threading /\ ThreadsTyped /\ UNCHANGED loopVars /\ UNCHANGED <<core, running>>
        /\ prepared' = prepared
    BY DEF SubInv, Refresh, coreVars
  <2>1. Still(t)
    BY <1>0, <2>0, IdleIs
       DEF Refresh, Still, Swapping, Underway, LoopPlaces, Placed, Fresh, Threading,
           InHand, RefreshTo, AfterOf
  <2>2. Others({t})
    BY <1>0 DEF Refresh, RefreshTo
  <2> QED  BY <2>0, <2>1, <2>2, OthersStill
<1>9. Honest'
  <2>0. /\ Honest /\ Handling /\ Plane /\ CoreTyped /\ Threading /\ Fetches
        /\ "loop" \in Threads /\ "handler" \in Threads
    BY DEF SubInv, Threads
  <2>1. PlaneKept
    BY <1>0, <2>0
       DEF Refresh, PlaneKept, settingVars, coreVars, L, RefreshTo, AfterOf, Others, Idle
  <2>2. CASE t # "handler"
    <3>1. th'["handler"] = H /\ UNCHANGED cache
      BY <1>0, <2>0, <2>2 DEF Refresh, Others, H, RefreshTo, Others, Idle
    <3> QED  BY <2>0, <2>1, <3>1, OtherHonest
  <2>3. CASE t = "handler"
    <3>1. H.at = "refresh" /\ H.op # "edit"
      BY <1>0, <2>0, <2>3 DEF RefreshTo, H, Handling, Threading, InHand, None
    <3>2. CASE H.inner
      <4>1. /\ th'["handler"].at \in {"waiting", "fetch", "reread", "unprepared", "build"}
            /\ th'["handler"].inner /\ th'["handler"].op = H.op
        BY <1>0, <2>3, <3>2 DEF RefreshTo, AfterOf, Like, H
      <4> QED  BY <2>0, <2>1, <4>1, StepHonest DEF Restarting, H
    <3>3. CASE ~H.inner
      <4>1. ~Restarting
        BY <3>1, <3>3 DEF Restarting
      <4> QED  BY <2>0, <2>1, <3>1, <4>1, Firm, FirmHonest
    <3> QED  BY <3>2, <3>3
  <2> QED  BY <2>2, <2>3
<1> QED  BY <1>1, <1>2, <1>3, <1>4, <1>5, <1>6, <1>7, <1>8, <1>9 DEF SubInv

\* Refreshed keeps the invariant: who fetched goes on, and with it all who wait for it.
LEMMA RefreshedKeeps ==
  ASSUME SubInv, NEW t \in Threads, Refreshed(t)
  PROVE  SubInv'
<1>0. RefreshedTo(t)
  BY RefreshedMoves
<1>1. ThreadsTyped'
  BY <1>0 DEF AfterOf, Woken, Returned, RefreshedTo
<1>2. SettingsTyped'
  BY <1>0, SubBasics
     DEF Refreshed, RefreshedTo, SettingsTyped, Exists, TagsAuto, SubInv,
         settingVars, coreVars, loopVars
<1>3. StoreTyped'
  BY <1>0, SubBasics
     DEF Refreshed, AfterOf, Woken, Returned, RefreshedTo, StoreTyped, Fetched,
         Profile, SubInv, settingVars, coreVars, loopVars
<1>4. CoreTyped'
  BY <1>0, SubBasics
     DEF Refreshed, RefreshedTo, CoreTyped, SubInv, settingVars, coreVars, loopVars
<1>5. Threading'
  <2>0. ThreadsTyped /\ Threading /\ UNCHANGED active
    BY DEF SubInv, Refreshed, settingVars
  <2>1. th[t].at = "fetch" /\ (t = "loop" => th[t].inner) /\ Fetches
    BY <1>0, <2>0 DEF RefreshedTo, Fetching, Threading, Placed, SubInv
  <2>2. Placed(t, th[t])' /\ InHand(th[t])'
    BY <1>0, <2>0, <2>1, AfterFits DEF RefreshedTo
  <2> QED  BY <1>0, <2>0, <2>1, <2>2, ReturnedFits DEF RefreshedTo
<1>6. Handling'
  <2>0. ThreadsTyped /\ Handling /\ UNCHANGED settingVars /\ "handler" \in Threads
    BY DEF SubInv, Refreshed, Threads
  <2>1. CASE t # "handler"
    BY <1>0, <2>0, <2>1, WokenHandling DEF RefreshedTo, SubInv, StoreTyped
  <2>2. CASE t = "handler"
    BY <1>0, <2>0, <2>2, AfterHandling DEF RefreshedTo, H
  <2> QED  BY <2>1, <2>2
<1>7. Fetches'
  <2>0. /\ ThreadsTyped /\ Threading /\ Handling /\ Fetches /\ fetching \in [Subs -> Threads \cup {None}]
        /\ UNCHANGED settingVars /\ "handler" \in Threads /\ "loop" \in Threads
    BY DEF SubInv, StoreTyped, Refreshed, Threads
  <2>1. ~Fetching(th'[t]) /\ th'[t].at # "waiting"
    BY <1>0, IdleIs DEF RefreshedTo, AfterOf, Fetching, Fresh
  <2> QED  BY <1>0, <2>0, <2>1, ReturnedFetches DEF RefreshedTo, settingVars
<1>8. Plane'
  <2>0. /\ Plane /\ Threading /\ ThreadsTyped /\ UNCHANGED loopVars /\ UNCHANGED <<core, running>>
        /\ prepared' = prepared
    BY DEF SubInv, Refreshed, coreVars
  <2>1. \A u \in Threads : Still(u)
    <3>1. Still(t)
      BY <1>0, <2>0, IdleIs
         DEF RefreshedTo, Fetching, AfterOf, Still, Swapping, Underway, LoopPlaces,
             Threading, Placed, Fresh
    <3>2. ASSUME NEW u \in Threads \ {t}
          PROVE  Still(u)
      BY <1>0, <2>0, WokenStill DEF RefreshedTo
    <3> QED  BY <3>1, <3>2
  <2> QED  BY <2>0, <2>1, StillPlane
<1>9. Honest'
  <2>0. /\ Honest /\ Handling /\ Plane /\ CoreTyped /\ Threading /\ Fetches
        /\ "loop" \in Threads /\ "handler" \in Threads
    BY DEF SubInv, Threads
  <2>1. PlaneKept /\ UNCHANGED subs
    <3>1. th'["loop"].at # "up" \/ th'["loop"] = L
      BY <1>0, <2>0, IdleIs DEF RefreshedTo, Returned, Woken, AfterOf, L, Fresh
    <3> QED  BY <3>1 DEF Refreshed, PlaneKept, settingVars, coreVars, L
  <2>2. CASE th'["handler"] = H /\ t # "handler"
    <3>1. H.at = "after" /\ H.op = "edit" => cache'[H.id] = cache[H.id]
      <4>1. H.at = "after" /\ H.op = "edit" => H.id \in Subs /\ fetching[H.id] = None
        BY <2>0 DEF Handling, Fetches, Threading, InHand, H
      <4>2. fetching[th[t].id] = t /\ t # None
        BY <1>0, <2>0
           DEF RefreshedTo, Fetches, Fetching, Threading, InHand, Threads, None
      <4> QED  BY <1>0, <4>1, <4>2 DEF RefreshedTo
    <3> QED  BY <2>0, <2>1, <2>2, <3>1, OtherHonest
  <2>3. CASE \E c \in BOOLEAN : AfterOf(th'["handler"], H, c) /\ (H.at = "waiting" \/ Fetching(H))
    <3>1. H.at \in {"waiting", "fetch"} /\ H.op # "edit"
      BY <2>0, <2>3 DEF Fetching, H, Handling, Threading, InHand, None
    <3>2. CASE H.inner
      <4>1. /\ th'["handler"].at \in {"reread", "unprepared", "build"} /\ th'["handler"].op = H.op
        BY <2>3, <3>2 DEF AfterOf, Like
      <4> QED  BY <2>0, <2>1, <4>1, StepHonest DEF Restarting, H
    <3>3. CASE ~H.inner
      <4>1. ~Restarting
        BY <3>1, <3>3 DEF Restarting
      <4> QED  BY <2>0, <2>1, <3>1, <4>1, Firm, FirmHonest
    <3> QED  BY <3>2, <3>3
  <2>4. CASE t = "handler"
    BY <1>0, <2>3, <2>4 DEF RefreshedTo, H
  <2>5. CASE t # "handler"
    <3>1. CASE th'["handler"] = H
      BY <2>2, <2>5, <3>1
    <3>2. CASE H.on = t /\ AfterOf(th'["handler"], H, FALSE)
      <4>1. H.at = "waiting"
        BY <2>0, <3>2 DEF Threading, InHand, H, Threads, None
      <4> QED  BY <2>3, <3>2, <4>1
    <3> QED  BY <1>0, <2>0, <2>5, <3>1, <3>2 DEF RefreshedTo, Returned, Woken, H
  <2> QED  BY <2>4, <2>5
<1> QED  BY <1>1, <1>2, <1>3, <1>4, <1>5, <1>6, <1>7, <1>8, <1>9 DEF SubInv

\* AfterRefresh keeps the invariant: a changed list leads to a reconnection or to nothing.
LEMMA AfterRefreshKeeps ==
  ASSUME SubInv, NEW t \in Threads, AfterRefresh(t)
  PROVE  SubInv'
<1>0. Went(t, "prepare") \/ Finished(t)
  BY AfterRefreshMoves
<1>1. ThreadsTyped'
  BY <1>0 DEF Went, Finished
<1>2. SettingsTyped'
  BY <1>0, SubBasics
     DEF AfterRefresh, SettingsTyped, Exists, TagsAuto, SubInv, settingVars,
         coreVars, loopVars
<1>3. StoreTyped'
  BY <1>0, SubBasics
     DEF AfterRefresh, StoreTyped, SubInv, settingVars, coreVars, loopVars
<1>4. CoreTyped'
  BY <1>0, SubBasics
     DEF AfterRefresh, CoreTyped, SubInv, settingVars, coreVars, loopVars
<1>5. Threading'
  <2>0. ThreadsTyped /\ Threading /\ UNCHANGED active
    BY DEF SubInv, AfterRefresh, settingVars
  <2>1. CASE Went(t, "prepare")
    <3>1. th[t].at = "after"
      BY DEF AfterRefresh
    <3>2. Placed(t, th[t])' /\ InHand(th[t])'
      BY <2>0, <2>1, <3>1, WentFits DEF Free, TimerPlaces, LoopPlaces
    <3> QED  BY <2>0, <2>1, <3>2, OthersFit DEF Went
  <2>2. CASE Finished(t)
    BY <2>0, <2>2, IdleFits, OthersFit DEF Finished
  <2> QED  BY <1>0, <2>1, <2>2
<1>6. Handling'
  <2>0. ThreadsTyped /\ Handling /\ UNCHANGED settingVars /\ "handler" \in Threads
    BY DEF SubInv, AfterRefresh, Threads
  <2>9. CASE t # "handler"
    <3>1. th'["handler"] = H /\ UNCHANGED fetching
      BY <1>0, <2>0, <2>9 DEF AfterRefresh, Others, H, Went, Finished, Threads
    <3> QED  BY <2>0, <3>1, OtherHandling
  <2>1. CASE t = "handler" /\ Went(t, "prepare")
    BY <2>0, <2>1, WentHandling DEF settingVars
  <2>8. CASE t = "handler" /\ Finished(t)
    BY <2>8, IdleHandling DEF Finished
  <2> QED  BY <1>0, <2>9, <2>1, <2>8
<1>7. Fetches'
  <2>0. /\ ThreadsTyped /\ Threading /\ Handling /\ Fetches /\ fetching \in [Subs -> Threads \cup {None}]
        /\ UNCHANGED settingVars /\ "handler" \in Threads /\ "loop" \in Threads
    BY DEF SubInv, StoreTyped, AfterRefresh, Threads
  <2>1. Quiet(t)
    BY <1>0, <2>0, IdleIs
       DEF AfterRefresh, Quiet, Fetching, Fresh, Went, Finished, Threading, InHand
  <2>2. Others({t}) /\ UNCHANGED fetching
    BY <1>0 DEF AfterRefresh, Went, Finished
  <2> QED  BY <2>0, <2>1, <2>2, OthersQuiet
<1>8. Plane'
  <2>0. /\ Plane /\ Threading /\ ThreadsTyped /\ UNCHANGED loopVars /\ UNCHANGED <<core, running>>
        /\ prepared' = prepared
    BY DEF SubInv, AfterRefresh, coreVars
  <2>1. Still(t)
    BY <1>0, <2>0, IdleIs
       DEF AfterRefresh, Still, Swapping, Underway, LoopPlaces, Placed, Fresh, Went,
           Finished, Threading, InHand
  <2>2. Others({t})
    BY <1>0 DEF AfterRefresh, Went, Finished
  <2> QED  BY <2>0, <2>1, <2>2, OthersStill
<1>9. Honest'
  <2>0. /\ Honest /\ Handling /\ Plane /\ CoreTyped /\ Threading /\ Fetches
        /\ "loop" \in Threads /\ "handler" \in Threads
    BY DEF SubInv, Threads
  <2>1. PlaneKept
    BY <1>0, <2>0
       DEF AfterRefresh, PlaneKept, settingVars, coreVars, L, Went, Finished, Others, Idle
  <2>2. CASE t # "handler"
    <3>1. th'["handler"] = H /\ UNCHANGED cache
      BY <1>0, <2>0, <2>2 DEF AfterRefresh, Others, H, Went, Finished, Others, Idle
    <3> QED  BY <2>0, <2>1, <3>1, OtherHonest
  <2>3. CASE t = "handler"
    <3>1. H.at = "after" /\ ~Restarting /\ H.op \in {"refresh", "edit"}
      BY <2>0, <2>3 DEF AfterRefresh, H, Restarting, Handling
    <3>2. CASE Went(t, "prepare")
      <4>1. th'["handler"].at = "prepare" /\ th'["handler"].op = H.op
        BY <2>3, <3>2 DEF Went, Like, H
      <4> QED  BY <2>0, <2>1, <4>1, StepHonest DEF Restarting, H
    <3>3. CASE Finished(t)
      <4>1. H.op = "edit" /\ Claims => ~Dropped(cache[H.id].list)
        <5>1. SUFFICES ASSUME L.at = "up", Dropped(cache[H.id].list)
                       PROVE  FALSE
          BY DEF Claims
        <5>2. /\ core # NoCore /\ running = core.list /\ core.list \in Lists
              /\ core.choice \in DOMAIN Nodes[core.list]
          BY <2>0, <5>1, UpIsOf DEF Dropped
        <5>3. cache[H.id] # NoProfile /\ H.id = active /\ Current = {core.choice}
          BY <5>1, SubBasics DEF Dropped, Current, NoProfile, Profile
        <5>4. Reconnects(cache[H.id].list, core.choice)
          BY <5>1, <5>2, SubBasics DEF Reconnects, Dropped
        <5>5. Goto(t, "prepare")
          BY <2>3, <5>2, <5>3, <5>4 DEF AfterRefresh, H
        <5>6. th'[t].at = "prepare"
          BY <5>5, Moves DEF SubInv, Places, Went
        <5> QED  BY <3>3, <5>6, IdleIs DEF Finished, Fresh
      <4>2. Claims => core.of = active /\ InForce
        BY <2>0, <3>1, <4>1 DEF Honest, Claims, Dropped
      <4> QED  BY <2>1, <4>2, FirmHonest
    <3> QED  BY <1>0, <3>2, <3>3
  <2> QED  BY <2>2, <2>3
<1> QED  BY <1>1, <1>2, <1>3, <1>4, <1>5, <1>6, <1>7, <1>8, <1>9 DEF SubInv

\* Prepare keeps the invariant: prepare begins with a list, or refreshes first.
LEMMA PrepareKeeps ==
  ASSUME SubInv, NEW t \in Threads, Prepare(t)
  PROVE  SubInv'
<1>0. \/ t # "loop" /\ ~wanted /\ Finished(t)
      \/ Went(t, "unprepared")
      \/ PrepareTo(t)
  BY PrepareMoves
<1>1. ThreadsTyped'
  BY <1>0 DEF Went, Finished, PrepareTo
<1>2. SettingsTyped'
  BY <1>0, SubBasics
     DEF Prepare, PrepareTo, SettingsTyped, Exists, TagsAuto, SubInv, settingVars,
         coreVars, loopVars
<1>3. StoreTyped'
  BY <1>0, SubBasics
     DEF Prepare, PrepareTo, StoreTyped, SubInv, settingVars, coreVars, loopVars
<1>4. CoreTyped'
  BY <1>0, SubBasics
     DEF Prepare, PrepareTo, CoreTyped, SubInv, settingVars, coreVars, loopVars
<1>5. Threading'
  <2>0. ThreadsTyped /\ Threading /\ UNCHANGED active
    BY DEF SubInv, Prepare, settingVars
  <2>1. CASE Went(t, "unprepared")
    <3>1. th[t].at = "prepare"
      BY DEF Prepare
    <3>2. Placed(t, th[t])' /\ InHand(th[t])'
      BY <2>0, <2>1, <3>1, WentFits DEF Free, TimerPlaces, LoopPlaces
    <3> QED  BY <2>0, <2>1, <3>2, OthersFit DEF Went
  <2>2. CASE Finished(t)
    BY <2>0, <2>2, IdleFits, OthersFit DEF Finished
  <2>3. CASE PrepareTo(t)
    <3>1. /\ th'[t].at \in {"refresh", "build"} /\ th'[t].id = active' /\ active \in Subs
          /\ th'[t].inner /\ th'[t].on = None /\ th'[t].op \in {None, "choose"}
          /\ (t # "handler" => th'[t].op = None)
          /\ (th'[t].at = "build" => th'[t].was.list \in Lists)
      BY <2>0, <2>3 DEF PrepareTo, Threading, Placed, None, Threads
    <3>2. Placed(t, th[t])' /\ InHand(th[t])'
      BY <2>0, <3>1 DEF Placed, InHand, Fetching, Places, TimerPlaces, LoopPlaces
    <3> QED  BY <2>0, <2>3, <3>2, OthersFit DEF PrepareTo
  <2> QED  BY <1>0, <2>1, <2>2, <2>3
<1>6. Handling'
  <2>0. ThreadsTyped /\ Handling /\ UNCHANGED settingVars /\ "handler" \in Threads
    BY DEF SubInv, Prepare, Threads
  <2>9. CASE t # "handler"
    <3>1. th'["handler"] = H /\ UNCHANGED fetching
      BY <1>0, <2>0, <2>9 DEF Prepare, Others, H, Went, Finished, PrepareTo
    <3> QED  BY <2>0, <3>1, OtherHandling
  <2>1. CASE t = "handler" /\ Went(t, "unprepared")
    BY <2>0, <2>1, WentHandling DEF settingVars
  <2>8. CASE t = "handler" /\ Finished(t)
    BY <2>8, IdleHandling DEF Finished
  <2>7. CASE t = "handler" /\ PrepareTo(t)
    BY <2>0, <2>7 DEF PrepareTo, Handling, Fetching, settingVars, H, None, Exists
  <2> QED  BY <1>0, <2>9, <2>1, <2>7, <2>8
<1>7. Fetches'
  <2>0. /\ ThreadsTyped /\ Threading /\ Handling /\ Fetches /\ fetching \in [Subs -> Threads \cup {None}]
        /\ UNCHANGED settingVars /\ "handler" \in Threads /\ "loop" \in Threads
    BY DEF SubInv, StoreTyped, Prepare, Threads
  <2>1. Quiet(t)
    BY <1>0, <2>0, IdleIs
       DEF Prepare, Quiet, Fetching, Fresh, Went, Finished, Threading, InHand,
           PrepareTo
  <2>2. Others({t}) /\ UNCHANGED fetching
    BY <1>0 DEF Prepare, Went, Finished, PrepareTo
  <2> QED  BY <2>0, <2>1, <2>2, OthersQuiet
<1>8. Plane'
  <2>0. /\ Plane /\ Threading /\ ThreadsTyped /\ UNCHANGED loopVars /\ UNCHANGED <<core, running>>
        /\ prepared' = prepared
    BY DEF SubInv, Prepare, coreVars
  <2>1. Still(t)
    BY <1>0, <2>0, IdleIs
       DEF Prepare, Still, Swapping, Underway, LoopPlaces, Placed, Fresh, Went, Finished,
           Threading, InHand, PrepareTo
  <2>2. Others({t})
    BY <1>0 DEF Prepare, Went, Finished, PrepareTo
  <2> QED  BY <2>0, <2>1, <2>2, OthersStill
<1>9. Honest'
  <2>0. /\ Honest /\ Handling /\ Plane /\ CoreTyped /\ Threading /\ Fetches
        /\ "loop" \in Threads /\ "handler" \in Threads
    BY DEF SubInv, Threads
  <2>1. PlaneKept
    BY <1>0, <2>0
       DEF Prepare, PlaneKept, settingVars, coreVars, L, Went, Finished, Others, PrepareTo,
           Idle
  <2>2. CASE t # "handler"
    <3>1. th'["handler"] = H /\ UNCHANGED cache
      BY <1>0, <2>0, <2>2
         DEF Prepare, Others, H, Went, Finished, Others, PrepareTo, Idle
    <3> QED  BY <2>0, <2>1, <3>1, OtherHonest
  <2>3. CASE t = "handler"
    <3>1. CASE ~wanted
      <4>1. L.at # "up"
        BY <2>0, <2>3, <3>1, UpIsWanted DEF Prepare, H
      <4> QED  BY <2>1, <4>1, NotUpHonest DEF PlaneKept
    <3>2. CASE Went(t, "unprepared")
      BY <2>0, <2>1, <2>3, <3>2, StepHonest DEF Went, Like, Restarting, H
    <3>3. CASE PrepareTo(t)
      BY <2>0, <2>1, <2>3, <3>3, StepHonest DEF PrepareTo, Restarting, H, None
    <3> QED  BY <1>0, <3>1, <3>2, <3>3
  <2> QED  BY <2>2, <2>3
<1> QED  BY <1>1, <1>2, <1>3, <1>4, <1>5, <1>6, <1>7, <1>8, <1>9 DEF SubInv

\* Reread keeps the invariant: prepare reads again what it has refreshed.
LEMMA RereadKeeps ==
  ASSUME SubInv, NEW t \in Threads, Reread(t)
  PROVE  SubInv'
<1>0. RereadTo(t)
  BY RereadMoves
<1>1. ThreadsTyped'
  BY <1>0 DEF RereadTo
<1>2. SettingsTyped'
  BY <1>0, SubBasics
     DEF Reread, RereadTo, SettingsTyped, Exists, TagsAuto, SubInv, settingVars,
         coreVars, loopVars
<1>3. StoreTyped'
  BY <1>0, SubBasics
     DEF Reread, RereadTo, StoreTyped, SubInv, settingVars, coreVars, loopVars
<1>4. CoreTyped'
  BY <1>0, SubBasics
     DEF Reread, RereadTo, CoreTyped, SubInv, settingVars, coreVars, loopVars
<1>5. Threading'
  BY <1>0, SubBasics
     DEF Reread, RereadTo, Threading, Placed, InHand, Fetching, TimerPlaces,
         LoopPlaces, Places, ThreadsTyped, SubLocals
<1>6. Handling'
  <2>0. ThreadsTyped /\ Handling /\ UNCHANGED settingVars /\ "handler" \in Threads
    BY DEF SubInv, Reread, Threads
  <2>9. CASE t # "handler"
    <3>1. th'["handler"] = H /\ UNCHANGED fetching
      BY <1>0, <2>0, <2>9 DEF Reread, Others, H, RereadTo
    <3> QED  BY <2>0, <3>1, OtherHandling
  <2>7. CASE t = "handler" /\ RereadTo(t)
    BY <2>0, <2>7 DEF RereadTo, Like, Handling, Fetching, settingVars, H, Exists
  <2> QED  BY <1>0, <2>7, <2>9
<1>7. Fetches'
  <2>0. /\ ThreadsTyped /\ Threading /\ Handling /\ Fetches /\ fetching \in [Subs -> Threads \cup {None}]
        /\ UNCHANGED settingVars /\ "handler" \in Threads /\ "loop" \in Threads
    BY DEF SubInv, StoreTyped, Reread, Threads
  <2>1. Quiet(t)
    BY <1>0, <2>0, IdleIs DEF Reread, Quiet, Fetching, Threading, InHand, RereadTo
  <2>2. Others({t}) /\ UNCHANGED fetching
    BY <1>0 DEF Reread, RereadTo
  <2> QED  BY <2>0, <2>1, <2>2, OthersQuiet
<1>8. Plane'
  <2>0. /\ Plane /\ Threading /\ ThreadsTyped /\ UNCHANGED loopVars /\ UNCHANGED <<core, running>>
        /\ prepared' = prepared
    BY DEF SubInv, Reread, coreVars
  <2>1. Still(t)
    BY <1>0, <2>0, IdleIs
       DEF Reread, Still, Swapping, Underway, LoopPlaces, Placed, Threading, InHand,
           RereadTo
  <2>2. Others({t})
    BY <1>0 DEF Reread, RereadTo
  <2> QED  BY <2>0, <2>1, <2>2, OthersStill
<1>9. Honest'
  <2>0. /\ Honest /\ Handling /\ Plane /\ CoreTyped /\ Threading /\ Fetches
        /\ "loop" \in Threads /\ "handler" \in Threads
    BY DEF SubInv, Threads
  <2>1. PlaneKept
    BY <1>0, <2>0 DEF Reread, PlaneKept, settingVars, coreVars, L, RereadTo, Others
  <2>2. CASE t # "handler"
    <3>1. th'["handler"] = H /\ UNCHANGED cache
      BY <1>0, <2>0, <2>2 DEF Reread, Others, H, RereadTo, Others
    <3> QED  BY <2>0, <2>1, <3>1, OtherHonest
  <2>3. CASE t = "handler"
    <3> QED  BY <1>0, <2>0, <2>1, <2>3, StepHonest DEF RereadTo, Like, Restarting, H
  <2> QED  BY <2>2, <2>3
<1> QED  BY <1>1, <1>2, <1>3, <1>4, <1>5, <1>6, <1>7, <1>8, <1>9 DEF SubInv

\* Publish keeps the invariant: what was built from the current settings is published.
LEMMA PublishKeeps ==
  ASSUME SubInv, NEW t \in Threads, Publish(t)
  PROVE  SubInv'
<1>0. /\ th[t].coherent => Begun(t, IF t = "loop" THEN "ready" ELSE "swap") /\ th'[t].was = th[t].was
      /\ ~th[t].coherent => Went(t, "unprepared")
  BY PublishMoves
<1>1. ThreadsTyped'
  BY <1>0 DEF Went, Fresh, Begun
<1>2. SettingsTyped'
  BY <1>0, SubBasics
     DEF Publish, SettingsTyped, Exists, TagsAuto, SubInv, settingVars, coreVars,
         loopVars
<1>3. StoreTyped'
  BY <1>0, SubBasics
     DEF Publish, StoreTyped, SubInv, settingVars, coreVars, loopVars
<1>4. CoreTyped'
  <2>1. UNCHANGED <<coreVars, active>>
    BY DEF Publish, settingVars
  <2>2. CASE th[t].coherent
    <3>1. th[t].was.list \in Lists /\ th[t].id \in Subs /\ th[t].id = active
      BY <2>2 DEF SubInv, Threading, InHand, Publish
    <3>2. prepared' = [list |-> th[t].was.list, of |-> th[t].id, current |-> TRUE]
      BY <2>2 DEF Publish
    <3> QED  BY <2>1, <3>1, <3>2 DEF SubInv, CoreTyped, coreVars
  <2>3. CASE ~th[t].coherent
    BY <2>1, <2>3 DEF SubInv, CoreTyped, coreVars, Publish
  <2> QED  BY <2>2, <2>3
<1>5. Threading'
  <2>0. ThreadsTyped /\ Threading /\ UNCHANGED active
    BY DEF SubInv, Publish, settingVars
  <2>1. th[t].at = "build" /\ th[t].was.list \in Lists
    BY <2>0 DEF Publish, Threading, InHand
  <2>2. CASE Begun(t, IF t = "loop" THEN "ready" ELSE "swap") /\ th'[t].was = th[t].was
    <3>1. Placed(t, th[t])' /\ InHand(th[t])'
      BY <2>1, <2>2, BegunFits
    <3> QED  BY <2>0, <2>2, <3>1, OthersFit DEF Begun
  <2>3. CASE Went(t, "unprepared")
    <3>1. Placed(t, th[t])' /\ InHand(th[t])'
      BY <2>0, <2>1, <2>3, WentFits DEF Free, TimerPlaces, LoopPlaces
    <3> QED  BY <2>0, <2>3, <3>1, OthersFit DEF Went
  <2> QED  BY <1>0, <2>2, <2>3
<1>6. Handling'
  <2>0. ThreadsTyped /\ Handling /\ UNCHANGED settingVars /\ "handler" \in Threads
    BY DEF SubInv, Publish, Threads
  <2>9. CASE t # "handler"
    <3>1. th'["handler"] = H /\ UNCHANGED fetching
      BY <1>0, <2>0, <2>9 DEF Publish, Others, H, Went, Begun, Threads
    <3> QED  BY <2>0, <3>1, OtherHandling
  <2>1. CASE t = "handler" /\ Went(t, "unprepared")
    BY <2>0, <2>1, WentHandling DEF settingVars
  <2>7. CASE t = "handler" /\ Begun(t, "swap")
    BY <2>7 DEF Begun, Fresh, Handling, Fetching, H, None
  <2> QED  BY <1>0, <2>9, <2>1, <2>7
<1>7. Fetches'
  <2>0. /\ ThreadsTyped /\ Threading /\ Handling /\ Fetches /\ fetching \in [Subs -> Threads \cup {None}]
        /\ UNCHANGED settingVars /\ "handler" \in Threads /\ "loop" \in Threads
    BY DEF SubInv, StoreTyped, Publish, Threads
  <2>1. Quiet(t)
    BY <1>0, <2>0, IdleIs
       DEF Publish, Quiet, Fetching, Fresh, Went, Begun, Threading, InHand
  <2>2. Others({t}) /\ UNCHANGED fetching
    BY <1>0 DEF Publish, Went, Begun
  <2> QED  BY <2>0, <2>1, <2>2, OthersQuiet
<1>8. Plane'
  BY <1>0, SubBasics
     DEF Publish, Others, Like, Went, Fresh, Begun, Plane, Starting, Threading,
         Placed, InHand, TimerPlaces, LoopPlaces, H, L, Threads, SubInv,
         settingVars, coreVars, loopVars
<1>9. Honest'
  <2>0. /\ Honest /\ Handling /\ Plane /\ CoreTyped /\ Threading /\ Fetches
        /\ "loop" \in Threads /\ "handler" \in Threads
    BY DEF SubInv, Threads
  <2>1. PlaneKept
    BY <1>0, <2>0
       DEF Publish, PlaneKept, settingVars, coreVars, L, Went, Begun, Fresh, Others
  <2>2. CASE t # "handler"
    <3>1. th'["handler"] = H /\ UNCHANGED cache
      BY <1>0, <2>0, <2>2 DEF Publish, Others, H, Went, Begun, Fresh, Others
    <3> QED  BY <2>0, <2>1, <3>1, OtherHonest
  <2>3. CASE t = "handler"
    <3> QED  BY <1>0, <2>0, <2>1, <2>3, StepHonest
                DEF Went, Begun, Fresh, Like, Restarting, H, None
  <2> QED  BY <2>2, <2>3
<1> QED  BY <1>1, <1>2, <1>3, <1>4, <1>5, <1>6, <1>7, <1>8, <1>9 DEF SubInv

\* PrepareFails keeps the invariant: who could not prepare ends, looks again, or takes
\* its choice back.
LEMMA PrepareFailsKeeps ==
  ASSUME SubInv, NEW t \in Threads, PrepareFails(t)
  PROVE  SubInv'
<1>0. /\ t = "loop" => Went(t, "look")
      /\ t # "loop" /\ th[t].op = "choose" => Went(t, "rollback")
      /\ t # "loop" /\ th[t].op # "choose" => Finished(t)
  BY PrepareFailsMoves
<1>1. ThreadsTyped'
  BY <1>0 DEF Went, Finished
<1>2. SettingsTyped'
  BY <1>0, SubBasics
     DEF PrepareFails, StopCore, SettingsTyped, Exists, TagsAuto, SubInv,
         settingVars, coreVars, loopVars
<1>3. StoreTyped'
  BY <1>0, SubBasics
     DEF PrepareFails, StopCore, StoreTyped, SubInv, settingVars, coreVars, loopVars
<1>4. CoreTyped'
  BY <1>0, SubBasics
     DEF PrepareFails, StopCore, CoreTyped, SubInv, settingVars, coreVars, loopVars
<1>5. Threading'
  <2>0. ThreadsTyped /\ Threading /\ UNCHANGED active
    BY DEF SubInv, PrepareFails, settingVars
  <2>1. th[t].at = "unprepared" /\ (t = "timer" => th[t].op # "choose")
    BY <2>0 DEF PrepareFails, Threading, Placed, None
  <2>2. CASE t = "loop" /\ Went(t, "look")
    <3>1. Placed(t, th[t])' /\ InHand(th[t])'
      BY <2>0, <2>1, <2>2, WentFits DEF Free, LoopPlaces
    <3> QED  BY <2>0, <2>2, <3>1, OthersFit DEF Went
  <2>3. CASE t = "handler" /\ Went(t, "rollback")
    <3>1. Placed(t, th[t])' /\ InHand(th[t])'
      BY <2>0, <2>1, <2>3, WentFits DEF Free
    <3> QED  BY <2>0, <2>3, <3>1, OthersFit DEF Went
  <2>4. CASE Finished(t)
    BY <2>0, <2>4, IdleFits, OthersFit DEF Finished
  <2> QED  BY <1>0, <2>1, <2>2, <2>3, <2>4 DEF Threads
<1>6. Handling'
  <2>0. ThreadsTyped /\ Handling /\ UNCHANGED settingVars /\ "handler" \in Threads
    BY DEF SubInv, PrepareFails, Threads
  <2>9. CASE t # "handler"
    <3>1. th'["handler"] = H /\ UNCHANGED fetching
      BY <1>0, <2>0, <2>9 DEF PrepareFails, Others, H, Went, Finished, Threads
    <3> QED  BY <2>0, <3>1, OtherHandling
  <2>8. CASE t = "handler" /\ Finished(t)
    BY <2>8, IdleHandling DEF Finished
  <2>7. CASE t = "handler" /\ th[t].op = "choose" /\ Went(t, "rollback")
    BY <2>0, <2>7 DEF Went, Like, Handling, Fetching, settingVars, H, Exists
  <2> QED  BY <1>0, <2>9, <2>7, <2>8
<1>7. Fetches'
  <2>0. /\ ThreadsTyped /\ Threading /\ Handling /\ Fetches /\ fetching \in [Subs -> Threads \cup {None}]
        /\ UNCHANGED settingVars /\ "handler" \in Threads /\ "loop" \in Threads
    BY DEF SubInv, StoreTyped, PrepareFails, Threads
  <2>1. Quiet(t)
    BY <1>0, <2>0, IdleIs
       DEF PrepareFails, Quiet, Fetching, Fresh, Went, Finished, Threading, InHand
  <2>2. Others({t}) /\ UNCHANGED fetching
    BY <1>0 DEF PrepareFails, Went, Finished
  <2> QED  BY <2>0, <2>1, <2>2, OthersQuiet
<1>8. Plane'
  <2>0. /\ Plane /\ Threading /\ UNCHANGED loopVars /\ prepared' = prepared /\ th[t].at = "unprepared"
    BY DEF SubInv, PrepareFails
  <2>1. Others({t}) /\ Still(t)
    BY <1>0, <2>0, IdleIs DEF Still, Went, Finished, Fresh, Swapping, Underway, LoopPlaces
  <2>2. UNCHANGED <<core, running>>
    BY <2>0 DEF PrepareFails, StopCore, coreVars, Plane, L
  <2> QED  BY <2>0, <2>1, <2>2, OthersStill
<1>9. Honest'
  <2>0. /\ Honest /\ Handling /\ Plane /\ CoreTyped /\ Threading /\ Fetches
        /\ "loop" \in Threads /\ "handler" \in Threads
    BY DEF SubInv, Threads
  <2>1. CASE t = "loop"
    BY <1>0, <2>1, NotUpHonest DEF Went, L
  <2>2. CASE t = "timer"
    <3>1. th'["handler"] = H /\ L' = L /\ UNCHANGED <<core, active, selected, cache>> /\ failed' = failed
      BY <1>0, <2>0, <2>2
         DEF PrepareFails, Went, Finished, Others, H, L, coreVars, settingVars,
             StoreTyped, SubInv
    <3> QED  BY <2>0, <3>1, OtherHonest DEF PlaneKept
  <2>3. CASE t = "handler" /\ H.op # "choose"
    BY <2>3, NotUpHonest DEF PrepareFails, H
  <2>4. CASE t = "handler" /\ H.op = "choose"
    <3>1. /\ L' = L /\ UNCHANGED <<core, active, selected>> /\ failed' = failed
          /\ th'["handler"].at = "rollback" /\ th'["handler"].op = H.op
      BY <1>0, <2>0, <2>4
         DEF PrepareFails, Went, Like, Others, H, L, coreVars, settingVars,
             StoreTyped, SubInv
    <3> QED  BY <2>0, <3>1, StepHonest DEF PlaneKept, Restarting, H
  <2> QED  BY <2>1, <2>2, <2>3, <2>4 DEF Threads
<1> QED  BY <1>1, <1>2, <1>3, <1>4, <1>5, <1>6, <1>7, <1>8, <1>9 DEF SubInv

\* Swap keeps the invariant: a reconnection begins, if one is wanted.
LEMMA SwapCoreKeeps ==
  ASSUME SubInv, NEW t \in Threads, Swap(t)
  PROVE  SubInv'
<1>0. /\ wanted => Went(t, "swapping")
      /\ ~wanted => Finished(t)
  BY SwapMoves
<1>1. ThreadsTyped'
  BY <1>0 DEF Went, Finished
<1>2. SettingsTyped'
  BY <1>0, SubBasics
     DEF Swap, SettingsTyped, Exists, TagsAuto, SubInv, settingVars, coreVars,
         loopVars
<1>3. StoreTyped'
  <2>1. th[t].was \in Profiles
    BY DEF SubInv, ThreadsTyped, SubLocals
  <2> QED  BY <2>1 DEF SubInv, StoreTyped, Swap, loopVars
<1>4. CoreTyped'
  BY <1>0, SubBasics DEF Swap, CoreTyped, SubInv, settingVars, coreVars, loopVars
<1>5. Threading'
  <2>0. ThreadsTyped /\ Threading /\ UNCHANGED active
    BY DEF SubInv, Swap, settingVars
  <2>1. th[t].at = "swap" /\ t # "loop"
    BY <2>0 DEF Swap, Threading, Placed, LoopPlaces
  <2>2. CASE Went(t, "swapping")
    <3>1. Placed(t, th[t])' /\ InHand(th[t])'
      BY <2>0, <2>1, <2>2, WentFits DEF TimerPlaces
    <3> QED  BY <2>0, <2>2, <3>1, OthersFit DEF Went
  <2>3. CASE Finished(t)
    BY <2>0, <2>3, IdleFits, OthersFit DEF Finished
  <2> QED  BY <1>0, <2>2, <2>3
<1>6. Handling'
  <2>0. ThreadsTyped /\ Handling /\ UNCHANGED settingVars /\ "handler" \in Threads
    BY DEF SubInv, Swap, Threads
  <2>9. CASE t # "handler"
    <3>1. th'["handler"] = H /\ UNCHANGED fetching
      BY <1>0, <2>0, <2>9 DEF Swap, Others, H, Went, Finished, Threads
    <3> QED  BY <2>0, <3>1, OtherHandling
  <2>1. CASE t = "handler" /\ Went(t, "swapping")
    BY <2>0, <2>1, WentHandling DEF settingVars
  <2>8. CASE t = "handler" /\ Finished(t)
    BY <2>8, IdleHandling DEF Finished
  <2> QED  BY <1>0, <2>9, <2>1, <2>8
<1>7. Fetches'
  <2>0. /\ ThreadsTyped /\ Threading /\ Handling /\ Fetches /\ fetching \in [Subs -> Threads \cup {None}]
        /\ UNCHANGED settingVars /\ "handler" \in Threads /\ "loop" \in Threads
    BY DEF SubInv, StoreTyped, Swap, Threads
  <2>1. Quiet(t)
    BY <1>0, <2>0, IdleIs
       DEF Swap, Quiet, Fetching, Fresh, Went, Finished, Threading, InHand
  <2>2. Others({t}) /\ UNCHANGED fetching
    BY <1>0 DEF Swap, Went, Finished
  <2> QED  BY <2>0, <2>1, <2>2, OthersQuiet
<1>8. Plane'
  <2>0. Plane /\ Threading /\ CoreTyped /\ "loop" \in Threads /\ "handler" \in Threads
    BY DEF SubInv, Threads
  <2>1. CASE ~wanted /\ Finished(t)
    <3>1. /\ th[t].at = "swap" /\ UNCHANGED loopVars /\ UNCHANGED <<core, running>> /\ prepared' = prepared
      BY <2>1 DEF Swap, coreVars
    <3>2. Still(t) /\ Others({t})
      BY <2>0, <2>1, <3>1, IdleIs
         DEF Still, Finished, Fresh, Swapping, Threading, Placed, LoopPlaces
    <3> QED  BY <2>0, <3>1, <3>2, OthersStill
  <2>2. CASE wanted /\ Went(t, "swapping")
    <3>1. /\ th[t].at = "swap" /\ opMu = None /\ opMu' = t /\ halted' = TRUE /\ wanted' = TRUE
          /\ UNCHANGED <<core, running, prepared>>
      BY <2>0, <2>2 DEF Swap, coreVars, StoreTyped, SubInv
    <3>2. t # "loop" /\ t # None
      BY <2>0, <3>1 DEF Threading, Placed, LoopPlaces, Threads, None
    <3>3. L' = L /\ (\A u \in Threads \ {t} : th'[u] = th[u]) /\ th'[t].at = "swapping"
      BY <2>0, <2>2, <3>2 DEF Went, Others, L
    <3>4. \A u \in Threads : opMu' = u <=> th'[u].at \in {"swapping", "disconnecting"}
      <4>1. \A u \in Threads : u # None
        BY DEF Threads, None
      <4> QED  BY <2>0, <3>1, <3>3, <4>1 DEF Plane
    <3> QED  BY <2>0, <3>1, <3>2, <3>3, <3>4 DEF Plane, Starting
  <2> QED  BY <1>0, <2>1, <2>2
<1>9. Honest'
  <2>0. /\ Honest /\ Handling /\ Plane /\ CoreTyped /\ Threading /\ Fetches
        /\ "loop" \in Threads /\ "handler" \in Threads
    BY DEF SubInv, Threads
  <2>1. PlaneKept
    BY <1>0, <2>0
       DEF Swap, PlaneKept, settingVars, coreVars, L, Went, Finished, Others, Idle
  <2>2. CASE t # "handler"
    <3>1. th'["handler"] = H /\ UNCHANGED cache
      BY <1>0, <2>0, <2>2 DEF Swap, Others, H, Went, Finished, Others, Idle
    <3> QED  BY <2>0, <2>1, <3>1, OtherHonest
  <2>3. CASE t = "handler"
    <3>1. CASE ~wanted
      <4>1. L.at # "up"
        BY <2>0, <2>3, <3>1, UpIsWanted DEF Swap, H
      <4> QED  BY <2>1, <4>1, NotUpHonest DEF PlaneKept
    <3>2. CASE Went(t, "swapping")
      BY <2>0, <2>1, <2>3, <3>2, StepHonest DEF Went, Like, Restarting, H
    <3> QED  BY <1>0, <3>1, <3>2
  <2> QED  BY <2>2, <2>3
<1> QED  BY <1>1, <1>2, <1>3, <1>4, <1>5, <1>6, <1>7, <1>8, <1>9 DEF SubInv

\* Swapped keeps the invariant: a reconnection ends with the loop started anew.
LEMMA SwappedKeeps ==
  ASSUME SubInv, NEW t \in Threads, Swapped(t)
  PROVE  SubInv'
<1>0. SwappedTo(t)
  BY SwappedMoves
<1>1. ThreadsTyped'
  BY <1>0 DEF SwappedTo
<1>2. SettingsTyped'
  BY <1>0, SubBasics
     DEF Swapped, StopCore, SwappedTo, SettingsTyped, Exists, TagsAuto, SubInv,
         settingVars
<1>3. StoreTyped'
  BY <1>0, SubBasics
     DEF Swapped, StopCore, SwappedTo, StoreTyped, SubInv, settingVars
<1>4. CoreTyped'
  BY <1>0, SubBasics
     DEF Swapped, StopCore, SwappedTo, CoreTyped, SubInv, settingVars
<1>5. Threading'
  <2>0. ThreadsTyped /\ Threading /\ UNCHANGED active
    BY DEF SubInv, Swapped, settingVars
  <2>1. Placed(t, th[t])' /\ InHand(th[t])'
    BY <1>0, IdleFits DEF SwappedTo
  <2>2. "loop" \in Threads /\ L.at = "idle"
    BY DEF Threads, Swapped, L
  <2>3. Placed("loop", th["loop"])' /\ InHand(th["loop"])'
    BY <1>0, <2>0, <2>2
       DEF SwappedTo, Threading, Placed, InHand, Fetching, Like, L, LoopPlaces
  <2> QED  BY <1>0, <2>0, <2>1, <2>3, OthersFit DEF SwappedTo
<1>6. Handling'
  <2>0. ThreadsTyped /\ Handling /\ UNCHANGED settingVars /\ "handler" \in Threads
    BY DEF SubInv, Swapped, Threads
  <2>1. CASE t = "handler"
    BY <1>0, <2>1, IdleHandling DEF SwappedTo
  <2>2. CASE t # "handler"
    <3>1. th'["handler"] = H /\ UNCHANGED fetching
      BY <1>0, <2>0, <2>2 DEF Swapped, SwappedTo, Others, H
    <3> QED  BY <2>0, <3>1, OtherHandling
  <2> QED  BY <2>1, <2>2
<1>7. Fetches'
  <2>0. /\ ThreadsTyped /\ Threading /\ Handling /\ Fetches /\ fetching \in [Subs -> Threads \cup {None}]
        /\ UNCHANGED settingVars /\ "handler" \in Threads /\ "loop" \in Threads
    BY DEF SubInv, StoreTyped, Swapped, Threads
  <2>1. Quiet(t) /\ Quiet("loop")
    BY <1>0, IdleIs DEF Swapped, SwappedTo, Quiet, Fetching, Fresh
  <2>2. Others({t, "loop"}) /\ UNCHANGED fetching
    BY <1>0 DEF Swapped, SwappedTo
  <2> QED  BY <2>0, <2>1, <2>2, OthersQuiet
<1>8. Plane'
  <2>0. Plane /\ Threading /\ CoreTyped /\ "loop" \in Threads /\ "handler" \in Threads
    BY DEF SubInv, Threads
  <2>1. /\ th[t].at = "swapping" /\ L.at = "idle" /\ opMu' = None /\ halted' = FALSE
        /\ UNCHANGED <<wanted, prepared>> /\ core' = NoCore /\ running' = None
    BY DEF Swapped, StopCore, L
  <2>2. t \in {"handler", "timer"} /\ (\A u \in Threads \ {t, "loop"} : th'[u] = th[u])
        /\ (L.at)' = "look" /\ th'[t].at = "idle"
    BY <1>0, <2>0, IdleIs DEF SwappedTo, Others, Threads, L, Fresh
  <2>3. opMu = t /\ wanted
    BY <2>0, <2>1 DEF Plane
  <2>4. \A u \in Threads : th'[u].at \notin {"swapping", "disconnecting"} /\ u # None
    BY <2>0, <2>1, <2>2, <2>3 DEF Plane, L, Threads, None
  <2> QED  BY <2>0, <2>1, <2>2, <2>3, <2>4 DEF Plane, Starting, L, H
<1>9. Honest'
  BY <1>0, NotUpHonest DEF SwappedTo, L
<1> QED  BY <1>1, <1>2, <1>3, <1>4, <1>5, <1>6, <1>7, <1>8, <1>9 DEF SubInv

\* SaveFetched keeps the invariant: a subscription that was fetched is saved.
LEMMA SaveFetchedKeeps ==
  ASSUME SubInv, SaveFetched
  PROVE  SubInv'
<1>0. \/ Finished("handler") /\ UNCHANGED <<settingVars, prepared>>
      \/ /\ SavedTo("store", [subs EXCEPT ![H.id] = H.arg], IF active = None THEN H.id ELSE active, selected)
         /\ Like(th'["handler"], H) /\ th'["handler"].on = H.on /\ th'["handler"].was.list \in Lists
  BY SaveFetchedMoves
<1>1. ThreadsTyped'
  BY <1>0 DEF Finished, Loosened, SavedTo
<1>2. SettingsTyped'
  <2>1. CASE Finished("handler") /\ UNCHANGED <<settingVars, prepared>>
    BY <2>1 DEF SubInv, SettingsTyped, settingVars, Exists
  <2>2. CASE SavedTo("store", [subs EXCEPT ![H.id] = H.arg], IF active = None THEN H.id ELSE active, selected)
    <3>1. H.arg \in Urls
      BY DEF SaveFetched, SubInv, Handling, H
    <3>2. [subs EXCEPT ![H.id] = H.arg] \in [Subs -> {None, Manual} \cup Urls] /\ selected \in TagsAuto
      BY <3>1 DEF SubInv, SettingsTyped
    <3> QED  BY <2>2, <3>2, SavedSettings
  <2> QED  BY <1>0, <2>1, <2>2
<1>3. StoreTyped'
  BY <1>0, SubBasics
     DEF SaveFetched, SavedTo, StoreTyped, Fetched, Profile, SubInv, settingVars,
         coreVars, loopVars
<1>4. CoreTyped'
  BY <1>0, SubBasics
     DEF SaveFetched, SavedTo, CoreTyped, SubInv, settingVars, coreVars, loopVars
<1>5. Threading'
  <2>0. Threading /\ "handler" \in Threads /\ H.at = "fetch" /\ H.op \in {"add", "rename"}
    BY DEF SubInv, SaveFetched, Threads, H
  <2>1. CASE Finished("handler") /\ UNCHANGED <<settingVars, prepared>>
    BY <2>0, <2>1, IdleFits, OthersFit DEF Finished, settingVars
  <2>2. CASE /\ th'["handler"].at = "store" /\ Loosened("timer") /\ Loosened("loop")
             /\ Like(th'["handler"], H) /\ th'["handler"].on = H.on /\ th'["handler"].was.list \in Lists
    <3>1. Placed("handler", th["handler"])' /\ InHand(th["handler"])'
      BY <2>0, <2>2 DEF Threading, Placed, InHand, Fetching, Like, Places, H, None
    <3> QED  BY <2>0, <2>2, <3>1, SavedFits
  <2> QED  BY <1>0, <2>1, <2>2 DEF SavedTo
<1>6. Handling'
  <2>1. CASE Finished("handler")
    BY <2>1, IdleHandling DEF Finished
  <2>2. CASE th'["handler"].at = "store" /\ Like(th'["handler"], H)
    <3>1. H.op \in {"add", "rename"}
      BY DEF SaveFetched, H
    <3> QED  BY <2>2, <3>1 DEF Like, Handling, Fetching, H
  <2> QED  BY <1>0, <2>1, <2>2 DEF SavedTo
<1>7. Fetches'
  <2>0. Handling /\ Fetches /\ UNCHANGED fetching /\ subs \in [Subs -> {None, Manual} \cup Urls]
    BY DEF SubInv, SettingsTyped, SaveFetched
  <2>1. Quiet("handler")
    BY <1>0, <2>0, IdleIs DEF SaveFetched, Quiet, Fetching, Fresh, SavedTo, Finished
  <2>2. CASE Finished("handler") /\ UNCHANGED <<settingVars, prepared>>
    BY <2>0, <2>1, <2>2, OthersQuiet DEF Finished
  <2>3. CASE SavedTo("store", [subs EXCEPT ![H.id] = H.arg], IF active = None THEN H.id ELSE active, selected)
    <3>1. subs' = [subs EXCEPT ![H.id] = H.arg] /\ H.arg \in Urls /\ Manual \notin Urls
          /\ Loosened("timer") /\ Loosened("loop")
      BY <2>0, <2>3 DEF SavedTo, SaveFetched, Handling, H, Urls, Manual
    <3>2. \A id \in Subs : subs'[id] = Manual => subs[id] = Manual \/ fetching[id] = None
      BY <2>0, <3>1
    <3> QED  BY <2>0, <2>1, <3>1, <3>2, SavedQuiet
  <2> QED  BY <1>0, <2>2, <2>3
<1>8. Plane'
  <2>0. /\ Plane /\ UNCHANGED loopVars /\ UNCHANGED <<core, running>> /\ H.at = "fetch" /\ Threads = {"handler", "timer", "loop"}
    BY DEF SubInv, SaveFetched, coreVars, H, Threads
  <2>1. CASE Finished("handler") /\ UNCHANGED prepared
    BY <2>0, <2>1, IdleIs, OthersStill DEF Finished, Still, Swapping, Fresh, H
  <2>2. CASE ~Starting /\ th'["handler"].at = "store" /\ Loosened("timer") /\ Loosened("loop")
    <3>1. \A u \in Threads : Still(u)
      BY <2>0, <2>2 DEF Still, Swapping, Loosened, H
    <3> QED  BY <2>0, <2>2, <3>1, StillPlane
  <2> QED  BY <1>0, <2>1, <2>2 DEF SavedTo
<1>9. Honest'
  <2>0. /\ Honest /\ Handling /\ Plane /\ CoreTyped /\ Threading /\ SettingsTyped /\ UNCHANGED <<core, running, failed>>
    BY DEF SubInv, SaveFetched, coreVars
  <2>1. (L.at)' = L.at
    BY <1>0 DEF SavedTo, Loosened, Finished, Others, L, Threads
  <2>2. H.at = "fetch" /\ H.op \in {"add", "rename"} /\ ~H.inner /\ H.arg \in Urls /\ H.id \in Subs
    BY <2>0 DEF SaveFetched, H, Handling, Threading, InHand, None, Threads
  <2>3. /\ Claims => core.of = active /\ InForce
        /\ Claims => active \in Subs /\ subs[active] # None /\ core.list \in Lists
    <3>1. Claims => core.of = active /\ InForce
      BY <2>0, <2>2, Firm DEF Restarting
    <3> QED  BY <2>0, <3>1, SubConstants, UpIsOf DEF Claims, SettingsTyped, Exists
  <2>4. Claims => UNCHANGED <<active, selected>>
    <3>1. CASE UNCHANGED settingVars
      BY <3>1 DEF settingVars
    <3>2. CASE SavedTo("store", [subs EXCEPT ![H.id] = H.arg], IF active = None THEN H.id ELSE active, selected)
      <4>1. /\ [subs EXCEPT ![H.id] = H.arg] \in [Subs -> {None, Manual} \cup Urls] /\ selected \in TagsAuto
            /\ Claims => [subs EXCEPT ![H.id] = H.arg][active] # None /\ active # None
        BY <2>0, <2>2, <2>3, SubConstants DEF SettingsTyped, Urls, None
      <4> QED  BY <2>3, <3>2, <4>1, SavedSettings DEF SavedTo
    <3> QED  BY <1>0, <3>1, <3>2
  <2> QED  BY <2>0, <2>1, <2>3, <2>4 DEF Honest, Claims, InForce
<1> QED  BY <1>1, <1>2, <1>3, <1>4, <1>5, <1>6, <1>7, <1>8, <1>9 DEF SubInv

\* Store keeps the invariant: a fetched or edited list goes to the cache.
LEMMA StoreKeeps ==
  ASSUME SubInv, Store
  PROVE  SubInv'
<1>0. \/ H.op = "edit" /\ Went("handler", "after")
      \/ H.op # "edit" /\ Went("handler", "prepare")
      \/ H.op # "edit" /\ Finished("handler")
  BY StoreMoves
<1>1. ThreadsTyped'
  BY <1>0 DEF Went, Finished
<1>2. SettingsTyped'
  BY <1>0, SubBasics
     DEF Store, SettingsTyped, Exists, TagsAuto, SubInv, settingVars, coreVars,
         loopVars
<1>3. StoreTyped'
  <2>1. H.id \in Subs /\ H.was \in Profiles /\ cache \in [Subs -> Profiles]
    BY DEF SubInv, Threading, InHand, ThreadsTyped, SubLocals, StoreTyped, Store, H,
           Threads
  <2>2. cache' = [cache EXCEPT ![H.id] = H.was]
    BY DEF Store, H
  <2> QED  BY <2>1, <2>2 DEF SubInv, StoreTyped, Store, loopVars
<1>4. CoreTyped'
  BY <1>0, SubBasics DEF Store, CoreTyped, SubInv, settingVars, coreVars, loopVars
<1>5. Threading'
  <2>0. ThreadsTyped /\ Threading /\ UNCHANGED active
    BY DEF SubInv, Store, settingVars
  <2>1. H.at = "store" /\ InHand(H) /\ Placed("handler", H) /\ "handler" \in Threads
    BY <2>0 DEF Store, H, Threading, Threads
  <2>2. CASE Went("handler", "after")
    <3>1. Placed("handler", th["handler"])' /\ InHand(th["handler"])'
      BY <2>0, <2>1, <2>2 DEF Went, Like, Placed, InHand, Fetching, Places, H
    <3> QED  BY <2>0, <2>2, <3>1, OthersFit DEF Went
  <2>3. CASE Went("handler", "prepare")
    <3>1. Placed("handler", th["handler"])' /\ InHand(th["handler"])'
      BY <2>0, <2>1, <2>3, WentFits DEF Free, H
    <3> QED  BY <2>0, <2>3, <3>1, OthersFit DEF Went
  <2>4. CASE Finished("handler")
    BY <2>0, <2>1, <2>4, IdleFits, OthersFit DEF Finished
  <2> QED  BY <1>0, <2>2, <2>3, <2>4
<1>6. Handling'
  <2>0. ThreadsTyped /\ Handling /\ UNCHANGED settingVars /\ "handler" \in Threads
    BY DEF SubInv, Store, Threads
  <2>1. CASE H.op = "edit" /\ Went("handler", "after")
    <3>1. H.at = "store"
      BY DEF Store, H
    <3> QED  BY <2>0, <2>1, <3>1 DEF Went, Like, Handling, Fetching, H, settingVars
  <2> QED  BY <1>0, <2>0, <2>1, IdleHandling, WentHandling DEF Finished, settingVars
<1>7. Fetches'
  <2>0. /\ ThreadsTyped /\ Threading /\ Handling /\ Fetches /\ fetching \in [Subs -> Threads \cup {None}]
        /\ UNCHANGED settingVars /\ "handler" \in Threads /\ "loop" \in Threads
    BY DEF SubInv, StoreTyped, Store, Threads
  <2>1. Quiet("handler")
    BY <1>0, <2>0, IdleIs
       DEF Store, Quiet, Fetching, Fresh, Went, Finished, Threading, InHand
  <2>2. Others({"handler"}) /\ UNCHANGED fetching
    BY <1>0 DEF Store, Went, Finished
  <2> QED  BY <2>0, <2>1, <2>2, OthersQuiet
<1>8. Plane'
  <2>0. /\ Plane /\ Threading /\ ThreadsTyped /\ UNCHANGED loopVars /\ UNCHANGED <<core, running>>
        /\ prepared' = prepared
    BY DEF SubInv, Store, coreVars
  <2>1. Still("handler")
    BY <1>0, <2>0, IdleIs
       DEF Store, Still, Swapping, Underway, LoopPlaces, Placed, Fresh, Went, Finished,
           Threading, InHand
  <2>2. Others({"handler"})
    BY <1>0 DEF Store, Went, Finished
  <2> QED  BY <2>0, <2>1, <2>2, OthersStill
<1>9. Honest'
  <2>0. /\ Honest /\ Handling /\ Plane /\ CoreTyped /\ Threading /\ Fetches
        /\ "loop" \in Threads /\ "handler" \in Threads
    BY DEF SubInv, Threads
  <2>1. H.at = "store" /\ ~Restarting /\ cache' = [cache EXCEPT ![H.id] = H.was] /\ H.id \in Subs
    BY <2>0 DEF Store, H, Restarting, Threading, InHand
  <2>2. PlaneKept
    <3>1. L' = L
      BY <1>0, <2>0 DEF Went, Finished, Others, L
    <3> QED  BY <3>1 DEF Store, PlaneKept, settingVars, coreVars
  <2>3. CASE H.op = "edit" /\ Went("handler", "after")
    <3>1. /\ th'["handler"].at = "after" /\ Like(th'["handler"], H) /\ cache'[H.id] = H.was
      BY <2>1, <2>3, SubBasics DEF Went, H, SubInv, StoreTyped
    <3>2. Dropped(H.was.list) => Dropped(cache[H.id].list)'
      BY <2>2, <3>1 DEF Dropped, PlaneKept, Like, H
    <3>3. Claims => core.of = active /\ (InForce \/ Dropped(H.was.list))
      BY <2>0, <2>1 DEF Honest, Claims
    <3> QED  BY <2>2, <3>1, <3>2, <3>3 DEF Honest, PlaneKept, Claims, InForce, H
  <2>4. CASE H.op # "edit"
    <3>1. Claims => core.of = active /\ InForce
      BY <2>0, <2>1, <2>4, Firm
    <3> QED  BY <2>2, <3>1, FirmHonest
  <2> QED  BY <1>0, <2>3, <2>4
<1> QED  BY <1>1, <1>2, <1>3, <1>4, <1>5, <1>6, <1>7, <1>8, <1>9 DEF SubInv

\* SaveEdit keeps the invariant: the list kept by hand is saved.
LEMMA SaveEditKeeps ==
  ASSUME SubInv, SaveEdit
  PROVE  SubInv'
<1>0. \E list \in Lists :
        /\ SavedTo("store", [subs EXCEPT ![H.id] = Manual], IF active = None THEN H.id ELSE active,
                   IF H.id = active /\ selected \notin DOMAIN Nodes[list] THEN "auto" ELSE selected)
        /\ th'["handler"].op = IF Exists(H.id) THEN "edit" ELSE "add"
        /\ th'["handler"].id = H.id /\ th'["handler"].on = H.on /\ th'["handler"].was.list = list
        /\ th'["handler"].inner = H.inner /\ th'["handler"].coherent = H.coherent
  BY SaveEditMoves
<1>1. ThreadsTyped'
  BY <1>0 DEF SavedTo
<1>2. SettingsTyped'
  <2>1. PICK list \in Lists :
          SavedTo("store", [subs EXCEPT ![H.id] = Manual], IF active = None THEN H.id ELSE active,
                  IF H.id = active /\ selected \notin DOMAIN Nodes[list] THEN "auto" ELSE selected)
    BY <1>0
  <2>2. /\ [subs EXCEPT ![H.id] = Manual] \in [Subs -> {None, Manual} \cup Urls]
        /\ (IF H.id = active /\ selected \notin DOMAIN Nodes[list] THEN "auto" ELSE selected) \in TagsAuto
    BY DEF SubInv, SettingsTyped, TagsAuto
  <2> QED  BY <2>1, <2>2, SavedSettings
<1>3. StoreTyped'
  BY <1>0, SubBasics
     DEF SaveEdit, SavedTo, StoreTyped, Profile, SubInv, coreVars, loopVars
<1>4. CoreTyped'
  BY <1>0, SubBasics DEF SaveEdit, SavedTo, CoreTyped, SubInv, coreVars, loopVars
<1>5. Threading'
  <2>0. Threading /\ "handler" \in Threads /\ H.at = "save" /\ H.id \in Subs /\ H.op = "edit"
    BY DEF SubInv, SaveEdit, Threads, H, Handling
  <2>1. /\ th'["handler"].at = "store" /\ Loosened("timer") /\ Loosened("loop")
        /\ th'["handler"].op \in {"edit", "add"} /\ th'["handler"].id = H.id
        /\ th'["handler"].on = H.on /\ th'["handler"].was.list \in Lists
        /\ th'["handler"].inner = H.inner /\ th'["handler"].coherent = H.coherent
    BY <1>0 DEF SavedTo
  <2>2. Placed("handler", th["handler"])' /\ InHand(th["handler"])'
    BY <2>0, <2>1 DEF Threading, Placed, InHand, Fetching, Places, H
  <2> QED  BY <2>0, <2>1, <2>2, SavedFits
<1>6. Handling'
  <2>1. /\ th'["handler"].at = "store" /\ th'["handler"].op \in {"edit", "add"} /\ th'["handler"].id = H.id
        /\ subs' = [subs EXCEPT ![H.id] = Manual]
    BY <1>0 DEF SavedTo
  <2>2. H.id \in Subs /\ subs \in [Subs -> {None, Manual} \cup Urls]
    BY DEF SubInv, Handling, SettingsTyped, SaveEdit, H
  <2> QED  BY <2>1, <2>2 DEF Handling, Fetching, H
<1>7. Fetches'
  <2>0. Handling /\ Fetches /\ Threading /\ UNCHANGED fetching /\ subs \in [Subs -> {None, Manual} \cup Urls]
    BY DEF SubInv, SettingsTyped, SaveEdit
  <2>1. Quiet("handler")
    BY <1>0, <2>0, IdleIs DEF SaveEdit, Quiet, Fetching, SavedTo
  <2>2. Loosened("timer") /\ Loosened("loop")
    BY <1>0 DEF SavedTo
  <2>3. \A id \in Subs : subs'[id] = Manual => subs[id] = Manual \/ fetching[id] = None
    <3>1. subs' = [subs EXCEPT ![H.id] = Manual] /\ fetching[H.id] = None
      BY <1>0, <2>0 DEF SavedTo, SaveEdit, Handling, H
    <3> QED  BY <2>0, <3>1
  <2> QED  BY <2>0, <2>1, <2>2, <2>3, SavedQuiet
<1>8. Plane'
  BY <1>0, SubBasics
     DEF SaveEdit, Loosened, SavedTo, Plane, Starting, Threading, Placed, InHand,
         TimerPlaces, LoopPlaces, H, L, Threads, SubInv, coreVars, loopVars
<1>9. Honest'
  <2>0. /\ Honest /\ Handling /\ Plane /\ CoreTyped /\ Threading /\ SettingsTyped /\ UNCHANGED <<core, running>>
    BY DEF SubInv, SaveEdit, coreVars
  <2>1. (L.at)' = L.at
    BY <1>0 DEF SavedTo, Loosened, L
  <2>2. H.at = "save" /\ H.op = "edit" /\ H.id \in Subs /\ failed' = failed
    BY <2>0 DEF SaveEdit, H, Handling
  <2>3. /\ Claims => core.of = active /\ InForce
        /\ Claims => active \in Subs /\ subs[active] # None /\ core.list \in Lists
    <3>1. Claims => core.of = active /\ InForce
      BY <2>0, <2>2, Firm DEF Restarting
    <3> QED  BY <2>0, <3>1, SubConstants, UpIsOf DEF Claims, SettingsTyped, Exists
  <2>4. PICK list \in Lists :
          /\ SavedTo("store", [subs EXCEPT ![H.id] = Manual], IF active = None THEN H.id ELSE active,
                     IF H.id = active /\ selected \notin DOMAIN Nodes[list] THEN "auto" ELSE selected)
          /\ th'["handler"].op = IF Exists(H.id) THEN "edit" ELSE "add"
          /\ th'["handler"].id = H.id /\ th'["handler"].was.list = list
    BY <1>0
  <2>5. Claims => active' = active
    <3>1. /\ [subs EXCEPT ![H.id] = Manual] \in [Subs -> {None, Manual} \cup Urls]
          /\ (IF H.id = active /\ selected \notin DOMAIN Nodes[list] THEN "auto" ELSE selected) \in TagsAuto
          /\ Claims => [subs EXCEPT ![H.id] = Manual][active] # None /\ active # None
      BY <2>0, <2>2, <2>3, SubConstants DEF SettingsTyped, TagsAuto, Manual, None
    <3> QED  BY <2>3, <2>4, <3>1, SavedSettings
  <2>6. CASE selected' = selected
    BY <2>0, <2>1, <2>2, <2>3, <2>5, <2>6 DEF Honest, Claims, InForce
  <2>7. CASE H.id = active /\ selected \notin DOMAIN Nodes[list] /\ selected' = "auto"
    <3>1. ASSUME Claims, core.choice = "auto" \/ core.borrowed
          PROVE  InForce'
      BY <2>0, <2>3, <2>7, <3>1, Defaults DEF InForce, TagsAuto
    <3>2. ASSUME Claims, core.choice # "auto", ~core.borrowed
          PROVE  (H.at = "store" /\ Dropped(H.was.list))'
      <4>1. core.choice = selected
        BY <2>3, <3>2 DEF InForce, DefaultSelected
      <4>2. th'["handler"].op = "edit" /\ th'["handler"].id = active' /\ th'["handler"].at = "store"
        BY <2>3, <2>4, <2>5, <2>7, <3>2 DEF Exists, SavedTo
      <4> QED  BY <2>0, <2>4, <2>7, <3>2, <4>1, <4>2 DEF Dropped, H
    <3> QED  BY <2>0, <2>1, <2>2, <2>3, <2>5, <3>1, <3>2 DEF Honest, Claims
  <2> QED  BY <2>4, <2>6, <2>7 DEF SavedTo
<1> QED  BY <1>1, <1>2, <1>3, <1>4, <1>5, <1>6, <1>7, <1>8, <1>9 DEF SubInv

\* SaveRest keeps the invariant: the other changes of the settings are saved.
LEMMA SaveRestKeeps ==
  ASSUME SubInv, SaveRest
  PROVE  SubInv'
<1>0. /\ H.at = "save"
      /\ \/ H.op = "remove" /\ SaveTo(IF H.id = active THEN "drop" ELSE "dropOther", [subs EXCEPT ![H.id] = None], active, selected)
         \/ H.op = "choose" /\ SaveTo("prepare", subs, H.id, selected)
         \/ H.op = "node" /\ SaveTo("switch", subs, active, H.arg)
         \/ H.op = "device" /\ core # NoCore /\ SaveTo("prepare", subs, active, selected)
         \/ /\ H.op = "device" /\ core = NoCore /\ SavedTo("idle", subs, active, selected)
            /\ th'["handler"] = Idle
  BY SaveRestMoves
<1>1. ThreadsTyped'
  BY <1>0 DEF SavedTo, SaveTo
<1>2. SettingsTyped'
  <2>1. [subs EXCEPT ![H.id] = None] \in [Subs -> {None, Manual} \cup Urls]
    BY DEF SubInv, SettingsTyped
  <2>2. selected \in TagsAuto /\ subs \in [Subs -> {None, Manual} \cup Urls] /\ (H.op = "node" => H.arg \in TagsAuto)
    BY DEF SubInv, SettingsTyped, Handling
  <2> QED  BY <1>0, <2>1, <2>2, SavedSettings DEF SaveTo
<1>3. StoreTyped'
  BY <1>0, SubBasics
     DEF SaveRest, SavedTo, SaveTo, StoreTyped, SubInv, coreVars, loopVars
<1>4. CoreTyped'
  BY <1>0, SubBasics
     DEF SaveRest, SavedTo, SaveTo, CoreTyped, SubInv, coreVars, loopVars
<1>5. Threading'
  <2>0. Threading /\ "handler" \in Threads /\ H.at = "save" /\ (H.op = "remove" => H.id \in Subs)
    BY DEF SubInv, SaveRest, Threads, H, Handling
  <2>1. Loosened("timer") /\ Loosened("loop")
    BY <1>0 DEF SaveTo, SavedTo
  <2>2. CASE /\ th'["handler"].at \in {"drop", "dropOther", "prepare", "switch"}
             /\ th'["handler"].at \in {"drop", "dropOther"} => H.op = "remove"
             /\ Like(th'["handler"], H) /\ th'["handler"].on = H.on
    <3>1. Placed("handler", th["handler"])' /\ InHand(th["handler"])'
      BY <2>0, <2>2 DEF Threading, Placed, InHand, Fetching, Places, Like, H
    <3> QED  BY <2>0, <2>1, <3>1, SavedFits
  <2>3. CASE th'["handler"] = Idle
    BY <2>0, <2>1, <2>3, IdleFits, SavedFits
  <2> QED  BY <1>0, <2>2, <2>3 DEF SaveTo, SavedTo
<1>6. Handling'
  <2>0. Handling
    BY DEF SubInv
  <2>1. CASE H.op = "remove" /\ SaveTo(IF H.id = active THEN "drop" ELSE "dropOther", [subs EXCEPT ![H.id] = None], active, selected)
    BY <2>1 DEF SaveTo, SavedTo, Like, Handling, Fetching, H
  <2>2. CASE H.op = "choose" /\ SaveTo("prepare", subs, H.id, selected)
    BY <2>0, <2>2 DEF SaveTo, SavedTo, Like, Handling, Fetching, H, Exists
  <2>3. CASE H.op = "node" /\ SaveTo("switch", subs, active, H.arg)
    BY <2>0, <2>3 DEF SaveTo, SavedTo, Like, Handling, Fetching, H
  <2>4. CASE H.op = "device" /\ SaveTo("prepare", subs, active, selected)
    BY <2>4 DEF SaveTo, SavedTo, Like, Handling, Fetching, H
  <2>5. CASE th'["handler"] = Idle
    BY <2>5, IdleHandling
  <2> QED  BY <1>0, <2>1, <2>2, <2>3, <2>4, <2>5
<1>7. Fetches'
  <2>0. Handling /\ Fetches /\ Threading /\ UNCHANGED fetching /\ subs \in [Subs -> {None, Manual} \cup Urls]
    BY DEF SubInv, SettingsTyped, SaveRest
  <2>1. Quiet("handler")
    BY <1>0, <2>0, IdleIs DEF SaveRest, Quiet, Fetching, SavedTo, SaveTo
  <2>2. Loosened("timer") /\ Loosened("loop")
    BY <1>0 DEF SavedTo, SaveTo
  <2>3. \A id \in Subs : subs'[id] = Manual => subs[id] = Manual \/ fetching[id] = None
    <3>1. subs' \in {subs, [subs EXCEPT ![H.id] = None]} /\ Manual # None
      BY <1>0 DEF SavedTo, SaveTo, Manual, None
    <3> QED  BY <2>0, <3>1
  <2> QED  BY <2>0, <2>1, <2>2, <2>3, SavedQuiet
<1>8. Plane'
  BY <1>0, SubBasics
     DEF SaveRest, Loosened, SavedTo, SaveTo, Plane, Starting, Threading, Placed,
         InHand, TimerPlaces, LoopPlaces, H, L, Threads, SubInv, coreVars, loopVars
<1>9. Honest'
  <2>0. /\ Honest /\ Handling /\ Plane /\ CoreTyped /\ Threading /\ SettingsTyped /\ UNCHANGED <<core, running>>
    BY DEF SubInv, SaveRest, coreVars
  <2>1. (L.at)' = L.at
    BY <1>0 DEF SavedTo, SaveTo, Loosened, L
  <2>2. H.at = "save" /\ failed' = failed
    BY DEF SaveRest, H
  <2>3. /\ Claims => core.of = active /\ InForce
        /\ Claims => active \in Subs /\ subs[active] # None /\ core.list \in Lists
    <3>1. Claims => core.of = active /\ InForce
      BY <2>0, <2>2, Firm DEF Restarting
    <3> QED  BY <2>0, <3>1, SubConstants, UpIsOf DEF Claims, SettingsTyped, Exists
  <2>4. /\ [subs EXCEPT ![H.id] = None] \in [Subs -> {None, Manual} \cup Urls]
        /\ subs \in [Subs -> {None, Manual} \cup Urls] /\ selected \in TagsAuto
        /\ H.op = "node" => H.arg \in TagsAuto
    BY <2>0 DEF SettingsTyped, Handling
  <2>5. ASSUME th'["handler"].at \in {"prepare", "drop"}, th'["handler"].op = H.op, selected' = selected
        PROVE  Honest'
    <3>1. Restarting'
      BY <2>5 DEF Restarting, H
    <3>2. Claims => InForce'
      BY <2>0, <2>3, <2>5 DEF InForce
    <3> QED  BY <2>1, <2>2, <3>1, <3>2 DEF Honest, Claims
  <2>6. CASE H.op = "remove" /\ H.id # active /\ SaveTo("dropOther", [subs EXCEPT ![H.id] = None], active, selected)
    <3>1. Claims => [subs EXCEPT ![H.id] = None][active] # None
      BY <2>0, <2>3, <2>6 DEF SettingsTyped
    <3>2. Claims => UNCHANGED <<active, selected>>
      BY <2>3, <2>4, <2>6, <3>1, SavedSettings DEF SaveTo, SavedTo
    <3> QED  BY <2>0, <2>1, <2>2, <2>3, <3>2 DEF Honest, Claims, InForce
  <2>7. CASE H.op = "node" /\ SaveTo("switch", subs, active, H.arg)
    <3>1. Claims => active' = active
      BY <2>3, <2>4, <2>7, SavedSettings DEF SaveTo
    <3>2. th'["handler"].at = "switch"
      BY <2>7 DEF SaveTo, SavedTo
    <3> QED  BY <2>0, <2>1, <2>2, <2>3, <3>1, <3>2 DEF Honest, Claims, H
  <2>8. CASE core = NoCore
    BY <2>0, <2>1, <2>8, UpIsOf, NotUpHonest
  <2> QED  BY <1>0, <2>5, <2>6, <2>7, <2>8 DEF SaveTo, SavedTo, Like
<1> QED  BY <1>1, <1>2, <1>3, <1>4, <1>5, <1>6, <1>7, <1>8, <1>9 DEF SubInv

\* Drop keeps the invariant: a removed subscription is forgotten.
LEMMA DropKeeps ==
  ASSUME SubInv, Drop
  PROVE  SubInv'
<1>0. /\ H.at = "dropOther" => Finished("handler")
      /\ H.at = "drop" => Went("handler", IF active = None THEN "disconnect" ELSE "prepare")
  BY DropMoves
<1>1. ThreadsTyped'
  <2>1. H.at \in {"drop", "dropOther"}
    BY DEF Drop, H
  <2> QED  BY <1>0, <2>1 DEF Went, Finished
<1>2. SettingsTyped'
  BY <1>0, SubBasics
     DEF Drop, SettingsTyped, Exists, TagsAuto, SubInv, settingVars, coreVars,
         loopVars
<1>3. StoreTyped'
  BY <1>0, SubBasics DEF Drop, StoreTyped, SubInv, settingVars, coreVars, loopVars
<1>4. CoreTyped'
  BY <1>0, SubBasics DEF Drop, CoreTyped, SubInv, settingVars, coreVars, loopVars
<1>5. Threading'
  <2>0. ThreadsTyped /\ Threading /\ UNCHANGED active
    BY DEF SubInv, Drop, settingVars
  <2>1. H.at \in {"drop", "dropOther"} /\ "handler" \in Threads
    BY DEF Drop, H, Threads
  <2>2. CASE Finished("handler")
    BY <2>0, <2>1, <2>2, IdleFits, OthersFit DEF Finished
  <2>3. ASSUME NEW pc \in {"disconnect", "prepare"}, Went("handler", pc)
        PROVE  Threading'
    <3>1. Placed("handler", th["handler"])' /\ InHand(th["handler"])'
      BY <2>0, <2>1, <2>3, WentFits DEF Free, H
    <3> QED  BY <2>0, <2>3, <3>1, OthersFit DEF Went
  <2> QED  BY <1>0, <2>1, <2>2, <2>3
<1>6. Handling'
  <2>0. ThreadsTyped /\ Handling /\ UNCHANGED settingVars /\ "handler" \in Threads
    BY DEF SubInv, Drop, Threads
  <2>1. H.at \in {"drop", "dropOther"}
    BY DEF Drop, H
  <2> QED  BY <1>0, <2>0, <2>1, IdleHandling, WentHandling DEF Finished, settingVars
<1>7. Fetches'
  <2>0. /\ ThreadsTyped /\ Threading /\ Handling /\ Fetches /\ fetching \in [Subs -> Threads \cup {None}]
        /\ UNCHANGED settingVars /\ "handler" \in Threads /\ "loop" \in Threads
    BY DEF SubInv, StoreTyped, Drop, Threads
  <2>1. Quiet("handler")
    BY <1>0, <2>0, IdleIs
       DEF Drop, Quiet, Fetching, Fresh, Went, Finished, Threading, InHand, H
  <2>3. H.at \in {"drop", "dropOther"} /\ UNCHANGED fetching
    BY DEF Drop, H
  <2>2. Others({"handler"}) /\ UNCHANGED fetching
    BY <1>0, <2>3 DEF Went, Finished
  <2> QED  BY <2>0, <2>1, <2>2, OthersQuiet
<1>8. Plane'
  <2>0. /\ Plane /\ Threading /\ ThreadsTyped /\ UNCHANGED loopVars /\ UNCHANGED <<core, running>>
        /\ prepared' = prepared
    BY DEF SubInv, Drop, coreVars
  <2>1. Still("handler")
    BY <1>0, <2>0, IdleIs
       DEF Drop, Still, Swapping, Underway, LoopPlaces, Placed, Fresh, Went, Finished,
           Threading, InHand, H, Threads
  <2>3. H.at \in {"drop", "dropOther"}
    BY DEF Drop, H
  <2>2. Others({"handler"})
    BY <1>0, <2>3 DEF Went, Finished
  <2> QED  BY <2>0, <2>1, <2>2, OthersStill
<1>9. Honest'
  <2>0. /\ Honest /\ Handling /\ Plane /\ CoreTyped /\ Threading /\ Fetches
        /\ "loop" \in Threads /\ "handler" \in Threads
    BY DEF SubInv, Threads
  <2>1. PlaneKept /\ H.at \in {"drop", "dropOther"}
    <3>1. H.at \in {"drop", "dropOther"}
      BY DEF Drop, H
    <3>2. L' = L
      BY <1>0, <2>0, <3>1 DEF Went, Finished, Others, L
    <3> QED  BY <3>1, <3>2 DEF Drop, PlaneKept, settingVars, coreVars
  <2>2. CASE H.at = "dropOther"
    <3>1. Claims => core.of = active /\ InForce
      BY <2>0, <2>2, Firm DEF Restarting, Handling
    <3> QED  BY <2>1, <3>1, FirmHonest
  <2>3. CASE H.at = "drop"
    BY <1>0, <2>0, <2>1, <2>3, StepHonest DEF Went, Like, Restarting, H
  <2> QED  BY <2>1, <2>2, <2>3
<1> QED  BY <1>1, <1>2, <1>3, <1>4, <1>5, <1>6, <1>7, <1>8, <1>9 DEF SubInv

\* Rollback keeps the invariant: a choice is taken back.
LEMMA RollbackKeeps ==
  ASSUME SubInv, Rollback
  PROVE  SubInv'
<1>0. SavedTo("idle", subs, H.arg, selected) /\ th'["handler"] = Idle
  BY RollbackMoves
<1>1. ThreadsTyped'
  BY <1>0 DEF SavedTo
<1>2. SettingsTyped'
  BY <1>0, SavedSettings DEF SubInv, SettingsTyped
<1>3. StoreTyped'
  BY <1>0, SubBasics DEF Rollback, SavedTo, StoreTyped, SubInv, coreVars, loopVars
<1>4. CoreTyped'
  BY <1>0, SubBasics DEF Rollback, SavedTo, CoreTyped, SubInv, coreVars, loopVars
<1>5. Threading'
  <2>1. Threading /\ Loosened("timer") /\ Loosened("loop") /\ "handler" \in Threads
    BY <1>0 DEF SavedTo, Threads, SubInv
  <2> QED  BY <1>0, <2>1, IdleFits, SavedFits
<1>6. Handling'
  BY <1>0, IdleHandling
<1>7. Fetches'
  BY <1>0, SubBasics
     DEF Rollback, Loosened, SavedTo, Fetches, Fetching, Threading, Placed, InHand,
         StoreTyped, H, L, Threads, SubInv, coreVars, loopVars
<1>8. Plane'
  BY <1>0, SubBasics
     DEF Rollback, Loosened, SavedTo, Plane, Starting, Threading, Placed, InHand,
         TimerPlaces, LoopPlaces, H, L, Threads, SubInv, coreVars, loopVars
<1>9. Honest'
  <2>0. /\ Honest /\ Handling /\ Plane /\ CoreTyped /\ Threading /\ SettingsTyped /\ UNCHANGED <<core, running>>
    BY DEF SubInv, Rollback, coreVars
  <2>1. (L.at)' = L.at
    BY <1>0 DEF SavedTo, Loosened, L
  <2>2. /\ H.op = "choose" /\ H.arg \in Subs /\ subs[H.arg] # None /\ failed' = (failed \/ core.of # H.arg)
    BY <2>0 DEF Rollback, H, Handling, Exists
  <2>3. active' = H.arg /\ selected' = selected
    BY <1>0, <2>0, <2>2, SavedSettings DEF SettingsTyped, SavedTo
  <2>4. Claims => InForce
    BY <2>0, <2>2, ChooseInForce
  <2> QED  BY <2>0, <2>1, <2>2, <2>3, <2>4 DEF Honest, Claims, InForce
<1> QED  BY <1>1, <1>2, <1>3, <1>4, <1>5, <1>6, <1>7, <1>8, <1>9 DEF SubInv

\* SwitchNode keeps the invariant: a node is chosen in place or by a reconnection.
LEMMA SwitchNodeKeeps ==
  ASSUME SubInv, SwitchNode
  PROVE  SubInv'
<1>0. \/ core # NoCore /\ NeedsRebuild(H.arg) /\ Went("handler", "prepare") /\ UNCHANGED coreVars
      \/ core = NoCore /\ Finished("handler") /\ UNCHANGED coreVars
      \/ /\ core # NoCore /\ ~NeedsRebuild(H.arg) /\ Finished("handler")
         /\ core' = [core EXCEPT !.choice = H.arg, !.borrowed = FALSE] /\ remembered' = H.arg /\ UNCHANGED running
  BY SwitchNodeMoves
<1>1. ThreadsTyped'
  BY <1>0 DEF Went, Finished
<1>2. SettingsTyped'
  BY <1>0, SubBasics
     DEF SwitchNode, NeedsRebuild, SettingsTyped, Exists, TagsAuto, SubInv,
         settingVars, coreVars, loopVars
<1>3. StoreTyped'
  BY <1>0, SubBasics
     DEF SwitchNode, NeedsRebuild, StoreTyped, SubInv, settingVars, coreVars,
         loopVars
<1>4. CoreTyped'
  BY <1>0, SubBasics
     DEF SwitchNode, NeedsRebuild, CoreTyped, NoCore, TagsAuto, SubInv, settingVars,
         coreVars, loopVars
<1>5. Threading'
  <2>0. ThreadsTyped /\ Threading /\ UNCHANGED active
    BY DEF SubInv, SwitchNode, settingVars
  <2>1. H.at = "switch" /\ "handler" \in Threads
    BY DEF SwitchNode, H, Threads
  <2>2. CASE Finished("handler")
    BY <2>0, <2>1, <2>2, IdleFits, OthersFit DEF Finished
  <2>3. CASE Went("handler", "prepare")
    <3>1. Placed("handler", th["handler"])' /\ InHand(th["handler"])'
      BY <2>0, <2>1, <2>3, WentFits DEF Free, H
    <3> QED  BY <2>0, <2>3, <3>1, OthersFit DEF Went
  <2> QED  BY <1>0, <2>2, <2>3
<1>6. Handling'
  <2>0. ThreadsTyped /\ Handling /\ UNCHANGED settingVars /\ "handler" \in Threads
    BY DEF SubInv, SwitchNode, Threads
  <2> QED  BY <1>0, <2>0, IdleHandling, WentHandling DEF Finished, settingVars
<1>7. Fetches'
  <2>0. /\ ThreadsTyped /\ Threading /\ Handling /\ Fetches /\ fetching \in [Subs -> Threads \cup {None}]
        /\ UNCHANGED settingVars /\ "handler" \in Threads /\ "loop" \in Threads
    BY DEF SubInv, StoreTyped, SwitchNode, Threads
  <2>1. Quiet("handler")
    BY <1>0, <2>0, IdleIs
       DEF SwitchNode, Quiet, Fetching, Fresh, Went, Finished, Threading, InHand
  <2>2. Others({"handler"}) /\ UNCHANGED fetching
    BY <1>0 DEF SwitchNode, Went, Finished
  <2> QED  BY <2>0, <2>1, <2>2, OthersQuiet
<1>8. Plane'
  <2>0. /\ Plane /\ CoreTyped /\ UNCHANGED loopVars /\ prepared' = prepared /\ H.at = "switch"
        /\ Threads = {"handler", "timer", "loop"} /\ UNCHANGED running
    BY DEF SubInv, SwitchNode, coreVars, H, Threads
  <2>1. \A u \in Threads : Still(u)
    BY <1>0, <2>0, IdleIs DEF Still, Went, Finished, Others, Fresh, Swapping, H
  <2>2. core' = core \/ (core # NoCore /\ core' # NoCore /\ core'.list = core.list /\ core'.of = core.of)
    <3>1. ASSUME core # NoCore, core' = [core EXCEPT !.choice = H.arg, !.borrowed = FALSE]
          PROVE  core' # NoCore /\ core'.list = core.list /\ core'.of = core.of
      BY <2>0, <3>1, SubBasics DEF CoreTyped, NoCore
    <3> QED  BY <1>0, <3>1 DEF coreVars
  <2> QED  BY <2>0, <2>1, <2>2, StillPlane
<1>9. Honest'
  <2>0. /\ Honest /\ Handling /\ Plane /\ CoreTyped /\ Threading /\ Fetches
        /\ "loop" \in Threads /\ "handler" \in Threads
    BY DEF SubInv, Threads
  <2>1. /\ H.at = "switch" /\ H.op = "node" /\ H.arg = selected /\ ~Restarting /\ UNCHANGED <<active, selected, failed>>
        /\ selected \in TagsAuto
    BY <2>0
       DEF SwitchNode, H, Handling, Restarting, settingVars, SubInv, SettingsTyped
  <2>2. L' = L
    BY <1>0, <2>0 DEF Went, Finished, Others, L
  <2>3. CASE Went("handler", "prepare") /\ UNCHANGED coreVars
    BY <2>0, <2>1, <2>2, <2>3, StepHonest
       DEF PlaneKept, Went, Like, coreVars, Restarting, H
  <2>4. CASE core = NoCore /\ UNCHANGED coreVars
    BY <2>0, <2>2, <2>4, UpIsOf, NotUpHonest
  <2>5. CASE /\ core # NoCore /\ ~NeedsRebuild(H.arg) /\ core' = [core EXCEPT !.choice = H.arg, !.borrowed = FALSE]
    <3>1. /\ core'.choice = selected /\ core'.list = core.list /\ core'.of = core.of /\ core.list \in Lists
          /\ selected \in {"auto"} \cup DOMAIN Nodes[core.list]
      BY <2>0, <2>1, <2>5 DEF CoreTyped, NeedsRebuild
    <3>2. InForce'
      BY <2>1, <3>1, Defaults DEF InForce
    <3>3. Claims => core.of = active
      BY <2>0, <2>1 DEF Honest, Claims
    <3> QED  BY <2>1, <2>2, <3>1, <3>2, <3>3 DEF Honest, Claims
  <2> QED  BY <1>0, <2>3, <2>4, <2>5
<1> QED  BY <1>1, <1>2, <1>3, <1>4, <1>5, <1>6, <1>7, <1>8, <1>9 DEF SubInv

\* Connect keeps the invariant: the loop is started.
LEMMA ConnectKeeps ==
  ASSUME SubInv, Connect
  PROVE  SubInv'
<1>0. ConnectTo
  BY ConnectMoves
<1>1. ThreadsTyped'
  BY <1>0 DEF ConnectTo
<1>2. SettingsTyped'
  BY <1>0, SubBasics
     DEF Connect, ConnectTo, SettingsTyped, Exists, TagsAuto, SubInv, settingVars,
         coreVars
<1>3. StoreTyped'
  BY <1>0, SubBasics
     DEF Connect, ConnectTo, StoreTyped, SubInv, settingVars, coreVars
<1>4. CoreTyped'
  BY <1>0, SubBasics
     DEF Connect, ConnectTo, CoreTyped, SubInv, settingVars, coreVars
<1>5. Threading'
  <2>0. ThreadsTyped /\ Threading /\ UNCHANGED active
    BY DEF SubInv, Connect, settingVars
  <2>1. "loop" \in Threads /\ "handler" \in Threads
    BY DEF Threads
  <2>2. Placed("handler", th["handler"])' /\ InHand(th["handler"])'
    BY <1>0, <2>1, IdleFits DEF ConnectTo
  <2>3. Placed("loop", th["loop"])' /\ InHand(th["loop"])'
    BY <1>0, <2>0, <2>1
       DEF ConnectTo, Threading, Placed, InHand, Fetching, Like, L, LoopPlaces
  <2> QED  BY <1>0, <2>0, <2>2, <2>3, OthersFit DEF ConnectTo
<1>6. Handling'
  BY <1>0, IdleHandling DEF ConnectTo
<1>7. Fetches'
  <2>0. /\ ThreadsTyped /\ Threading /\ Handling /\ Fetches /\ fetching \in [Subs -> Threads \cup {None}]
        /\ UNCHANGED settingVars /\ "handler" \in Threads /\ "loop" \in Threads
    BY DEF SubInv, StoreTyped, Connect, Threads
  <2>1. Quiet("handler") /\ Quiet("loop")
    BY <1>0, IdleIs DEF Connect, ConnectTo, Quiet, Fetching, Fresh, Like, L
  <2>2. Others({"handler", "loop"}) /\ UNCHANGED fetching
    BY <1>0 DEF Connect, ConnectTo
  <2> QED  BY <2>0, <2>1, <2>2, OthersQuiet
<1>8. Plane'
  <2>0. Plane /\ Threading /\ CoreTyped /\ "loop" \in Threads /\ "handler" \in Threads
    BY DEF SubInv, Threads
  <2>1. /\ H.at = "connect" /\ opMu = None /\ opMu' = None /\ halted' = FALSE /\ wanted' = TRUE
        /\ UNCHANGED <<core, running, prepared>>
    BY DEF Connect, H, coreVars
  <2>2. /\ (\A u \in Threads \ {"handler", "loop"} : th'[u] = th[u]) /\ th'["handler"].at = "idle"
        /\ (L.at)' = IF L.at = "idle" THEN "look" ELSE L.at
    BY <1>0, <2>0, IdleIs DEF ConnectTo, Others, L, Fresh
  <2>3. \A u \in Threads : th[u].at \notin {"swapping", "disconnecting"} /\ u # None
    BY <2>0, <2>1 DEF Plane, Threads, None
  <2>4. \A u \in Threads : th'[u].at \notin {"swapping", "disconnecting"}
    BY <2>0, <2>2, <2>3 DEF L
  <2>5. (L.at)' \notin {"idle", "started", "up"} => core = NoCore /\ running = None
    BY <2>0, <2>1, <2>2 DEF Plane
  <2>6. (L.at)' # "idle" /\ ((L.at)' \in {"started", "up", "preset"} => L.at = (L.at)')
    BY <2>2
  <2> QED  BY <2>0, <2>1, <2>2, <2>3, <2>4, <2>5, <2>6 DEF Plane, Starting, L, H
<1>9. Honest'
  <2>0. /\ Honest /\ Handling /\ Plane /\ CoreTyped /\ Threading /\ Fetches
        /\ "loop" \in Threads /\ "handler" \in Threads
    BY DEF SubInv, Threads
  <2>1. H.at = "connect" /\ PlaneKept
    BY <1>0 DEF Connect, ConnectTo, PlaneKept, settingVars, coreVars, L, H
  <2>2. Claims => core.of = active /\ InForce
    BY <2>0, <2>1, Firm DEF Restarting
  <2> QED  BY <2>1, <2>2, FirmHonest
<1> QED  BY <1>1, <1>2, <1>3, <1>4, <1>5, <1>6, <1>7, <1>8, <1>9 DEF SubInv

\* Disconnect keeps the invariant: the core is stopped and the loop with it.
LEMMA DisconnectKeeps ==
  ASSUME SubInv, Disconnect
  PROVE  SubInv'
<1>0. \/ H.at = "disconnect" /\ opMu = None /\ Went("handler", "disconnecting")
         /\ wanted' = FALSE /\ halted' = TRUE /\ opMu' = "handler"
         /\ UNCHANGED <<pre, settingVars, coreVars, cache, offer, prepared, fetching, failed>>
      \/ H.at = "disconnecting" /\ L.at = "idle" /\ Finished("handler") /\ StopCore /\ opMu' = None
         /\ UNCHANGED <<wanted, halted, pre, settingVars, cache, offer, prepared, fetching, failed>>
  BY DisconnectMoves
<1>1. ThreadsTyped'
  BY <1>0 DEF Went, Finished
<1>2. SettingsTyped'
  <2>1. UNCHANGED settingVars
    BY DEF Disconnect
  <2> QED  BY <2>1 DEF SubInv, SettingsTyped, settingVars, Exists
<1>3. StoreTyped'
  BY <1>0, SubBasics
     DEF Disconnect, StopCore, StoreTyped, H, L, Threads, SubInv, settingVars,
         coreVars
<1>4. CoreTyped'
  BY <1>0, SubBasics
     DEF Disconnect, StopCore, CoreTyped, SubInv, settingVars, coreVars
<1>5. Threading'
  <2>0. ThreadsTyped /\ Threading /\ UNCHANGED active
    BY DEF SubInv, Disconnect, settingVars
  <2>1. "handler" \in Threads /\ H.at \in {"disconnect", "disconnecting"}
    BY DEF Threads, Disconnect, H
  <2>2. CASE Finished("handler")
    BY <2>0, <2>1, <2>2, IdleFits, OthersFit DEF Finished
  <2>3. CASE Went("handler", "disconnecting")
    <3>1. Placed("handler", th["handler"])' /\ InHand(th["handler"])'
      BY <2>0, <2>1, <2>3, WentFits DEF Free, H
    <3> QED  BY <2>0, <2>3, <3>1, OthersFit DEF Went
  <2> QED  BY <1>0, <2>2, <2>3
<1>6. Handling'
  <2>0. ThreadsTyped /\ Handling /\ UNCHANGED settingVars /\ "handler" \in Threads
    BY DEF SubInv, Disconnect, Threads
  <2> QED  BY <1>0, <2>0, IdleHandling, WentHandling DEF Finished, settingVars
<1>7. Fetches'
  <2>0. /\ ThreadsTyped /\ Threading /\ Handling /\ Fetches /\ fetching \in [Subs -> Threads \cup {None}]
        /\ UNCHANGED settingVars /\ "handler" \in Threads /\ "loop" \in Threads
    BY DEF SubInv, StoreTyped, Disconnect, Threads
  <2>1. Quiet("handler")
    BY <1>0, <2>0, IdleIs
       DEF Disconnect, Quiet, Fetching, Fresh, Went, Finished, Threading, InHand
  <2>2. Others({"handler"}) /\ UNCHANGED fetching
    BY <1>0 DEF Disconnect, Went, Finished
  <2> QED  BY <2>0, <2>1, <2>2, OthersQuiet
<1>8. Plane'
  <2>0. Plane /\ Threading /\ CoreTyped /\ "loop" \in Threads /\ "handler" \in Threads
    BY DEF SubInv, Threads
  <2>1. CASE /\ H.at = "disconnect" /\ opMu = None /\ Went("handler", "disconnecting")
             /\ wanted' = FALSE /\ halted' = TRUE /\ opMu' = "handler" /\ UNCHANGED <<coreVars, prepared>>
    <3>1. L' = L /\ (\A u \in Threads \ {"handler"} : th'[u] = th[u]) /\ th'["handler"].at = "disconnecting"
      BY <2>0, <2>1 DEF Went, Others, L, Threads
    <3>2. \A u \in Threads : th[u].at \notin {"swapping", "disconnecting"} /\ u # None
      BY <2>0, <2>1 DEF Plane, Threads, None
    <3>3. \A u \in Threads : opMu' = u <=> th'[u].at \in {"swapping", "disconnecting"}
      BY <2>0, <2>1, <3>1, <3>2
    <3>4. "handler" # None /\ (H.at)' = "disconnecting"
      BY <2>0, <3>1, <3>2 DEF H
    <3> QED  BY <2>0, <2>1, <3>1, <3>2, <3>3, <3>4 DEF Plane, Starting, coreVars
  <2>2. CASE /\ H.at = "disconnecting" /\ L.at = "idle" /\ Finished("handler") /\ StopCore /\ opMu' = None
             /\ UNCHANGED <<wanted, halted, prepared>>
    <3>1. L' = L /\ (\A u \in Threads \ {"handler"} : th'[u] = th[u]) /\ th'["handler"].at = "idle"
      BY <2>0, <2>2, IdleIs DEF Finished, Others, L, Threads, Fresh
    <3>2. opMu = "handler"
      BY <2>0, <2>2 DEF Plane, H
    <3>3. \A u \in Threads : th'[u].at \notin {"swapping", "disconnecting"} /\ u # None
      BY <2>0, <3>1, <3>2 DEF Plane, Threads, None
    <3> QED  BY <2>0, <2>2, <3>1, <3>3 DEF Plane, Starting, StopCore
  <2> QED  BY <1>0, <2>1, <2>2
<1>9. Honest'
  <2>0. /\ Honest /\ Handling /\ Plane /\ CoreTyped /\ Threading /\ Fetches
        /\ "loop" \in Threads /\ "handler" \in Threads
    BY DEF SubInv, Threads
  <2>1. CASE Went("handler", "disconnecting") /\ UNCHANGED <<settingVars, coreVars, failed>> /\ H.at = "disconnect"
    <3>1. L' = L
      BY <2>0, <2>1 DEF Went, Others, L
    <3> QED  BY <2>0, <2>1, <3>1, StepHonest
                DEF Went, Like, PlaneKept, settingVars, coreVars, Restarting, H
  <2>2. CASE L.at = "idle" /\ Finished("handler")
    BY <2>0, <2>2, NotUpHonest DEF Finished, Others, L
  <2> QED  BY <1>0, <2>1, <2>2
<1> QED  BY <1>1, <1>2, <1>3, <1>4, <1>5, <1>6, <1>7, <1>8, <1>9 DEF SubInv

\* Look keeps the invariant: the loop begins to prepare.
LEMMA LookKeeps ==
  ASSUME SubInv, Look
  PROVE  SubInv'
<1>0. Begun("loop", IF pre = NoProfile THEN "prepare" ELSE "ready") /\ th'["loop"].was = pre
  BY LookMoves
<1>1. ThreadsTyped'
  BY <1>0 DEF Fresh, Begun
<1>2. SettingsTyped'
  BY <1>0, SubBasics
     DEF Look, SettingsTyped, Exists, TagsAuto, SubInv, settingVars, coreVars
<1>3. StoreTyped'
  BY <1>0, SubBasics DEF Look, StoreTyped, SubInv, settingVars, coreVars
<1>4. CoreTyped'
  BY <1>0, SubBasics DEF Look, CoreTyped, SubInv, settingVars, coreVars
<1>5. Threading'
  <2>0. ThreadsTyped /\ Threading /\ UNCHANGED active
    BY DEF SubInv, Look, settingVars
  <2>1. "loop" \in Threads /\ (pre # NoProfile => pre.list \in Lists)
    BY SubBasics DEF Threads, SubInv, StoreTyped
  <2>2. Placed("loop", th["loop"])' /\ InHand(th["loop"])'
    BY <1>0, <2>1, BegunFits
  <2> QED  BY <1>0, <2>0, <2>2, OthersFit DEF Begun
<1>6. Handling'
  <2>0. ThreadsTyped /\ Handling /\ UNCHANGED settingVars /\ "handler" \in Threads
    BY DEF SubInv, Look, Threads
  <2>1. th'["handler"] = H /\ UNCHANGED fetching
    BY <1>0, <2>0 DEF Look, H
  <2> QED  BY <2>0, <2>1, OtherHandling
<1>7. Fetches'
  BY <1>0, SubBasics
     DEF Look, Fetches, Fetching, Threading, Placed, InHand, StoreTyped, SubInv,
         settingVars, coreVars
<1>8. Plane'
  BY <1>0, SubBasics
     DEF Look, Plane, Starting, Threading, Placed, InHand, TimerPlaces, LoopPlaces,
         H, L, Threads, SubInv, settingVars, coreVars
<1>9. Honest'
  BY <1>0, NotUpHonest DEF L, Begun, Fresh
<1> QED  BY <1>1, <1>2, <1>3, <1>4, <1>5, <1>6, <1>7, <1>8, <1>9 DEF SubInv

\* StartBegins keeps the invariant: the loop takes what was prepared, or looks again.
LEMMA StartBeginsKeeps ==
  ASSUME SubInv, StartBegins
  PROVE  SubInv'
<1>0. \/ /\ Went("loop", "preset") /\ prepared.current /\ prepared.list = L.was.list
         /\ remembered' \in {remembered, Choice} /\ UNCHANGED <<core, running>>
      \/ Went("loop", "unprepared") /\ UNCHANGED coreVars
  BY StartBeginsMoves
<1>1. ThreadsTyped'
  BY <1>0 DEF Went
<1>2. SettingsTyped'
  BY <1>0, SubBasics
     DEF StartBegins, SettingsTyped, Exists, TagsAuto, SubInv, settingVars,
         coreVars, loopVars
<1>3. StoreTyped'
  BY <1>0, SubBasics
     DEF StartBegins, StoreTyped, SubInv, settingVars, coreVars, loopVars
<1>4. CoreTyped'
  <2>1. UNCHANGED <<prepared, active>>
    BY DEF StartBegins, settingVars
  <2>2. CASE prepared.current /\ remembered' \in {remembered, Choice} /\ UNCHANGED <<core, running>>
    <3>1. Choice \in TagsAuto
      BY <2>2, Defaults DEF Choice, SubInv, CoreTyped, SettingsTyped
    <3> QED  BY <2>1, <2>2, <3>1 DEF SubInv, CoreTyped
  <2>3. CASE UNCHANGED coreVars
    BY <2>1, <2>3 DEF SubInv, CoreTyped, coreVars
  <2> QED  BY <1>0, <2>2, <2>3
<1>5. Threading'
  BY <1>0, SubBasics
     DEF StartBegins, Others, Like, Went, Threading, Placed, InHand, Fetching,
         TimerPlaces, LoopPlaces, SubInv, settingVars, coreVars, loopVars
<1>6. Handling'
  <2>0. ThreadsTyped /\ Handling /\ UNCHANGED settingVars /\ "handler" \in Threads
    BY DEF SubInv, StartBegins, Threads
  <2>1. th'["handler"] = H /\ UNCHANGED fetching
    BY <1>0, <2>0 DEF StartBegins, Went, Others, H
  <2> QED  BY <2>0, <2>1, OtherHandling
<1>7. Fetches'
  BY <1>0, SubBasics
     DEF StartBegins, Others, Like, Went, Fetches, Fetching, Threading, Placed,
         InHand, StoreTyped, SubInv, settingVars, coreVars, loopVars
<1>8. Plane'
  BY <1>0, SubBasics
     DEF StartBegins, Others, Like, Went, Plane, Starting, Threading, Placed,
         InHand, TimerPlaces, LoopPlaces, H, L, Threads, SubInv, settingVars,
         coreVars, loopVars
<1>9. Honest'
  BY <1>0, NotUpHonest DEF L, Went
<1> QED  BY <1>1, <1>2, <1>3, <1>4, <1>5, <1>6, <1>7, <1>8, <1>9 DEF SubInv

\* StartCore keeps the invariant: the loop starts the core.
LEMMA StartCoreKeeps ==
  ASSUME SubInv, StartCore
  PROVE  SubInv'
<1>0. \/ /\ Went("loop", "started") /\ UNCHANGED <<remembered, running>>
         /\ core' = [list |-> prepared.list, of |-> prepared.of, borrowed |-> FALSE,
                      choice |-> DefaultSelected(prepared.list, remembered)]
      \/ Went("loop", "unprepared") /\ UNCHANGED coreVars
  BY StartCoreMoves
<1>1. ThreadsTyped'
  BY <1>0 DEF Went
<1>2. SettingsTyped'
  BY <1>0, SubBasics
     DEF StartCore, SettingsTyped, Exists, TagsAuto, SubInv, settingVars, coreVars,
         loopVars
<1>3. StoreTyped'
  BY <1>0, SubBasics
     DEF StartCore, StoreTyped, SubInv, settingVars, coreVars, loopVars
<1>4. CoreTyped'
  <2>1. prepared.current /\ UNCHANGED <<prepared, active>>
    BY DEF SubInv, Plane, Starting, StartCore, settingVars
  <2>2. prepared.list \in Lists /\ prepared.of \in Subs /\ remembered \in TagsAuto
    BY <2>1 DEF SubInv, CoreTyped
  <2>3. DefaultSelected(prepared.list, remembered) \in {"auto"} \cup DOMAIN Nodes[prepared.list]
        /\ DefaultSelected(prepared.list, remembered) \in TagsAuto
    BY <2>2, Defaults
  <2>4. CASE UNCHANGED coreVars
    BY <2>1, <2>4 DEF SubInv, CoreTyped, coreVars
  <2>5. CASE /\ UNCHANGED <<remembered, running>>
             /\ core' = [list |-> prepared.list, of |-> prepared.of, borrowed |-> FALSE,
                         choice |-> DefaultSelected(prepared.list, remembered)]
    <3>1. core' \in [list : Lists, of : Subs, choice : TagsAuto, borrowed : BOOLEAN]
      BY <2>2, <2>3, <2>5
    <3>2. core'.choice \in {"auto"} \cup DOMAIN Nodes[core'.list]
      BY <2>3, <2>5
    <3> QED  BY <2>1, <2>5, <3>1, <3>2 DEF SubInv, CoreTyped
  <2> QED  BY <1>0, <2>4, <2>5
<1>5. Threading'
  BY <1>0, SubBasics
     DEF StartCore, Others, Like, Went, Threading, Placed, InHand, Fetching,
         TimerPlaces, LoopPlaces, SubInv, settingVars, coreVars, loopVars
<1>6. Handling'
  <2>0. ThreadsTyped /\ Handling /\ UNCHANGED settingVars /\ "handler" \in Threads
    BY DEF SubInv, StartCore, Threads
  <2>1. th'["handler"] = H /\ UNCHANGED fetching
    BY <1>0, <2>0 DEF StartCore, Went, Others, H
  <2> QED  BY <2>0, <2>1, OtherHandling
<1>7. Fetches'
  BY <1>0, SubBasics
     DEF StartCore, Others, Like, Went, Fetches, Fetching, Threading, Placed,
         InHand, StoreTyped, SubInv, settingVars, coreVars, loopVars
<1>8. Plane'
  <2>0. Plane /\ Threading /\ CoreTyped /\ "loop" \in Threads /\ "handler" \in Threads
    BY DEF SubInv, Threads
  <2>1. UNCHANGED loopVars /\ UNCHANGED prepared
    BY DEF StartCore
  <2>2. Others({"loop"})
    BY <1>0 DEF Went
  <2>3. H' = H /\ \A u \in Threads \ {"loop"} : th'[u] = th[u]
    BY <2>0, <2>2 DEF Others, H
  <2>4. L.at = "preset" /\ prepared.current /\ core = NoCore /\ running = None
    BY <2>0 DEF StartCore, Plane, Starting, L
  <2>5. prepared.list \in Lists
    BY <2>0, <2>4 DEF CoreTyped
  <2>6. \A u \in Threads : opMu = u <=> th'[u].at \in {"swapping", "disconnecting"}
    BY <1>0, <2>0, <2>3, <2>4 DEF Plane, Went, L
  <2>7. CASE /\ Went("loop", "started") /\ UNCHANGED running
             /\ core' = [list |-> prepared.list, of |-> prepared.of, borrowed |-> FALSE,
                      choice |-> DefaultSelected(prepared.list, remembered)]
    <3>1. core' # NoCore /\ core'.list = prepared.list /\ core'.of = prepared.of
      BY <2>5, <2>7, SubBasics DEF NoCore
    <3> QED  BY <2>0, <2>1, <2>3, <2>4, <2>6, <2>7, <3>1
                DEF Plane, Went, Starting, L, H, loopVars
  <2>8. CASE Went("loop", "unprepared") /\ UNCHANGED coreVars
    BY <2>0, <2>1, <2>3, <2>4, <2>6, <2>8
       DEF Plane, Went, Starting, L, H, loopVars, coreVars
  <2> QED  BY <1>0, <2>7, <2>8
<1>9. Honest'
  BY <1>0, NotUpHonest DEF L, Went
<1> QED  BY <1>1, <1>2, <1>3, <1>4, <1>5, <1>6, <1>7, <1>8, <1>9 DEF SubInv

\* StartDone keeps the invariant: the loop has the core up.
LEMMA StartDoneKeeps ==
  ASSUME SubInv, StartDone
  PROVE  SubInv'
<1>0. Begun("loop", "up")
  BY StartDoneMoves
<1>1. ThreadsTyped'
  BY <1>0 DEF Fresh, Begun
<1>2. SettingsTyped'
  BY <1>0, SubBasics
     DEF StartDone, Choice, SettingsTyped, Exists, TagsAuto, SubInv, settingVars,
         loopVars
<1>3. StoreTyped'
  BY <1>0, SubBasics
     DEF StartDone, Choice, StoreTyped, SubInv, settingVars, loopVars
<1>4. CoreTyped'
  <2>1. core # NoCore /\ core.list = prepared.list
    BY DEF SubInv, Plane, StartDone, L
  <2>2. /\ core \in [list : Lists, of : Subs, choice : TagsAuto, borrowed : BOOLEAN] /\ prepared.list \in Lists
        /\ selected \in TagsAuto
    BY <2>1, SubBasics DEF SubInv, CoreTyped, SettingsTyped
  <2>3. Choice \in {"auto"} \cup DOMAIN Nodes[prepared.list] /\ Choice \in TagsAuto
    BY <2>2, Defaults DEF Choice
  <2>4. /\ core' = [core EXCEPT !.choice = Choice] /\ remembered' = Choice
        /\ running' = prepared.list /\ UNCHANGED <<prepared, active>>
    BY DEF StartDone, settingVars
  <2> HIDE DEF Choice
  <2> QED  BY <2>1, <2>2, <2>3, <2>4 DEF SubInv, CoreTyped
<1>5. Threading'
  BY <1>0, SubBasics
     DEF StartDone, Choice, Fresh, Begun, Threading, Placed, InHand, Fetching,
         TimerPlaces, LoopPlaces, SubInv, settingVars, loopVars
<1>6. Handling'
  <2>0. ThreadsTyped /\ Handling /\ UNCHANGED settingVars /\ "handler" \in Threads
    BY DEF SubInv, StartDone, Threads
  <2>1. th'["handler"] = H /\ UNCHANGED fetching
    BY <1>0, <2>0 DEF StartDone, H
  <2> QED  BY <2>0, <2>1, OtherHandling
<1>7. Fetches'
  BY <1>0, SubBasics
     DEF StartDone, Choice, Fetches, Fetching, Threading, Placed, InHand,
         StoreTyped, SubInv, settingVars, loopVars
<1>8. Plane'
  <2>0. Plane /\ Threading /\ CoreTyped /\ "loop" \in Threads /\ "handler" \in Threads
    BY DEF SubInv, Threads
  <2>1. UNCHANGED loopVars /\ UNCHANGED prepared
    BY DEF StartDone
  <2>2. Others({"loop"})
    BY <1>0 DEF Begun
  <2>3. H' = H /\ \A u \in Threads \ {"loop"} : th'[u] = th[u]
    BY <2>0, <2>2 DEF Others, H
  <2>4. L.at = "started" /\ prepared.current /\ core # NoCore /\ core.list = prepared.list
    BY <2>0 DEF StartDone, Plane, Starting, L
  <2>5. core' = [core EXCEPT !.choice = Choice] /\ running' = prepared.list /\ (L.at)' = "up"
    BY <1>0 DEF StartDone, L, Begun, Fresh
  <2>6. \A u \in Threads : opMu = u <=> th'[u].at \in {"swapping", "disconnecting"}
    BY <2>0, <2>3, <2>4, <2>5 DEF Plane, L
  <2>7. core' # NoCore /\ core'.list = running' /\ running' # None
    BY <2>0, <2>4, <2>5, SubBasics DEF CoreTyped, NoCore
  <2> QED  BY <2>0, <2>1, <2>3, <2>4, <2>5, <2>6, <2>7
              DEF Plane, Starting, L, H, loopVars
<1>9. Honest'
  <2>0. /\ Honest /\ Handling /\ Plane /\ CoreTyped /\ Threading /\ Fetches
        /\ "loop" \in Threads /\ "handler" \in Threads
    BY DEF SubInv, Threads
  <2>1. L.at = "started" /\ prepared.current /\ core # NoCore /\ core.list = prepared.list /\ core.of = prepared.of
    BY <2>0 DEF StartDone, Plane, Starting, L
  <2>2. core' = [core EXCEPT !.choice = Choice] /\ UNCHANGED <<active, selected>>
    BY DEF StartDone, settingVars
  <2>3. core'.choice = Choice /\ core'.list = core.list /\ core'.of = core.of /\ core.of = active
    BY <2>0, <2>1, <2>2 DEF CoreTyped
  <2> QED  BY <2>1, <2>2, <2>3 DEF Honest, InForce, Choice
<1> QED  BY <1>1, <1>2, <1>3, <1>4, <1>5, <1>6, <1>7, <1>8, <1>9 DEF SubInv

\* LoopExits keeps the invariant: a cancelled loop ends.
LEMMA LoopExitsKeeps ==
  ASSUME SubInv, LoopExits
  PROVE  SubInv'
<1>0. Returned("loop") /\ th'["loop"] = Idle
  BY LoopExitsMoves
<1>1. ThreadsTyped'
  BY <1>0 DEF AfterOf, Woken, Returned
<1>2. SettingsTyped'
  BY <1>0, SubBasics
     DEF LoopExits, SettingsTyped, Exists, TagsAuto, SubInv, settingVars, coreVars,
         loopVars
<1>3. StoreTyped'
  BY <1>0, SubBasics
     DEF LoopExits, AfterOf, Woken, Returned, StoreTyped, SubInv, settingVars,
         coreVars, loopVars
<1>4. CoreTyped'
  BY <1>0, SubBasics
     DEF LoopExits, CoreTyped, SubInv, settingVars, coreVars, loopVars
<1>5. Threading'
  <2>0. ThreadsTyped /\ Threading /\ UNCHANGED active
    BY DEF SubInv, LoopExits, settingVars
  <2>1. "loop" \in Threads /\ Fetches
    BY DEF Threads, SubInv
  <2> QED  BY <1>0, <2>0, <2>1, IdleFits, ReturnedFits
<1>6. Handling'
  <2>0. ThreadsTyped /\ Handling /\ UNCHANGED settingVars /\ "handler" \in Threads
    BY DEF SubInv, LoopExits, Threads
  <2> QED  BY <1>0, <2>0, WokenHandling DEF Threads, SubInv, StoreTyped
<1>7. Fetches'
  <2>0. /\ ThreadsTyped /\ Threading /\ Handling /\ Fetches /\ fetching \in [Subs -> Threads \cup {None}]
        /\ UNCHANGED settingVars /\ "handler" \in Threads /\ "loop" \in Threads
    BY DEF SubInv, StoreTyped, LoopExits, Threads
  <2>1. ~Fetching(th'["loop"]) /\ th'["loop"].at # "waiting"
    BY <1>0, IdleIs DEF Fetching, Fresh
  <2> QED  BY <1>0, <2>0, <2>1, ReturnedFetches DEF settingVars
<1>8. Plane'
  <2>0. Plane /\ Threading /\ CoreTyped /\ "loop" \in Threads /\ "handler" \in Threads
    BY DEF SubInv, Threads
  <2>1. /\ (L.at)' = "idle" /\ halted /\ opMu # None /\ UNCHANGED loopVars
        /\ UNCHANGED <<core, running, prepared>>
    BY <1>0, <2>0, IdleIs DEF LoopExits, Plane, coreVars, Fresh, L
  <2>2. \A u \in Threads \ {"loop"} : Still(u)
    BY <1>0, <2>0, WokenStill
  <2>3. \A u \in Threads : th'[u].at \in Swapping \/ th[u].at \in Swapping => th'[u].at = th[u].at
    BY <2>0, <2>1, <2>2 DEF Still, L, Threading, Placed, LoopPlaces, Swapping
  <2>4. (H.at)' = "disconnecting" <=> H.at = "disconnecting"
    BY <2>0, <2>3 DEF H, Swapping
  <2> QED  BY <2>0, <2>1, <2>3, <2>4 DEF Plane, Swapping, loopVars, Starting, L
<1>9. Honest'
  BY <1>0, IdleIs, NotUpHonest DEF L, Fresh
<1> QED  BY <1>1, <1>2, <1>3, <1>4, <1>5, <1>6, <1>7, <1>8, <1>9 DEF SubInv

\* Request keeps the invariant: a request begins.
LEMMA RequestKeeps ==
  ASSUME SubInv, Request
  PROVE  SubInv'
<1>0. Requested
  BY RequestMoves
<1>1. ThreadsTyped'
  BY <1>0 DEF Requested, Asked
<1>2. SettingsTyped'
  BY <1>0, SubBasics
     DEF Request, Requested, Asked, SettingsTyped, Exists, TagsAuto, SubInv,
         settingVars, coreVars, loopVars
<1>3. StoreTyped'
  BY <1>0, SubBasics
     DEF Request, Requested, Asked, StoreTyped, SubInv, settingVars, coreVars,
         loopVars
<1>4. CoreTyped'
  BY <1>0, SubBasics
     DEF Request, Requested, Asked, CoreTyped, SubInv, settingVars, coreVars,
         loopVars
<1>5. Threading'
  <2>0. ThreadsTyped /\ Threading /\ UNCHANGED active
    BY DEF SubInv, Request, settingVars
  <2>1. Others({"handler"}) /\ "handler" \in Threads
    BY <1>0 DEF Requested, Asked, Threads
  <2>2. /\ th'["handler"].at \in {"fetch", "save", "refresh", "connect", "disconnect"}
        /\ th'["handler"].at = "fetch" => th'["handler"].op \in {"add", "rename"}
        /\ th'["handler"].at \in {"fetch", "refresh"} => th'["handler"].id \in Subs
        /\ th'["handler"].on = None /\ ~th'["handler"].inner /\ ~th'["handler"].coherent
    BY <1>0 DEF Requested, Asked
  <2>3. Placed("handler", th["handler"])' /\ InHand(th["handler"])'
    BY <2>2 DEF Placed, InHand, Fetching, Places
  <2> QED  BY <2>0, <2>1, <2>3, OthersFit
<1>6. Handling'
  <2>0. ThreadsTyped /\ Handling /\ UNCHANGED settingVars /\ "handler" \in Threads
    BY DEF SubInv, Request, Threads
  <2>1. UNCHANGED fetching /\ Fetches /\ fetching \in [Subs -> Threads \cup {None}]
    BY DEF Request, SubInv, StoreTyped
  <2>2. CASE \E id \in Subs, url \in Urls : Asked("add", "fetch", id, url) \/ Asked("rename", "fetch", id, url)
    BY <2>2 DEF Asked, Handling, Fetching, H
  <2>3. CASE \E id \in Subs : Exists(id) /\ Asked("remove", "save", id, None)
    BY <2>0, <2>3 DEF Asked, Handling, Fetching, H, Exists, settingVars
  <2>4. CASE \E id \in Subs : Exists(id) /\ active \in Subs /\ Exists(active) /\ Asked("choose", "save", id, active)
    BY <2>0, <2>4 DEF Asked, Handling, Fetching, H, Exists, settingVars
  <2>5. CASE \E tag \in TagsAuto : Asked("node", "save", None, tag)
    BY <2>5 DEF Asked, Handling, Fetching, H
  <2>6. CASE \E id \in Subs : (subs[id] = Manual \/ New(id)) /\ Asked("edit", "save", id, None)
    <3>1. PICK id \in Subs : (subs[id] = Manual \/ New(id)) /\ Asked("edit", "save", id, None)
      BY <2>6
    <3>2. subs[id] \notin Urls /\ fetching[id] = None
      BY <2>0, <2>1, <3>1, NoFetchOfNew DEF New, Exists, Urls, Manual, None
    <3> QED  BY <2>0, <2>1, <3>1, <3>2 DEF Asked, Handling, Fetching, H, settingVars
  <2>7. CASE \E id \in Subs : Asked("refresh", "refresh", id, None)
    BY <2>7 DEF Asked, Handling, Fetching, H
  <2>8. CASE Asked("device", "save", None, None) \/ Asked("connect", "connect", None, None)
             \/ Asked("disconnect", "disconnect", None, None)
    BY <2>8 DEF Asked, Handling, Fetching, H
  <2> QED  BY <1>0, <2>2, <2>3, <2>4, <2>5, <2>6, <2>7, <2>8 DEF Requested
<1>7. Fetches'
  <2>0. /\ ThreadsTyped /\ Threading /\ Handling /\ Fetches /\ fetching \in [Subs -> Threads \cup {None}]
        /\ UNCHANGED settingVars /\ "handler" \in Threads /\ "loop" \in Threads
    BY DEF SubInv, StoreTyped, Request, Threads
  <2>1. Quiet("handler")
    BY <1>0, <2>0, IdleIs
       DEF Request, Quiet, Fetching, Threading, InHand, Requested, Asked
  <2>2. Others({"handler"}) /\ UNCHANGED fetching
    BY <1>0 DEF Request, Requested, Asked
  <2> QED  BY <2>0, <2>1, <2>2, OthersQuiet
<1>8. Plane'
  BY <1>0, SubBasics
     DEF Request, Others, Requested, Asked, Plane, Starting, Threading, Placed,
         InHand, TimerPlaces, LoopPlaces, H, L, Threads, SubInv, settingVars,
         coreVars, loopVars
<1>9. Honest'
  <2>0. /\ Honest /\ Handling /\ Plane /\ CoreTyped /\ Threading /\ Fetches
        /\ "loop" \in Threads /\ "handler" \in Threads
    BY DEF SubInv, Threads
  <2>1. H.at = "idle" /\ Others({"handler"})
    BY <1>0 DEF Request, Requested, Asked, H
  <2>2. PlaneKept
    BY <2>0, <2>1 DEF Request, PlaneKept, settingVars, coreVars, Others, L
  <2>3. Claims => core.of = active /\ InForce
    BY <2>0, <2>1, Firm DEF Restarting
  <2> QED  BY <2>2, <2>3, FirmHonest
<1> QED  BY <1>1, <1>2, <1>3, <1>4, <1>5, <1>6, <1>7, <1>8, <1>9 DEF SubInv

\* TimerFires keeps the invariant: a timed refresh begins.
LEMMA TimerFiresKeeps ==
  ASSUME SubInv, TimerFires
  PROVE  SubInv'
<1>0. TimerTo
  BY TimerFiresMoves
<1>1. ThreadsTyped'
  BY <1>0 DEF TimerTo
<1>2. SettingsTyped'
  BY <1>0, SubBasics
     DEF TimerFires, TimerTo, SettingsTyped, Exists, TagsAuto, SubInv, settingVars,
         coreVars, loopVars
<1>3. StoreTyped'
  BY <1>0, SubBasics
     DEF TimerFires, TimerTo, StoreTyped, SubInv, settingVars, coreVars, loopVars
<1>4. CoreTyped'
  BY <1>0, SubBasics
     DEF TimerFires, TimerTo, CoreTyped, SubInv, settingVars, coreVars, loopVars
<1>5. Threading'
  BY <1>0, SubBasics
     DEF TimerFires, TimerTo, Threading, Placed, InHand, Fetching, TimerPlaces,
         LoopPlaces, SubInv, settingVars, coreVars, loopVars
<1>6. Handling'
  <2>0. ThreadsTyped /\ Handling /\ UNCHANGED settingVars /\ "handler" \in Threads
    BY DEF SubInv, TimerFires, Threads
  <2>1. th'["handler"] = H /\ UNCHANGED fetching
    BY <1>0, <2>0 DEF TimerFires, TimerTo, H
  <2> QED  BY <2>0, <2>1, OtherHandling
<1>7. Fetches'
  BY <1>0, SubBasics
     DEF TimerFires, TimerTo, Fetches, Fetching, Threading, Placed, InHand,
         StoreTyped, SubInv, settingVars, coreVars, loopVars
<1>8. Plane'
  BY <1>0, SubBasics
     DEF TimerFires, TimerTo, Plane, Starting, Threading, Placed, InHand,
         TimerPlaces, LoopPlaces, H, L, Threads, SubInv, settingVars, coreVars,
         loopVars
<1>9. Honest'
  <2>0. /\ Honest /\ Handling /\ Plane /\ CoreTyped /\ Threading /\ Fetches
        /\ "loop" \in Threads /\ "handler" \in Threads
    BY DEF SubInv, Threads
  <2>1. th'["handler"] = H /\ L' = L
    BY <1>0, <2>0 DEF TimerTo, Others, H, L
  <2> QED  BY <2>0, <2>1, OtherHonest DEF TimerFires, PlaneKept, settingVars, coreVars
<1> QED  BY <1>1, <1>2, <1>3, <1>4, <1>5, <1>6, <1>7, <1>8, <1>9 DEF SubInv

\* Rebuild keeps the invariant: the core dies and the loop looks again.
LEMMA RebuildKeeps ==
  ASSUME SubInv, Rebuild
  PROVE  SubInv'
<1>0. Went("loop", "look")
  BY RebuildMoves
<1>1. ThreadsTyped'
  BY <1>0 DEF Went
<1>2. SettingsTyped'
  BY <1>0, SubBasics
     DEF Rebuild, StopCore, SettingsTyped, Exists, TagsAuto, SubInv, settingVars,
         loopVars
<1>3. StoreTyped'
  BY <1>0, SubBasics
     DEF Rebuild, StopCore, StoreTyped, SubInv, settingVars, loopVars
<1>4. CoreTyped'
  BY <1>0, SubBasics DEF Rebuild, StopCore, CoreTyped, SubInv, settingVars, loopVars
<1>5. Threading'
  BY <1>0, SubBasics
     DEF Rebuild, StopCore, Others, Like, Went, Threading, Placed, InHand, Fetching,
         TimerPlaces, LoopPlaces, SubInv, settingVars, loopVars
<1>6. Handling'
  <2>0. ThreadsTyped /\ Handling /\ UNCHANGED settingVars /\ "handler" \in Threads
    BY DEF SubInv, Rebuild, Threads
  <2>1. th'["handler"] = H /\ UNCHANGED fetching
    BY <1>0, <2>0 DEF Rebuild, Went, Others, H
  <2> QED  BY <2>0, <2>1, OtherHandling
<1>7. Fetches'
  BY <1>0, SubBasics
     DEF Rebuild, StopCore, Others, Like, Went, Fetches, Fetching, Threading,
         Placed, InHand, StoreTyped, SubInv, settingVars, loopVars
<1>8. Plane'
  BY <1>0, SubBasics
     DEF Rebuild, StopCore, Others, Like, Went, Plane, Starting, Threading, Placed,
         InHand, TimerPlaces, LoopPlaces, H, L, Threads, SubInv, settingVars,
         loopVars
<1>9. Honest'
  BY <1>0, NotUpHonest DEF L, Went
<1> QED  BY <1>1, <1>2, <1>3, <1>4, <1>5, <1>6, <1>7, <1>8, <1>9 DEF SubInv

\* The self-rescue keeps the invariant: the core is told of another node of its list.
LEMMA RecoverKeeps ==
  ASSUME SubInv, LooksForAnother \/ RecoverRoute
  PROVE  SubInv'
<1> DEFINE M == th'["loop"]
<1>1. /\ ThreadsTyped' /\ Others({"loop"}) /\ L.at = "up" /\ "loop" \in Threads
      /\ M = [L EXCEPT !.arg = M.arg] /\ L \in SubLocals /\ M \in SubLocals
  BY RecoverMoves
<1>2. /\ M.at = L.at /\ M.op = L.op /\ M.id = L.id /\ M.url = L.url /\ M.was = L.was /\ M.on = L.on
      /\ M.inner = L.inner /\ M.coherent = L.coherent
  BY <1>1 DEF SubLocals
<1>3. /\ UNCHANGED <<settingVars, loopVars, cache, offer, prepared, fetching, failed, running>>
      /\ "handler" \in Threads /\ th'["handler"] = H
  BY <1>1 DEF LooksForAnother, RecoverRoute, coreVars, Others, Threads, H
<1>4. /\ SettingsTyped /\ StoreTyped /\ CoreTyped /\ Threading /\ Handling /\ Fetches /\ Plane /\ Honest
  BY DEF SubInv
<1>5. core # NoCore /\ core.list \in Lists /\ running # None
  BY <1>1, <1>4, UpIsOf DEF Plane
<1>6. \/ UNCHANGED <<core, remembered>>
      \/ \E best \in DOMAIN Nodes[core.list] :
           core' = [core EXCEPT !.choice = best, !.borrowed = TRUE] /\ remembered' = best
  BY DEF LooksForAnother, RecoverRoute, coreVars
<1>7. /\ core' # NoCore /\ core'.list = core.list /\ core'.of = core.of
      /\ core' = core \/ core'.borrowed
      /\ core' \in [list : Lists, of : Subs, choice : TagsAuto, borrowed : BOOLEAN]
      /\ remembered' \in TagsAuto /\ core'.choice \in {"auto"} \cup DOMAIN Nodes[core.list]
  <2>1. core \in [list : Lists, of : Subs, choice : TagsAuto, borrowed : BOOLEAN]
        /\ core.choice \in {"auto"} \cup DOMAIN Nodes[core.list] /\ remembered \in TagsAuto
    BY <1>4, <1>5 DEF CoreTyped
  <2>2. CASE UNCHANGED <<core, remembered>>
    BY <1>5, <2>1, <2>2
  <2>3. ASSUME NEW best \in DOMAIN Nodes[core.list], remembered' = best,
               core' = [core EXCEPT !.choice = best, !.borrowed = TRUE]
        PROVE  /\ core' # NoCore /\ core'.list = core.list /\ core'.of = core.of /\ core'.borrowed
               /\ core' \in [list : Lists, of : Subs, choice : TagsAuto, borrowed : BOOLEAN]
               /\ remembered' \in TagsAuto /\ core'.choice \in {"auto"} \cup DOMAIN Nodes[core.list]
    <3>1. best \in TagsAuto
      BY <1>5, <2>3 DEF TagsAuto, Tags
    <3>2. core' \in [list : Lists, of : Subs, choice : TagsAuto, borrowed : BOOLEAN]
      BY <2>1, <2>3, <3>1
    <3>3. core'.list = core.list /\ core'.of = core.of /\ core'.choice = best /\ core'.borrowed
      BY <2>1, <2>3
    <3> QED  BY <1>5, <2>3, <3>1, <3>2, <3>3 DEF NoCore
  <2> QED  BY <1>6, <2>2, <2>3
<1>8. SettingsTyped' /\ StoreTyped' /\ CoreTyped'
  BY <1>3, <1>4, <1>5, <1>7 DEF SettingsTyped, StoreTyped, CoreTyped, Exists, settingVars, loopVars
<1>9. Threading'
  <2>1. Placed("loop", th["loop"])' /\ InHand(th["loop"])'
    BY <1>1, <1>2, <1>3, <1>4 DEF Threading, Placed, InHand, Fetching, L, settingVars
  <2> QED  BY <1>1, <1>3, <1>4, <2>1, OthersFit DEF settingVars, SubInv
<1>10. Handling'
  BY <1>3, <1>4, OtherHandling DEF SubInv, settingVars
<1>11. Quiet("loop") /\ Still("loop")
  BY <1>1, <1>2, <1>4 DEF Quiet, Still, Fetching, Swapping, Underway, L, Threading, InHand
<1>12. \A u \in Threads : Still(u)
  BY <1>1, <1>11 DEF Others, Still
<1>13. Fetches'
  BY <1>1, <1>3, <1>4, <1>11, OthersQuiet
<1>14. Plane'
  BY <1>3, <1>4, <1>5, <1>7, <1>12, StillPlane
<1>15. Honest'
  <2>1. UNCHANGED <<active, selected, failed, cache>> /\ H' = H /\ (L.at)' = L.at
    BY <1>2, <1>3 DEF settingVars, H, L
  <2>2. CASE core' = core
    BY <1>4, <2>1, <2>2 DEF Honest, Restarting, InForce, Dropped
  <2>3. CASE core'.borrowed
    BY <1>4, <1>7, <2>1, <2>3 DEF Honest, Restarting, InForce, Dropped
  <2> QED  BY <1>7, <2>2, <2>3
<1> QED  BY <1>1, <1>8, <1>9, <1>10, <1>13, <1>14, <1>15 DEF SubInv

\* Panic keeps the invariant: a panic ends the request, or the service.
LEMMA PanicKeeps ==
  ASSUME SubInv, NEW t \in Threads, Panic(t)
  PROVE  SubInv'
<1>1. CASE t # "handler"
  BY <1>1, ReviveKeeps DEF Panic
<1>2. CASE t = "handler"
  <2>1. /\ H.at = "nil" /\ Finished("handler") /\ failed' = TRUE
        /\ UNCHANGED <<settingVars, coreVars, loopVars, cache, offer, prepared, fetching>>
    BY <1>2, Moves DEF Panic, H, SubInv
  <2>2. /\ SettingsTyped /\ StoreTyped /\ CoreTyped /\ ThreadsTyped /\ Threading /\ Fetches /\ Plane
        /\ "handler" \in Threads
    BY DEF SubInv, Threads
  <2>3. SettingsTyped' /\ StoreTyped' /\ CoreTyped'
    BY <2>1, <2>2
       DEF SettingsTyped, StoreTyped, CoreTyped, settingVars, coreVars, loopVars,
           Exists
  <2>4. ThreadsTyped'
    BY <2>1 DEF Finished
  <2>5. Threading'
    BY <2>1, <2>2, IdleFits, OthersFit DEF Finished, settingVars
  <2>6. Handling'
    BY <2>1, IdleHandling DEF Finished
  <2>7. Quiet("handler") /\ Still("handler")
    BY <2>1, IdleIs DEF Finished, Quiet, Still, Fetching, Fresh, Swapping, H
  <2>8. Fetches' /\ Plane'
    BY <2>1, <2>2, <2>7, OthersQuiet, OthersStill DEF Finished, coreVars
  <2>9. Honest'
    BY <2>1, NotUpHonest
  <2> QED  BY <2>3, <2>4, <2>5, <2>6, <2>8, <2>9 DEF SubInv
<1> QED  BY <1>1, <1>2

\* What changes neither the settings nor the goroutines changes nothing that matters.
LEMMA SameIsRight ==
  ASSUME SubInv, StoreTyped',
         UNCHANGED <<settingVars, coreVars, loopVars, cache, prepared, fetching, th, failed>>
  PROVE  SubInv'
<1>1. SettingsTyped' /\ CoreTyped' /\ ThreadsTyped'
  BY DEF SubInv, SettingsTyped, CoreTyped, ThreadsTyped, Exists, settingVars,
         coreVars
<1>2. Threading' /\ Handling'
  BY DEF SubInv, Threading, Placed, InHand, Fetching, Handling, Exists, H,
         settingVars
<1>3. Fetches' /\ Plane'
  BY DEF SubInv, Fetches, Fetching, Plane, Starting, H, L, settingVars, coreVars,
         loopVars
<1>4. Honest'
  BY DEF SubInv, Honest, Restarting, InForce, Dropped, H, L, settingVars, coreVars
<1> QED  BY <1>1, <1>2, <1>3, <1>4 DEF SubInv

\* PanelChanges keeps the invariant: the panel answers otherwise.
LEMMA PanelChangesKeeps ==
  ASSUME SubInv, PanelChanges
  PROVE  SubInv'
<1>1. /\ UNCHANGED <<settingVars, coreVars, loopVars, cache, prepared, fetching, th, failed>>
      /\ offer' \in [Urls -> Offers]
  BY DEF PanelChanges, SubInv, StoreTyped
<1>2. StoreTyped'
  BY <1>1 DEF SubInv, StoreTyped, loopVars
<1> QED  BY <1>1, <1>2, SameIsRight

\* A step of the rest of the system keeps the invariant.
LEMMA SubStutters ==
  ASSUME SubInv, UNCHANGED subVars
  PROVE  SubInv'
<1>1. UNCHANGED <<settingVars, coreVars, loopVars, cache, prepared, fetching, th, failed, offer>>
  BY DEF subVars
<1>2. StoreTyped'
  BY <1>1 DEF SubInv, StoreTyped, loopVars
<1> QED  BY <1>1, <1>2, SameIsRight

\* Every step keeps the invariant.
LEMMA SubNextKeeps ==
  ASSUME SubInv, [SubNext]_subVars
  PROVE  SubInv'
<1>1. ASSUME NEW t \in Threads, Work(t)
      PROVE  SubInv'
  BY <1>1, RefreshKeeps, RefreshedKeeps, AfterRefreshKeeps, PrepareKeeps,
     RereadKeeps, PublishKeeps, PrepareFailsKeeps, SwapCoreKeeps, SwappedKeeps,
     PanicKeeps DEF Work
<1>2. CASE Handle
  BY <1>2, SaveFetchedKeeps, StoreKeeps, SaveEditKeeps, SaveRestKeeps, DropKeeps,
     RollbackKeeps, SwitchNodeKeeps, ConnectKeeps, DisconnectKeeps DEF Handle
<1>3. CASE Loop
  BY <1>3, LookKeeps, StartBeginsKeeps, StartCoreKeeps, StartDoneKeeps,
     RecoverKeeps, LoopExitsKeeps DEF Loop
<1>4. CASE Request \/ TimerFires \/ PanelChanges \/ LooksForAnother \/ Rebuild
  BY <1>4, RequestKeeps, TimerFiresKeeps, PanelChangesKeeps, RecoverKeeps, RebuildKeeps
<1>5. CASE Dies
  BY <1>5, ReviveKeeps DEF Dies
<1>6. CASE UNCHANGED subVars
  BY <1>6, SubStutters
<1> QED  BY <1>1, <1>2, <1>3, <1>4, <1>5, <1>6 DEF SubNext

\* The inductive invariant holds for every set of subscriptions, however many requests,
\* changes at the panel, stale caches and setbacks there are.
THEOREM SubAlways == SubSpec => []SubInv
<1>1. SubInit => SubInv
  BY SubInitRight
<1>2. SubInv /\ [SubNext]_subVars => SubInv'
  BY SubNextKeeps
<1> QED  BY <1>1, <1>2, PTL DEF SubSpec

\* The variables keep their types.
THEOREM SubTypeCorrect == SubSpec => []SubTypeOK
<1>1. SubInv => SubTypeOK
  BY DEF SubInv, SubTypeOK, SettingsTyped, StoreTyped, CoreTyped, ThreadsTyped,
         SubLocals, TagsAuto
<1> QED  BY <1>1, SubAlways, PTL

\* What the service takes for the core's list is the core's list, and once a request is
\* over the core runs the active subscription (d.running, d.settings.ActiveProfile).
THEOREM RunningAlwaysHonest == SubSpec => []RunningIsHonest
<1>1. SubInv => RunningIsHonest
  <2>1. ASSUME SubInv, Up, th["handler"].at = "idle", ~failed
        PROVE  core.of = active
    BY <2>1 DEF SubInv, Honest, Up, Restarting, H, L
  <2>2. ASSUME SubInv
        PROVE  (running # None => core # NoCore) /\ (Up => running = core.list)
    BY <2>2 DEF SubInv, Plane, Up, L
  <2> QED  BY <2>1, <2>2 DEF RunningIsHonest
<1> QED  BY <1>1, SubAlways, PTL

\* Once a request is over the core uses the node the settings name, if its list has it
\* (SelectedOutbound, PresetCache).
THEOREM SelectedAlwaysInForce == SubSpec => []SelectedIsInForce
<1>1. SubInv => SelectedIsInForce
  BY DEF SubInv, Honest, Up, Restarting, InForce, SelectedIsInForce, H, L
<1> QED  BY <1>1, SubAlways, PTL

\* Nobody waits for a refresh that is over (d.refreshing in refreshProfile).
THEOREM WaitersAlwaysAnswered == SubSpec => []WaitersAreAnswered
<1>1. SubInv => WaitersAreAnswered
  <2>1. ASSUME SubInv, NEW t \in Threads, th[t].at = "waiting"
        PROVE  fetching[th[t].id] = th[t].on /\ th[th[t].on].at = "fetch" /\ th[th[t].on].id = th[t].id
    <3>1. fetching[th[t].id] = th[t].on /\ th[t].on # None /\ th[t].id \in Subs
      BY <2>1 DEF SubInv, Fetches, Threading, InHand
    <3>2. th[t].on \in Threads
      BY <2>1, <3>1 DEF SubInv, ThreadsTyped, SubLocals
    <3> QED  BY <2>1, <3>1, <3>2 DEF SubInv, Fetches, Fetching
  <2> QED  BY <2>1 DEF WaitersAreAnswered
<1> QED  BY <1>1, SubAlways, PTL
=============================================================================

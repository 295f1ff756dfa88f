----------------------------- MODULE ExitLookup -----------------------------
(***************************************************************************)
(* The line "where do I come out": the exit address that the service looks *)
(* up through the node in use (internal/daemon/daemon.go, startfail.go).   *)
(* Connecting, choosing a node, the settings and every health check start  *)
(* lookups of their own, which end in any order; the automatic group moves *)
(* without a word.                                                         *)
(*                                                                         *)
(* An address is named by the node it was found through.  d.exitGen is     *)
(* kept as what it is compared for: whether a lookup is still the last one *)
(* begun.  The latency, measured anew by every check and shown as it is,   *)
(* is left out, and so is the mode "direct", where health looks nothing    *)
(* up.                                                                     *)
(***************************************************************************)
EXTENDS Naturals

CONSTANTS
  ExitNodes,  \* the nodes of the subscription
  MaxLookups, \* how many lookups are under way at once
  ExitBounds  \* how many requests, surprises, stops and failures

Unknown == "unknown"
AutoGroup == "auto"

ASSUME ExitConstants ==
  /\ ExitNodes # {} /\ ExitNodes \cap {Unknown, AutoGroup} = {}
  /\ MaxLookups \in Nat

Slots == 1 .. MaxLookups
\* node: while it is in hand, the name read, later the node asked through; last: it
\* has the latest generation; check: health began it
NoLookup == [at |-> "idle", node |-> Unknown, last |-> FALSE, check |-> FALSE]
Quiet == [at |-> "idle", op |-> Unknown, tag |-> Unknown, was |-> Unknown]

VARIABLES
  running,  \* the core runs
  proxy,    \* the choice of its group "proxy": a node, or the group "auto"
  auto,     \* the choice of its group "auto"
  chosen,   \* Settings.Selected
  hidden,   \* Settings.NoExitLookup
  exit,     \* d.exitIP and what belongs to it
  exitNode, \* d.exitNode
  aged,     \* d.exitAt is more than ten minutes ago
  lookups,  \* the goroutines that look the exit up
  watch,    \* the machine's loop: a health check, or stop()
  asked,    \* the request that is being handled
  since,    \* history: the nodes used since the exit was last cleared
  reverted, \* history: settings that hide the exit came back since, by a rollback
  rest      \* what is left of the bounds

shownVars == <<exit, exitNode, aged>>
groupVars == <<running, proxy, auto, since>>
exitVars == <<groupVars, chosen, hidden, reverted, shownVars, lookups, watch, asked, rest>>

currentNode == IF ~running THEN Unknown ELSE IF proxy = AutoGroup THEN auto ELSE proxy

Takes(what) == rest[what] > 0 /\ rest' = [rest EXCEPT ![what] = @ - 1]
Free == {l \in Slots : lookups[l].at = "idle"}
Outdated(ls) == [l \in Slots |-> [ls[l] EXCEPT !.last = FALSE]]

\* A goroutine that measures first, or one that has begun already.
Spawn(r) ==
  /\ Free # {}
  /\ LET l == CHOOSE i \in Free : \A j \in Free : i <= j
         ls == IF r.last THEN Outdated(lookups) ELSE lookups IN
     lookups' = [ls EXCEPT ![l] = r]

Measuring == [NoLookup EXCEPT !.at = "measure"]
Begun(check) == [NoLookup EXCEPT !.at = "begun", !.last = TRUE, !.check = check]

clearExit ==
  /\ exit' = Unknown /\ exitNode' = Unknown /\ aged' = TRUE
  /\ lookups' = Outdated(lookups) /\ since' = {currentNode} /\ reverted' = FALSE

Uses(node) == since' = since \cup {node}

(***************************************************************************)
(* A lookup                                                                *)
(***************************************************************************)
\* URLTest, then currentNode, then beginExit
Measure(l) ==
  /\ lookups[l].at = "measure"
  /\ lookups' = [lookups EXCEPT ![l] = [@ EXCEPT !.at = "named", !.node = currentNode]]
  /\ UNCHANGED <<groupVars, chosen, hidden, reverted, shownVars, watch, asked, rest>>

beginExit(l) ==
  /\ lookups[l].at = "named"
  /\ exitNode' = lookups[l].node
  /\ lookups' = [Outdated(lookups) EXCEPT ![l] = Begun(FALSE)]
  /\ UNCHANGED <<groupVars, chosen, hidden, reverted, exit, aged, watch, asked, rest>>

\* mutant: the setting is not looked at
FaultyAskExit(l) ==
  /\ lookups[l].at = "begun"
  /\ lookups' = [lookups EXCEPT ![l] = IF ~running THEN NoLookup ELSE [@ EXCEPT !.at = "under way", !.node = currentNode]]
  /\ UNCHANGED <<groupVars, chosen, hidden, reverted, shownVars, watch, asked, rest>>

AskExit(l) ==
  /\ lookups[l].at = "begun"
  /\ lookups' = [lookups EXCEPT ![l] =
       IF hidden \/ ~running THEN NoLookup ELSE [@ EXCEPT !.at = "under way", !.node = currentNode]]
  /\ UNCHANGED <<groupVars, chosen, hidden, reverted, shownVars, watch, asked, rest>>

\* Two services are asked; when neither answers nothing is written down.
refreshExit(l) ==
  /\ lookups[l].at = "under way"
  /\ lookups' = [lookups EXCEPT ![l] = NoLookup]
  /\ \/ /\ IF lookups[l].last THEN exit' = lookups[l].node /\ aged' = FALSE ELSE UNCHANGED <<exit, aged>>
        /\ UNCHANGED rest
     \/ Takes("failures") /\ UNCHANGED <<exit, aged>>
  /\ UNCHANGED <<groupVars, chosen, hidden, reverted, exitNode, watch, asked>>

(***************************************************************************)
(* The loop                                                                *)
(***************************************************************************)
\* start(): a goroutine measures at once.
Started ==
  /\ ~running /\ watch.at = "idle" /\ Spawn(Measuring)
  /\ running' = TRUE /\ proxy' = chosen /\ auto' \in ExitNodes
  /\ Uses(IF chosen = AutoGroup THEN auto' ELSE chosen)
  /\ UNCHANGED <<chosen, hidden, reverted, shownVars, watch, rest>>

\* A checked restart starts the core itself; the loop is not there meanwhile.
Start == asked.at # "restart" /\ Started /\ UNCHANGED asked

\* stop(): what is shown goes first, then the core.
Stop ==
  \/ /\ running /\ watch.at = "idle" /\ Takes("stops")
     /\ clearExit /\ watch' = [Quiet EXCEPT !.at = "stopping"]
     /\ UNCHANGED <<running, proxy, auto, chosen, hidden, asked>>
  \/ /\ watch.at = "stopping"
     /\ running' = FALSE /\ watch' = Quiet
     /\ UNCHANGED <<proxy, auto, since, chosen, hidden, reverted, shownVars, lookups, asked, rest>>

\* health: the node's name, then whether its exit is to be looked up.  A lookup takes
\* at most twenty seconds, the next check comes after thirty at the earliest, unless
\* sick connections call for it.
health ==
  /\ running /\ watch.at = "idle"
  /\ (\E l \in Slots : lookups[l].check) => rest["surprises"] > 0
  /\ \/ /\ watch' = [Quiet EXCEPT !.at = "checked", !.tag = currentNode]
        /\ IF \E l \in Slots : lookups[l].check THEN Takes("surprises") ELSE UNCHANGED rest
     \/ Takes("failures") /\ watch' = [Quiet EXCEPT !.at = "recover"]
  /\ UNCHANGED <<groupVars, chosen, hidden, reverted, shownVars, lookups, asked>>

Need(node) == exit = Unknown \/ exitNode # node \/ aged

LooksUp ==
  /\ watch.at = "checked" /\ watch' = Quiet
  /\ IF Need(watch.tag) THEN Spawn(Begun(TRUE)) /\ exitNode' = watch.tag ELSE UNCHANGED <<lookups, exitNode>>
  /\ UNCHANGED <<groupVars, chosen, hidden, reverted, exit, aged, asked, rest>>

\* recoverRoute: for a node chosen by hand another one that answers is borrowed.
recoverRoute ==
  \/ /\ watch.at = "recover"
     /\ IF chosen = AutoGroup \/ ~running THEN watch' = Quiet /\ UNCHANGED groupVars
        ELSE \E best \in ExitNodes \ {chosen} :
               /\ proxy' = best /\ Uses(best) /\ auto' \in ExitNodes
               /\ watch' = [Quiet EXCEPT !.at = "borrowed", !.tag = best] /\ UNCHANGED running
     /\ UNCHANGED <<chosen, hidden, reverted, shownVars, lookups, asked, rest>>
  \/ /\ watch.at = "borrowed" /\ watch' = Quiet
     /\ clearExit
     /\ UNCHANGED <<running, proxy, auto, chosen, hidden, asked, rest>>

(***************************************************************************)
(* Requests: another node, other settings                                  *)
(***************************************************************************)
\* MSelectNode and MSetSettings save first.  Other settings may call for a rebuild of the
\* connection (needsPrivacyRebuild): one that tightens takes them back when it fails.
Ask ==
  /\ asked.at = "idle" /\ Takes("requests")
  /\ \/ \E tag \in ExitNodes \cup {AutoGroup} :
          /\ chosen' = tag /\ UNCHANGED hidden
          /\ asked' = IF running THEN [Quiet EXCEPT !.at = "select", !.op = "node", !.tag = tag] ELSE Quiet
     \/ \E tag \in ExitNodes \cup {AutoGroup}, op \in {"settings", "tighten", "relax"} :
          /\ hidden' = ~hidden /\ chosen' = tag
          /\ asked' = [at |-> "hide", op |-> op, tag |-> tag, was |-> chosen]
  /\ UNCHANGED <<groupVars, reverted, shownVars, lookups, watch>>

\* No more lookups: what is known is forgotten.  Lookups again: one at once.
Hide ==
  /\ asked.at = "hide"
  /\ asked' = IF ~running \/ (asked.op = "settings" /\ asked.tag = asked.was) THEN Quiet
              ELSE [asked EXCEPT !.at = IF asked.op = "settings" THEN "select" ELSE "rebuild"]
  /\ IF hidden THEN clearExit
     ELSE /\ IF running THEN Spawn(Begun(FALSE)) /\ exitNode' = currentNode ELSE UNCHANGED <<lookups, exitNode>>
          /\ UNCHANGED <<exit, aged, since, reverted>>
  /\ UNCHANGED <<running, proxy, auto, chosen, hidden, watch, rest>>

Failed == IF asked.op = "tighten" THEN [asked EXCEPT !.at = "take back"] ELSE Quiet

\* RestartChecked: the new configuration cannot be prepared, the user has disconnected
\* by then, or the loop ends and the core is stopped.
Rebuild ==
  /\ asked.at = "rebuild"
  /\ \/ /\ Takes("failures") /\ asked' = Failed
        /\ UNCHANGED <<watch, since, reverted, shownVars, lookups>>
     \/ /\ ~running \/ watch.at = "stopping"
        /\ asked' = Quiet /\ UNCHANGED <<watch, since, reverted, shownVars, lookups, rest>>
     \/ /\ watch.at = "idle" /\ watch' = [Quiet EXCEPT !.at = "stopping"]
        /\ clearExit /\ asked' = [asked EXCEPT !.at = "restart"] /\ UNCHANGED rest
  /\ UNCHANGED <<running, proxy, auto, chosen, hidden>>

Restart ==
  /\ asked.at = "restart"
  /\ \/ Started /\ asked' = Quiet
     \/ /\ ~running /\ watch.at = "idle" /\ Takes("failures")
        /\ clearExit /\ asked' = Failed
        /\ UNCHANGED <<running, proxy, auto, chosen, hidden, watch>>

\* setSettings(prev), which may fail as well: nothing is cleared and nobody is told.
TakeBack ==
  /\ asked.at = "take back" /\ asked' = Quiet
  /\ \/ hidden' = ~hidden /\ chosen' = asked.was /\ reverted' = ~hidden /\ UNCHANGED rest
     \/ Takes("failures") /\ UNCHANGED <<hidden, chosen, reverted>>
  /\ UNCHANGED <<groupVars, shownVars, lookups, watch>>

Select ==
  /\ asked.at = "select"
  /\ IF running
     THEN /\ proxy' = asked.tag /\ asked' = [asked EXCEPT !.at = "clear"]
          /\ Uses(IF asked.tag = AutoGroup THEN auto ELSE asked.tag)
     ELSE asked' = Quiet /\ UNCHANGED <<proxy, since>>
  /\ UNCHANGED <<running, auto, chosen, hidden, reverted, shownVars, lookups, watch, rest>>

\* Only MSelectNode measures the new node itself.
ForgetOld ==
  /\ asked.at = "clear"
  /\ clearExit
  /\ asked' = IF asked.op = "node" THEN [asked EXCEPT !.at = "measure"] ELSE Quiet
  /\ UNCHANGED <<running, proxy, auto, chosen, hidden, watch, rest>>

MeasureChosen ==
  /\ asked.at = "measure" /\ asked' = Quiet /\ Spawn(Measuring)
  /\ UNCHANGED <<groupVars, chosen, hidden, reverted, shownVars, watch, rest>>

\* groupTest, or the group by itself, finds a faster node; ten minutes pass.
Moves ==
  /\ running /\ Takes("surprises") /\ auto' \in ExitNodes \ {auto}
  /\ IF proxy = AutoGroup THEN Uses(auto') ELSE UNCHANGED since
  /\ UNCHANGED <<running, proxy, chosen, hidden, reverted, shownVars, lookups, watch, asked>>

Ages == ~aged /\ aged' = TRUE /\ UNCHANGED <<groupVars, chosen, hidden, reverted, exit, exitNode, lookups, watch, asked, rest>>

ExitInit ==
  /\ running = FALSE /\ chosen \in {AutoGroup, CHOOSE n \in ExitNodes : TRUE} /\ proxy = chosen
  /\ auto = CHOOSE n \in ExitNodes : TRUE
  /\ hidden \in BOOLEAN /\ reverted = FALSE /\ exit = Unknown /\ exitNode = Unknown /\ aged = TRUE
  /\ lookups = [l \in Slots |-> NoLookup] /\ watch = Quiet /\ asked = Quiet
  /\ since = {} /\ rest \in ExitBounds

LookupSteps(l) == Measure(l) \/ beginExit(l) \/ AskExit(l) \/ refreshExit(l)
WatchSteps == Start \/ Stop \/ health \/ LooksUp \/ recoverRoute
RequestSteps == Hide \/ Rebuild \/ Restart \/ TakeBack \/ Select \/ ForgetOld \/ MeasureChosen

ExitNext ==
  \/ \E l \in Slots : LookupSteps(l)
  \/ WatchSteps \/ RequestSteps \/ Ask \/ Moves \/ Ages

\* Goroutines are scheduled, the loop goes on with its checks, and time passes.
ExitFairness ==
  /\ \A l \in Slots : WF_exitVars(LookupSteps(l))
  /\ WF_exitVars(WatchSteps) /\ WF_exitVars(RequestSteps) /\ WF_exitVars(Ages)

ExitSpec == ExitInit /\ [][ExitNext]_exitVars /\ ExitFairness

(***************************************************************************)
(* Properties                                                              *)
(***************************************************************************)
Named == ExitNodes \cup {Unknown}

\* The variables keep their types, and at most one lookup is the last.
ExitTypeOK ==
  /\ running \in BOOLEAN /\ proxy \in ExitNodes \cup {AutoGroup} /\ auto \in ExitNodes
  /\ chosen \in ExitNodes \cup {AutoGroup} /\ hidden \in BOOLEAN /\ reverted \in BOOLEAN
  /\ exit \in Named /\ exitNode \in Named /\ aged \in BOOLEAN
  /\ lookups \in [Slots -> [at : {"idle", "measure", "named", "begun", "under way"}, node : Named, last : BOOLEAN, check : BOOLEAN]]
  /\ watch.at \in {"idle", "stopping", "checked", "recover", "borrowed"}
  /\ asked.at \in {"idle", "hide", "rebuild", "restart", "take back", "select", "clear", "measure"}
  /\ since \subseteq Named
  /\ \A l, m \in Slots : lookups[l].last /\ lookups[m].last => l = m

OldExitStaysGone == exit # Unknown => exit \in since
HiddenMeansHidden == hidden /\ asked.at # "hide" /\ ~reverted => exit = Unknown

\* A lookup that was under way when the exit was cleared, because of another node or
\* a disconnection, does not bring the old address back, however late it ends; and
\* once the user's wish not to be looked up is in force no address is shown, not even
\* the answer to a lookup that had left before.  Excused is a wish that a failed rebuild
\* has put back (reverted): nothing is cleared then, so that the lookup begun under the
\* rejected settings is answered and shown until the exit is cleared the next time.
ShownExitIsValid == OldExitStaysGone /\ HiddenMeansHidden

\* While the connection lasts the address of the node in use is found and stays,
\* though lookups fail and the automatic group moves.
ExitSettles == <>[](running /\ ~hidden) => <>[](exit = currentNode)

\* "Without the generation an old node's exit would be put on the new one, and the
\* health check, seeing that node, address and time are right, would not look again for
\* ten minutes" (beginExit): with nothing under way, what passes for the exit
\* of the node in use was found through it.
ExitIsOfItsNode ==
  /\ running /\ watch.at = "idle" /\ asked.at = "idle" /\ Free = Slots
  /\ exitNode = currentNode /\ ~Need(currentNode)
  => exit = currentNode
=============================================================================

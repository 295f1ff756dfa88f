--------------------------- MODULE GuardSyncProofs ---------------------------
(***************************************************************************)
(* Proofs about the leak guard (GuardSync), in three layers: Shape, the    *)
(* types and the places every goroutine may be at; Judged, that a removal  *)
(* of the filter was right when it was decided; and Settling, that the     *)
(* filter is what wish and settings call for or somebody is still to make  *)
(* the alignment.  Each layer rests on the ones before it and has a lemma  *)
(* per action; what an action does to its goroutine is said once, in XTo,  *)
(* and shown in XMoves.                                                    *)
(***************************************************************************)
EXTENDS GuardSync, TLAPS

\* The places of the boot sequence before it serves.
PreServe == {"reconcile", "install", "record", "clear", "cleared", "auto"}
\* The types, in groups.
FileTypes == /\ disk \in {"yes", "no", "unknown"} /\ file \in Choices \cup {"bad"}
             /\ settings \in Choices
FlagTypes == {trusted, wanted, bootWanted, closed, cancelled, asked, late,
              owed, guardOn, guardHold, early, undone} \subseteq BOOLEAN
FilterTypes == /\ plane \in {"down", "sealed", "plain"}
               /\ fw \in {"none", "global", "rule"}
               /\ guardApplied \in {"none", "global", "rule"}
LeftTypes == left \in [calls : 0 .. MaxCalls, faults : 0 .. MaxFaults]
PlaceTypes == loc \in [Goroutines -> Locals] /\ pc \in [Goroutines -> Labels]
\* What is to be noted was installed.
RecordTyped == \A g \in Goroutines : pc[g] = "record" => loc[g].act \in {"global", "rule"}

\* The places of a change of settings, and where every kind of call may be.
SavePlaces == {"hold", "prep", "ready", "readygone", "built", "swap",
               "halt", "launch", "tunup", "started", "undo", "rollback",
               "settle", "abandon"}
At(g, places, rets) == \/ pc[g] \in places
                       \/ pc[g] \in SyncLabels /\ loc[g].ret \in rets
HandlerAt(h) ==
    \/ loc[h].op = "none" /\ pc[h] = "idle"
    \/ loc[h].op = "connect" /\ At(h, {"connect"}, {"idle"})
    \/ loc[h].op = "disconnect" /\ At(h, {"disconnect", "halt", "unhold"}, {"idle"})
    \/ loc[h].op = "remove" /\ At(h, {"remove", "forget", "disconnect", "halt"}, {"idle"})
    \/ loc[h].op = "refresh" /\ At(h, {"prep", "ready", "readygone", "built", "swap", "halt"}, {"ready"})
    \/ loc[h].op = "save" /\ At(h, SavePlaces \cup {"save", "choose"}, {"idle", "ready"})
LoopAt ==
    /\ At("watch", {"idle"}, {"idle"})
    /\ At("run", {"off", "loop", "prep", "ready", "readygone", "built", "start",
                  "tunup", "up", "check", "checkgone"}, {"ready", "up"})
    /\ pc["boot"] \in PreServe \cup {"dead", "serve", "closing", "halt"}
Places == LoopAt /\ \A h \in Handlers : HandlerAt(h)

Shape == /\ FileTypes /\ FlagTypes /\ FilterTypes /\ LeftTypes /\ PlaceTypes
         /\ RecordTyped /\ Places

\* What a step leaves of the goroutine k
Same(k) == /\ pc'[k] = pc[k]
           /\ loc'[k].op = loc[k].op /\ loc'[k].ret = loc[k].ret
           /\ loc'[k].act = loc[k].act /\ loc'[k].prev = loc[k].prev
           /\ loc'[k].new = loc[k].new
Only(g) == \A k \in Goroutines : k # g => Same(k)
Fresh(g) == /\ loc'[g].op = "none" /\ loc'[g].ret = "none"
            /\ loc'[g].act = "none" /\ loc'[g].prev = Default
Keeps(g) == loc'[g].op = loc[g].op /\ loc'[g].prev = loc[g].prev

\* The ways a step leaves its own goroutine: at another place, in syncGuard, without a
\* call, or back where syncGuard was called.
Moved(g, l) == /\ pc'[g] = l /\ Keeps(g)
               /\ loc'[g].ret = loc[g].ret /\ loc'[g].act = loc[g].act
Synced(g, ret) == /\ pc'[g] = "sync" /\ Keeps(g)
                  /\ loc'[g].ret = ret /\ loc'[g].act = loc[g].act
Answered(g) == pc'[g] = "idle" /\ Fresh(g)
Returned(g) ==
    \/ g = "boot" /\ pc'[g] = "auto" /\ Fresh(g)
    \/ g # "boot" /\ loc[g].ret = "idle" /\ Answered(g)
    \/ /\ g # "boot" /\ loc[g].ret # "idle" /\ pc'[g] = loc[g].ret
       /\ Keeps(g) /\ loc'[g].ret = "none" /\ loc'[g].act = "none"

\* A goroutine goes to another place, the others stay where they are.
LEMMA GotoMoves ==
    ASSUME PlaceTypes, NEW g \in Goroutines, NEW l \in Labels, Goto(g, l)
    PROVE  /\ pc' \in [Goroutines -> Labels] /\ pc'[g] = l
           /\ \A k \in Goroutines : k # g => pc'[k] = pc[k]
BY DEF PlaceTypes, Goto

\* A goroutine without a call has nothing in its hands.
LEMMA FreshLocal == NoLocal \in Locals
BY DEF NoLocal, Locals, Choices, Default

\* A handler answers: nothing of its call is left.
LEMMA FinishMoves ==
    ASSUME PlaceTypes, NEW g \in Goroutines, Finish(g)
    PROVE  PlaceTypes' /\ Only(g) /\ Answered(g)
<1>1. /\ pc' \in [Goroutines -> Labels] /\ pc'[g] = "idle"
      /\ \A k \in Goroutines : k # g => pc'[k] = pc[k]
  BY DEF Finish, Goto, PlaceTypes, Labels
<1>2. /\ loc' \in [Goroutines -> Locals] /\ loc'[g] = NoLocal
      /\ \A k \in Goroutines : k # g => loc'[k] = loc[k]
  BY FreshLocal DEF Finish, PlaceTypes
<1> QED  BY <1>1, <1>2 DEF PlaceTypes, Only, Same, Fresh, NoLocal, Answered

\* A goroutine calls syncGuard and remembers where it continues.
LEMMA CallSyncMoves ==
    ASSUME PlaceTypes, NEW g \in Goroutines, NEW ret \in {"idle", "ready", "up"},
           CallSync(g, ret)
    PROVE  /\ PlaceTypes' /\ Only(g)
           /\ Synced(g, ret)
<1>1. /\ pc' \in [Goroutines -> Labels] /\ pc'[g] = "sync"
      /\ \A k \in Goroutines : k # g => pc'[k] = pc[k]
  BY DEF CallSync, Goto, PlaceTypes, Labels, SyncLabels
<1>2. /\ loc' \in [Goroutines -> Locals]
      /\ \A k \in Goroutines : k # g => loc'[k] = loc[k]
  BY DEF CallSync, PlaceTypes, Locals
<1>3. /\ loc'[g].ret = ret /\ loc'[g].act = loc[g].act
      /\ loc'[g].op = loc[g].op /\ loc'[g].prev = loc[g].prev
  BY DEF CallSync, PlaceTypes, Locals
<1> QED  BY <1>1, <1>2, <1>3 DEF PlaceTypes, Only, Same, Keeps, Synced

\* syncGuard returns to where its caller continues.
LEMMA ReturnMoves ==
    ASSUME PlaceTypes, NEW g \in Goroutines, Return(g),
           g = "boot" \/ loc[g].ret \in {"idle", "ready", "up"}
    PROVE  /\ PlaceTypes' /\ Only(g)
           /\ Returned(g)
<1>1. CASE g = "boot"
  <2>1. /\ pc' \in [Goroutines -> Labels] /\ pc'[g] = "auto"
        /\ \A k \in Goroutines : k # g => pc'[k] = pc[k]
    BY <1>1 DEF Return, Goto, PlaceTypes, Labels
  <2>2. /\ loc' \in [Goroutines -> Locals] /\ loc'[g] = NoLocal
        /\ \A k \in Goroutines : k # g => loc'[k] = loc[k]
    BY <1>1, FreshLocal DEF Return, PlaceTypes
  <2> QED  BY <1>1, <2>1, <2>2
              DEF PlaceTypes, Only, Same, Fresh, NoLocal, Returned, Answered
<1>2. CASE g # "boot" /\ loc[g].ret = "idle"
  BY <1>2, FinishMoves DEF Return, Returned
<1>3. CASE g # "boot" /\ loc[g].ret # "idle"
  <2>0. loc[g].ret \in {"idle", "ready", "up"}
    BY <1>3
  <2>1. /\ pc' \in [Goroutines -> Labels] /\ pc'[g] = loc[g].ret
        /\ \A k \in Goroutines : k # g => pc'[k] = pc[k]
    BY <1>3, <2>0 DEF Return, Goto, PlaceTypes, Labels
  <2>2. /\ loc' \in [Goroutines -> Locals]
        /\ \A k \in Goroutines : k # g => loc'[k] = loc[k]
    BY <1>3 DEF Return, PlaceTypes, Locals
  <2>3. /\ loc'[g].ret = "none" /\ loc'[g].act = "none"
        /\ loc'[g].op = loc[g].op /\ loc'[g].prev = loc[g].prev
    BY <1>3 DEF Return, PlaceTypes, Locals
  <2> QED  BY <1>3, <2>1, <2>2, <2>3 DEF PlaceTypes, Only, Same, Keeps, Returned
<1> QED  BY <1>1, <1>2, <1>3

\* Settings that are replaced make what was built from them stale, and change nothing else.
LEMMA StaleMoves ==
    ASSUME PlaceTypes, NEW f, f \in [Goroutines -> Locals]
    PROVE  LET r == [g \in Goroutines |-> IF f[g].cfg # "none"
                          THEN [f[g] EXCEPT !.cfg = "stale"] ELSE f[g]]
           IN /\ r \in [Goroutines -> Locals]
              /\ \A k \in Goroutines : /\ r[k].op = f[k].op /\ r[k].ret = f[k].ret
                                       /\ r[k].act = f[k].act /\ r[k].prev = f[k].prev
                                       /\ r[k].new = f[k].new
<1> DEFINE r == [g \in Goroutines |-> IF f[g].cfg # "none"
                          THEN [f[g] EXCEPT !.cfg = "stale"] ELSE f[g]]
<1>1. \A k \in Goroutines : [f[k] EXCEPT !.cfg = "stale"] \in Locals
  BY DEF Locals
<1>2. r \in [Goroutines -> Locals]
  BY <1>1
<1>3. ASSUME NEW k \in Goroutines
      PROVE  /\ r[k].op = f[k].op /\ r[k].ret = f[k].ret /\ r[k].act = f[k].act
             /\ r[k].prev = f[k].prev /\ r[k].new = f[k].new
  BY DEF Locals
<1> QED  BY <1>2, <1>3
SyncEnterTo(g) ==
    /\ PlaceTypes' /\ Only(g)
    /\ (Return(g) => Returned(g))
    /\ (Goto(g, "queue") /\ UNCHANGED loc => Moved(g, "queue"))

\* Where its goroutine goes with the entry to syncGuard.
LEMMA SyncEnterMoves ==
    ASSUME Shape, NEW g \in Goroutines, SyncEnter(g)
    PROVE  SyncEnterTo(g)
<1> USE GuardConstants DEF Shape
<1>0. g # "boot" /\ loc[g].ret \in {"idle", "ready", "up"}
  BY DEF SyncEnter, Places, LoopAt, HandlerAt, At, SavePlaces, SyncLabels, HoldLabels,
         PreServe, Goroutines
<1>1. ASSUME Return(g) PROVE PlaceTypes' /\ Only(g) /\ Returned(g)
  BY <1>0, <1>1, ReturnMoves
<1>2. ASSUME NEW l \in {"queue"}, Goto(g, l), UNCHANGED loc
      PROVE  PlaceTypes' /\ Only(g) /\ Moved(g, l)
  BY <1>0, <1>2
     DEF Goto, Only, Same, Moved, Keeps, PlaceTypes, Labels, SyncLabels, HoldLabels,
         CoreLabels
<1> QED  BY <1>0, <1>1, <1>2 DEF SyncEnter, SyncEnterTo

SyncDecideTo(g) ==
    /\ PlaceTypes' /\ Only(g)
    /\ (Return(g) => Returned(g))
    /\ (Goto(g, "install") /\ UNCHANGED loc => Moved(g, "install"))
    /\ (Goto(g, "clear") /\ UNCHANGED loc => Moved(g, "clear"))

\* Where its goroutine goes with the second shutdown check and the four cases.
LEMMA SyncDecideMoves ==
    ASSUME Shape, NEW g \in Goroutines, SyncDecide(g)
    PROVE  SyncDecideTo(g)
<1> USE GuardConstants DEF Shape
<1>0. g # "boot" /\ loc[g].ret \in {"idle", "ready", "up"}
  BY DEF SyncDecide, Places, LoopAt, HandlerAt, At, SavePlaces, SyncLabels, HoldLabels,
         PreServe, Goroutines
<1>1. ASSUME Return(g) PROVE PlaceTypes' /\ Only(g) /\ Returned(g)
  BY <1>0, <1>1, ReturnMoves
<1>2. ASSUME NEW l \in {"install", "clear"}, Goto(g, l), UNCHANGED loc
      PROVE  PlaceTypes' /\ Only(g) /\ Moved(g, l)
  BY <1>0, <1>2
     DEF Goto, Only, Same, Moved, Keeps, PlaceTypes, Labels, SyncLabels, HoldLabels,
         CoreLabels
<1> QED  BY <1>0, <1>1, <1>2 DEF SyncDecide, Fault, NoFault, SyncDecideTo

RecordTo(g) ==
    /\ PlaceTypes' /\ Only(g)
    /\ (Return(g) => Returned(g))

\* Where its goroutine goes with the note that the filter is installed.
LEMMA RecordMoves ==
    ASSUME Shape, NEW g \in Goroutines, Record(g)
    PROVE  RecordTo(g)
<1> USE GuardConstants DEF Shape
<1>0. g = "boot" \/ loc[g].ret \in {"idle", "ready", "up"}
  BY DEF Record, Places, LoopAt, HandlerAt, At, SavePlaces, SyncLabels, HoldLabels,
         PreServe, Goroutines
<1>1. ASSUME Return(g) PROVE PlaceTypes' /\ Only(g) /\ Returned(g)
  BY <1>0, <1>1, ReturnMoves
<1> QED  BY <1>0, <1>1 DEF Record, RecordTo

ClearTo(g) ==
    /\ PlaceTypes' /\ Only(g)
    /\ (Return(g) => Returned(g))
    /\ (Goto(g, "cleared") /\ UNCHANGED loc => Moved(g, "cleared"))

\* Where its goroutine goes with ClearGuard, taking the filter away.
LEMMA ClearMoves ==
    ASSUME Shape, NEW g \in Goroutines, Clear(g)
    PROVE  ClearTo(g)
<1> USE GuardConstants DEF Shape
<1>0. g = "boot" \/ loc[g].ret \in {"idle", "ready", "up"}
  BY DEF Clear, Places, LoopAt, HandlerAt, At, SavePlaces, SyncLabels, HoldLabels, PreServe,
         Goroutines
<1>1. ASSUME Return(g) PROVE PlaceTypes' /\ Only(g) /\ Returned(g)
  BY <1>0, <1>1, ReturnMoves
<1>2. ASSUME NEW l \in {"cleared"}, Goto(g, l), UNCHANGED loc
      PROVE  PlaceTypes' /\ Only(g) /\ Moved(g, l)
  BY <1>0, <1>2
     DEF Goto, Only, Same, Moved, Keeps, PlaceTypes, Labels, SyncLabels, HoldLabels,
         CoreLabels
<1> QED  BY <1>0, <1>1, <1>2 DEF Clear, Fault, NoFault, ClearTo

ClearedTo(g) ==
    /\ PlaceTypes' /\ Only(g)
    /\ (Return(g) => Returned(g))

\* Where its goroutine goes with the note that the filter is gone.
LEMMA ClearedMoves ==
    ASSUME Shape, NEW g \in Goroutines, Cleared(g)
    PROVE  ClearedTo(g)
<1> USE GuardConstants DEF Shape
<1>0. g = "boot" \/ loc[g].ret \in {"idle", "ready", "up"}
  BY DEF Cleared, Places, LoopAt, HandlerAt, At, SavePlaces, SyncLabels, HoldLabels,
         PreServe, Goroutines
<1>1. ASSUME Return(g) PROVE PlaceTypes' /\ Only(g) /\ Returned(g)
  BY <1>0, <1>1, ReturnMoves
<1> QED  BY <1>0, <1>1 DEF Cleared, ClearedTo

GuardReadyTo(g) ==
    /\ PlaceTypes' /\ Only(g)
    /\ (CallSync(g, "up") => Synced(g, "up"))
    /\ (Goto(g, "built") /\ UNCHANGED loc => Moved(g, "built"))
    /\ (Goto(g, "up") /\ UNCHANGED loc => Moved(g, "up"))
    /\ (Goto(g, "readygone") /\ UNCHANGED loc => Moved(g, "readygone"))
    /\ (Goto(g, "checkgone") /\ UNCHANGED loc => Moved(g, "checkgone"))

\* Where its goroutine goes with guardReady looking for the filter.
LEMMA GuardReadyMoves ==
    ASSUME Shape, NEW g \in Goroutines, GuardReady(g)
    PROVE  GuardReadyTo(g)
<1> USE GuardConstants DEF Shape
<1>0. g \in Goroutines
  OBVIOUS
<1>1. ASSUME CallSync(g, "up") PROVE PlaceTypes' /\ Only(g) /\ Synced(g, "up")
  BY <1>0, <1>1, CallSyncMoves
<1>2. ASSUME NEW l \in {"built", "up", "readygone", "checkgone"}, Goto(g, l), UNCHANGED loc
      PROVE  PlaceTypes' /\ Only(g) /\ Moved(g, l)
  BY <1>0, <1>2 DEF Goto, Only, Same, Moved, Keeps, PlaceTypes, Labels, CoreLabels
<1> QED  BY <1>0, <1>1, <1>2 DEF GuardReady, AfterReady, Fault, NoFault, GuardReadyTo

GuardGoneTo(g) ==
    /\ PlaceTypes' /\ Only(g)
    /\ (CallSync(g, "up") => Synced(g, "up"))
    /\ (Goto(g, "built") /\ UNCHANGED loc => Moved(g, "built"))

\* Where its goroutine goes with guardReady noting that there is none.
LEMMA GuardGoneMoves ==
    ASSUME Shape, NEW g \in Goroutines, GuardGone(g)
    PROVE  GuardGoneTo(g)
<1> USE GuardConstants DEF Shape
<1>0. g \in Goroutines
  OBVIOUS
<1>1. ASSUME CallSync(g, "up") PROVE PlaceTypes' /\ Only(g) /\ Synced(g, "up")
  BY <1>0, <1>1, CallSyncMoves
<1>2. ASSUME NEW l \in {"built"}, Goto(g, l), UNCHANGED loc
      PROVE  PlaceTypes' /\ Only(g) /\ Moved(g, l)
  BY <1>0, <1>2 DEF Goto, Only, Same, Moved, Keeps, PlaceTypes, Labels, CoreLabels
<1> QED  BY <1>0, <1>1, <1>2 DEF GuardGone, AfterReady, GuardGoneTo

TunUpTo(g) ==
    /\ PlaceTypes' /\ Only(g)
    /\ (Goto(g, "up") /\ UNCHANGED loc => Moved(g, "up"))
    /\ (Goto(g, "started") /\ UNCHANGED loc => Moved(g, "started"))

\* Where its goroutine goes with guardTunUp at the end of a start.
LEMMA TunUpMoves ==
    ASSUME Shape, NEW g \in Goroutines, TunUp(g)
    PROVE  TunUpTo(g)
<1> USE GuardConstants DEF Shape
<1>0. g \in Goroutines
  OBVIOUS
<1>1. ASSUME NEW l \in {"up", "started"}, Goto(g, l), UNCHANGED loc
      PROVE  PlaceTypes' /\ Only(g) /\ Moved(g, l)
  BY <1>0, <1>1 DEF Goto, Only, Same, Moved, Keeps, PlaceTypes, Labels, CoreLabels
<1> QED  BY <1>0, <1>1 DEF TunUp, TunUpTo

RemoveForgetTo(h) ==
    /\ PlaceTypes' /\ Only(h)
    /\ (Goto(h, "disconnect") /\ UNCHANGED loc => Moved(h, "disconnect"))

\* Where its goroutine goes with the removal of the last profile clearing the wish.
LEMMA RemoveForgetMoves ==
    ASSUME Shape, NEW h \in Handlers, RemoveForget(h)
    PROVE  RemoveForgetTo(h)
<1> USE GuardConstants DEF Shape
<1>0. h \in Goroutines
  BY DEF Goroutines
<1>1. ASSUME NEW l \in {"disconnect"}, Goto(h, l), UNCHANGED loc
      PROVE  PlaceTypes' /\ Only(h) /\ Moved(h, l)
  BY <1>0, <1>1 DEF Goto, Only, Same, Moved, Keeps, PlaceTypes, Labels, CoreLabels
<1> QED  BY <1>0, <1>1 DEF RemoveForget, RemoveForgetTo

DisconnectTo(h) ==
    /\ PlaceTypes' /\ Only(h)
    /\ (Goto(h, "halt") /\ UNCHANGED loc => Moved(h, "halt"))

\* Where its goroutine goes with a disconnection clearing the wish.
LEMMA DisconnectMoves ==
    ASSUME Shape, NEW h \in Handlers, Disconnect(h)
    PROVE  DisconnectTo(h)
<1> USE GuardConstants DEF Shape
<1>0. h \in Goroutines
  BY DEF Goroutines
<1>1. ASSUME NEW l \in {"halt"}, Goto(h, l), UNCHANGED loc
      PROVE  PlaceTypes' /\ Only(h) /\ Moved(h, l)
  BY <1>0, <1>1 DEF Goto, Only, Same, Moved, Keeps, PlaceTypes, Labels, CoreLabels
<1> QED  BY <1>0, <1>1 DEF Disconnect, DisconnectTo

UnholdTo(h) ==
    /\ PlaceTypes' /\ Only(h)
    /\ (CallSync(h, "idle") => Synced(h, "idle"))

\* Where its goroutine goes with a disconnection releasing the hold.
LEMMA UnholdMoves ==
    ASSUME Shape, NEW h \in Handlers, Unhold(h)
    PROVE  UnholdTo(h)
<1> USE GuardConstants DEF Shape
<1>0. h \in Goroutines
  BY DEF Goroutines
<1>1. ASSUME CallSync(h, "idle") PROVE PlaceTypes' /\ Only(h) /\ Synced(h, "idle")
  BY <1>0, <1>1, CallSyncMoves
<1> QED  BY <1>0, <1>1 DEF Unhold, UnholdTo

BuiltTo(h) ==
    /\ PlaceTypes' /\ Only(h)
    /\ (Finish(h) => Answered(h))
    /\ (Goto(h, "swap") /\ UNCHANGED loc => Moved(h, "swap"))
    /\ (Goto(h, "rollback") /\ UNCHANGED loc => Moved(h, "rollback"))

\* Where its goroutine goes with a restart's configuration being built.
LEMMA BuiltMoves ==
    ASSUME Shape, NEW h \in Handlers, Built(h)
    PROVE  BuiltTo(h)
<1> USE GuardConstants DEF Shape
<1>0. h \in Goroutines
  BY DEF Goroutines
<1>1. ASSUME Finish(h) PROVE PlaceTypes' /\ Only(h) /\ Answered(h)
  BY <1>0, <1>1, FinishMoves
<1>2. ASSUME NEW l \in {"swap", "rollback"}, Goto(h, l), UNCHANGED loc
      PROVE  PlaceTypes' /\ Only(h) /\ Moved(h, l)
  BY <1>0, <1>2 DEF Goto, Only, Same, Moved, Keeps, PlaceTypes, Labels, CoreLabels
<1> QED  BY <1>0, <1>1, <1>2 DEF Built, Fault, NoFault, BuiltTo

SwapTo(h) ==
    /\ PlaceTypes' /\ Only(h)
    /\ (Finish(h) => Answered(h))
    /\ (Goto(h, "halt") /\ UNCHANGED loc => Moved(h, "halt"))
    /\ (Goto(h, "settle") /\ UNCHANGED loc => Moved(h, "settle"))

\* Where its goroutine goes with a restart taking opMu.
LEMMA SwapMoves ==
    ASSUME Shape, NEW h \in Handlers, Swap(h)
    PROVE  SwapTo(h)
<1> USE GuardConstants DEF Shape
<1>0. h \in Goroutines
  BY DEF Goroutines
<1>1. ASSUME Finish(h) PROVE PlaceTypes' /\ Only(h) /\ Answered(h)
  BY <1>0, <1>1, FinishMoves
<1>2. ASSUME NEW l \in {"halt", "settle"}, Goto(h, l), UNCHANGED loc
      PROVE  PlaceTypes' /\ Only(h) /\ Moved(h, l)
  BY <1>0, <1>2 DEF Goto, Only, Same, Moved, Keeps, PlaceTypes, Labels, CoreLabels
<1> QED  BY <1>0, <1>1, <1>2 DEF Swap, SwapTo

ChooseTo(h) ==
    /\ PlaceTypes' /\ Only(h)
    /\ (Finish(h) => Answered(h))
    /\ (CallSync(h, "idle") => Synced(h, "idle"))
    /\ (Goto(h, "hold") /\ UNCHANGED loc => Moved(h, "hold"))

\* Where its goroutine goes with the choice whether a change of settings needs a restart.
LEMMA ChooseMoves ==
    ASSUME Shape, NEW h \in Handlers, Choose(h)
    PROVE  ChooseTo(h)
<1> USE GuardConstants DEF Shape
<1>0. h \in Goroutines
  BY DEF Goroutines
<1>1. ASSUME Finish(h) PROVE PlaceTypes' /\ Only(h) /\ Answered(h)
  BY <1>0, <1>1, FinishMoves
<1>2. ASSUME CallSync(h, "idle") PROVE PlaceTypes' /\ Only(h) /\ Synced(h, "idle")
  BY <1>0, <1>2, CallSyncMoves
<1>3. ASSUME NEW l \in {"hold"}, Goto(h, l), UNCHANGED loc
      PROVE  PlaceTypes' /\ Only(h) /\ Moved(h, l)
  BY <1>0, <1>3 DEF Goto, Only, Same, Moved, Keeps, PlaceTypes, Labels, CoreLabels
<1> QED  BY <1>0, <1>1, <1>2, <1>3 DEF Choose, ChooseTo

HoldTo(h) ==
    /\ PlaceTypes' /\ Only(h)
    /\ (wanted => Moved(h, "prep")) /\ (~wanted => Moved(h, "settle"))

\* Where its goroutine goes with the hold of the guard before a restart.
LEMMA HoldMoves ==
    ASSUME Shape, NEW h \in Handlers, Hold(h)
    PROVE  HoldTo(h)
<1> DEFINE l == IF wanted THEN "prep" ELSE "settle"
<1>1. PlaceTypes /\ h \in Goroutines /\ l \in Labels /\ settings \in Choices
  BY DEF Shape, FileTypes, Goroutines, Labels
<1>2. /\ pc' \in [Goroutines -> Labels] /\ pc'[h] = l
      /\ \A k \in Goroutines : k # h => pc'[k] = pc[k]
  BY <1>1, GotoMoves DEF Hold
<1>3. /\ loc' \in [Goroutines -> Locals]
      /\ \A k \in Goroutines : k # h => loc'[k] = loc[k]
      /\ loc'[h].op = loc[h].op /\ loc'[h].ret = loc[h].ret
      /\ loc'[h].act = loc[h].act /\ loc'[h].prev = loc[h].prev
  BY <1>1 DEF Hold, PlaceTypes, Locals
<1> QED  BY <1>1, <1>2, <1>3 DEF PlaceTypes, Only, Same, Moved, Keeps, HoldTo

StartCheckedTo(h) ==
    /\ PlaceTypes' /\ Only(h)
    /\ (Goto(h, "tunup") /\ UNCHANGED loc => Moved(h, "tunup"))
    /\ (Goto(h, "started") /\ UNCHANGED loc => Moved(h, "started"))
    /\ (Goto(h, "undo") /\ UNCHANGED loc => Moved(h, "undo"))

\* Where its goroutine goes with RestartChecked's start of the new data plane.
LEMMA StartCheckedMoves ==
    ASSUME Shape, NEW h \in Handlers, StartChecked(h)
    PROVE  StartCheckedTo(h)
<1> USE GuardConstants DEF Shape
<1>0. h \in Goroutines
  BY DEF Goroutines
<1>1. ASSUME NEW l \in {"tunup", "started", "undo"}, Goto(h, l), UNCHANGED loc
      PROVE  PlaceTypes' /\ Only(h) /\ Moved(h, l)
  BY <1>0, <1>1 DEF Goto, Only, Same, Moved, Keeps, PlaceTypes, Labels, CoreLabels
<1> QED  BY <1>0, <1>1 DEF StartChecked, PlaneFor, Fault, NoFault, StartCheckedTo

SettleTo(h) ==
    /\ PlaceTypes' /\ Only(h)
    /\ (CallSync(h, "idle") => Synced(h, "idle"))

\* Where its goroutine goes with the end of a privacy transaction.
LEMMA SettleMoves ==
    ASSUME Shape, NEW h \in Handlers, Settle(h)
    PROVE  SettleTo(h)
<1> USE GuardConstants DEF Shape
<1>0. h \in Goroutines
  BY DEF Goroutines
<1>1. ASSUME CallSync(h, "idle") PROVE PlaceTypes' /\ Only(h) /\ Synced(h, "idle")
  BY <1>0, <1>1, CallSyncMoves
<1> QED  BY <1>0, <1>1 DEF Settle, SettleTo

AbandonTo(h) ==
    /\ PlaceTypes' /\ Only(h)
    /\ (Finish(h) => Answered(h))

\* Where its goroutine goes with its early return.
LEMMA AbandonMoves ==
    ASSUME Shape, NEW h \in Handlers, Abandon(h)
    PROVE  AbandonTo(h)
<1> USE GuardConstants DEF Shape
<1>0. h \in Goroutines
  BY DEF Goroutines
<1>1. ASSUME Finish(h) PROVE PlaceTypes' /\ Only(h) /\ Answered(h)
  BY <1>0, <1>1, FinishMoves
<1> QED  BY <1>0, <1>1 DEF Abandon, AbandonTo

RunLoopTo ==
    /\ PlaceTypes' /\ Only("run")
    /\ (Goto("run", "off") /\ UNCHANGED loc => Moved("run", "off"))
    /\ (Goto("run", "prep") /\ UNCHANGED loc => Moved("run", "prep"))
    /\ (Goto("run", "start") /\ UNCHANGED loc => Moved("run", "start"))

\* Where its goroutine goes with the loop of the run goroutine.
LEMMA RunLoopMoves ==
    ASSUME Shape, RunLoop
    PROVE  RunLoopTo
<1> USE GuardConstants DEF Shape
<1>0. "run" \in Goroutines
  BY DEF Goroutines
<1>1. ASSUME NEW l \in {"off", "prep", "start"}, Goto("run", l), UNCHANGED loc
      PROVE  PlaceTypes' /\ Only("run") /\ Moved("run", l)
  BY <1>0, <1>1 DEF Goto, Only, Same, Moved, Keeps, PlaceTypes, Labels, CoreLabels
<1> QED  BY <1>0, <1>1 DEF RunLoop, RunLoopTo

RunUpTo ==
    /\ PlaceTypes' /\ Only("run")
    /\ (Goto("run", "check") /\ UNCHANGED loc => Moved("run", "check"))
    /\ (Goto("run", "off") /\ UNCHANGED loc => Moved("run", "off"))
    /\ (Goto("run", "loop") /\ UNCHANGED loc => Moved("run", "loop"))

\* Where its goroutine goes with the watch over a running core.
LEMMA RunUpMoves ==
    ASSUME Shape, RunUp
    PROVE  RunUpTo
<1> USE GuardConstants DEF Shape
<1>0. "run" \in Goroutines
  BY DEF Goroutines
<1>1. ASSUME NEW l \in {"check", "off", "loop"}, Goto("run", l), UNCHANGED loc
      PROVE  PlaceTypes' /\ Only("run") /\ Moved("run", l)
  BY <1>0, <1>1 DEF Goto, Only, Same, Moved, Keeps, PlaceTypes, Labels, CoreLabels
<1> QED  BY <1>0, <1>1 DEF RunUp, Fault, NoFault, RunUpTo

WatchTo ==
    /\ PlaceTypes' /\ Only("watch")
    /\ (CallSync("watch", "idle") => Synced("watch", "idle"))

\* Where its goroutine goes with guardWatchLoop.
LEMMA WatchMoves ==
    ASSUME Shape, Watch
    PROVE  WatchTo
<1> USE GuardConstants DEF Shape
<1>0. "watch" \in Goroutines
  BY DEF Goroutines
<1>1. ASSUME CallSync("watch", "idle") PROVE PlaceTypes' /\ Only("watch") /\ Synced("watch", "idle")
  BY <1>0, <1>1, CallSyncMoves
<1> QED  BY <1>0, <1>1 DEF Watch, WatchTo

ShutdownTo ==
    /\ PlaceTypes' /\ Only("boot")
    /\ (Goto("boot", "halt") /\ UNCHANGED loc => Moved("boot", "halt"))

\* Where its goroutine goes with the shutdown.
LEMMA ShutdownMoves ==
    ASSUME Shape, Shutdown
    PROVE  ShutdownTo
<1> USE GuardConstants DEF Shape
<1>0. "boot" \in Goroutines
  BY DEF Goroutines
<1>1. ASSUME NEW l \in {"halt"}, Goto("boot", l), UNCHANGED loc
      PROVE  PlaceTypes' /\ Only("boot") /\ Moved("boot", l)
  BY <1>0, <1>1 DEF Goto, Only, Same, Moved, Keeps, PlaceTypes, Labels, CoreLabels
<1> QED  BY <1>0, <1>1 DEF Shutdown, ShutdownTo

StopTo ==
    /\ PlaceTypes' /\ Only("boot")
    /\ (Goto("boot", "closing") /\ UNCHANGED loc => Moved("boot", "closing"))

\* Where its goroutine goes with a request to stop the service.
LEMMA StopMoves ==
    ASSUME Shape, Stop
    PROVE  StopTo
<1> USE GuardConstants DEF Shape
<1>0. "boot" \in Goroutines
  BY DEF Goroutines
<1>1. ASSUME NEW l \in {"closing"}, Goto("boot", l), UNCHANGED loc
      PROVE  PlaceTypes' /\ Only("boot") /\ Moved("boot", l)
  BY <1>0, <1>1 DEF Goto, Only, Same, Moved, Keeps, PlaceTypes, Labels, CoreLabels
<1> QED  BY <1>0, <1>1 DEF Stop, Fault, StopTo

\* Launch: the run goroutine may be started, and the wish is set unless the
\* machine is closed
OnlyRun(h) == \A k \in Goroutines : k \notin {h, "run"} => Same(k)
RunKept == \/ Same("run")
           \/ pc["run"] = "off" /\ pc'["run"] = "loop" /\ Fresh("run")
NotWished == UNCHANGED <<wanted, asked, cancelled, late>>
Wished == \/ MachineClosed /\ NotWished
          \/ /\ ~MachineClosed /\ wanted' = TRUE /\ asked' = TRUE
             /\ late' = ~GuardMuFree /\ cancelled' \in {cancelled, FALSE}
Emptied == /\ pc' = [g \in Goroutines |-> CASE g = "boot" -> "dead"
                                            [] g = "run" -> "off"
                                            [] OTHER -> "idle"]
           /\ loc' = [g \in Goroutines |-> NoLocal]

\* machine.connect sets the wish and begins a run goroutine, if there is none.
LEMMA LaunchMoves ==
    ASSUME NEW pcs \in [Goroutines -> Labels], NEW locals \in [Goroutines -> Locals],
           NEW pre \in Choices \cup {"none", "stale"}, Launch(pre, pcs, locals)
    PROVE  /\ PlaceTypes' /\ Wished
           /\ \A k \in Goroutines \ {"run"} : pc'[k] = pcs[k] /\ loc'[k] = locals[k]
           /\ \/ pc'["run"] = pcs["run"] /\ loc'["run"] = locals["run"]
              \/ pcs["run"] = "off" /\ pc'["run"] = "loop" /\ Fresh("run")
<1> DEFINE first == [NoLocal EXCEPT !.cfg = pre]
<1>0. "run" \in Goroutines /\ "loop" \in Labels
  BY DEF Goroutines, Labels
<1>1. /\ first \in Locals /\ first.op = "none" /\ first.ret = "none"
      /\ first.act = "none" /\ first.prev = Default
  BY DEF Locals, NoLocal, Choices, Default
<1>2. CASE MachineClosed
  BY <1>2 DEF Launch, PlaceTypes, Wished, NotWished
<1>3. CASE ~MachineClosed /\ pcs["run"] # "off"
  BY <1>3 DEF Launch, PlaceTypes, Wished
<1>4. CASE ~MachineClosed /\ pcs["run"] = "off"
  <2>1. /\ pc' = [pcs EXCEPT !["run"] = "loop"]
        /\ loc' = [locals EXCEPT !["run"] = first]
        /\ wanted' = TRUE /\ asked' = TRUE /\ late' = ~GuardMuFree /\ cancelled' = FALSE
    BY <1>4 DEF Launch
  <2>2. PlaceTypes'
    BY <2>1, <1>0, <1>1 DEF PlaceTypes
  <2>3. \A k \in Goroutines \ {"run"} : pc'[k] = pcs[k] /\ loc'[k] = locals[k]
    BY <2>1
  <2>4. pc'["run"] = "loop" /\ loc'["run"] = first
    BY <2>1, <1>0
  <2>5. Fresh("run")
    BY <2>4, <1>1 DEF Fresh
  <2> QED  BY <1>4, <2>1, <2>2, <2>3, <2>4, <2>5 DEF Wished
<1> QED  BY <1>2, <1>3, <1>4

SyncLockTo(g) ==
    /\ PlaceTypes' /\ Only(g) /\ Keeps(g)
    /\ pc'[g] = "decide" /\ loc'[g].ret = loc[g].ret
    /\ loc'[g].act = IF GuardWanted THEN "want" ELSE "leave"

\* Where its goroutine goes with taking guardMu and reading what is wanted.
LEMMA SyncLockMoves ==
    ASSUME Shape, NEW g \in Goroutines, SyncLock(g)
    PROVE  SyncLockTo(g)
<1> DEFINE act == IF GuardWanted THEN "want" ELSE "leave"
<1>1. act \in {"want", "leave"} /\ PlaceTypes
  BY DEF Shape
<1>2. pc' = [pc EXCEPT ![g] = "decide"] /\ loc' = [loc EXCEPT ![g].act = act]
  BY DEF SyncLock, Goto
<1> HIDE DEF act
<1>3. [loc[g] EXCEPT !.act = act] \in Locals
  BY <1>1 DEF PlaceTypes, Locals
<1>4. PlaceTypes'
  BY <1>1, <1>2, <1>3 DEF PlaceTypes, Labels, SyncLabels, HoldLabels
<1>5. /\ pc'[g] = "decide" /\ loc'[g].ret = loc[g].ret /\ loc'[g].act = act /\ Keeps(g)
  BY <1>1, <1>2 DEF PlaceTypes, Locals, Keeps
<1>6. Only(g)
  BY <1>1, <1>2 DEF PlaceTypes, Only, Same
<1> QED  BY <1>4, <1>5, <1>6 DEF act, SyncLockTo

InstallTo(g) ==
    /\ PlaceTypes' /\ Only(g)
    /\ \/ /\ fw' = GuardSpec(settings) /\ owed' = StillOwed /\ NoFault
          /\ pc'[g] = "record" /\ Keeps(g) /\ loc'[g].ret = loc[g].ret
          /\ loc'[g].act = GuardSpec(settings)
       \/ Fault /\ fw' = fw /\ owed' = TRUE /\ Returned(g)

\* Where its goroutine goes with applyGuard's transaction.
LEMMA InstallMoves ==
    ASSUME Shape, NEW g \in Goroutines, Install(g)
    PROVE  InstallTo(g)
<1> USE GuardConstants DEF Shape
<1>0. g = "boot" \/ loc[g].ret \in {"idle", "ready", "up"}
  BY DEF Install, Places, LoopAt, HandlerAt, At, SavePlaces, SyncLabels, HoldLabels,
         PreServe, Goroutines
<1>1. ASSUME Return(g) PROVE PlaceTypes' /\ Only(g) /\ Returned(g)
  BY <1>0, <1>1, ReturnMoves
<1>2. ASSUME NEW act \in {"global", "rule"}, Goto(g, "record"),
             loc' = [loc EXCEPT ![g].act = act]
      PROVE  /\ PlaceTypes' /\ Only(g) /\ pc'[g] = "record" /\ Keeps(g)
             /\ loc'[g].ret = loc[g].ret /\ loc'[g].act = act
  <2>1. [loc[g] EXCEPT !.act = act] \in Locals
    BY DEF PlaceTypes, Locals
  <2>2. PlaceTypes'
    BY <2>1, <1>2 DEF PlaceTypes, Labels, SyncLabels, HoldLabels, Goto
  <2>3. /\ pc'[g] = "record" /\ loc'[g].ret = loc[g].ret /\ loc'[g].act = act /\ Keeps(g)
    BY <1>2 DEF PlaceTypes, Locals, Keeps, Goto
  <2>4. Only(g)
    BY <1>2 DEF PlaceTypes, Only, Same, Goto
  <2> QED  BY <2>2, <2>3, <2>4
<1>3. GuardSpec(settings) \in {"global", "rule"}
  BY DEF GuardSpec
<1> QED  BY <1>1, <1>2, <1>3 DEF Install, InstallTo

PrepareTo(g) ==
    PlaceTypes' /\ Only(g) /\ Synced(g, "ready")

\* Where its goroutine goes with the preparation of a configuration.
LEMMA PrepareMoves ==
    ASSUME Shape, NEW g \in Goroutines, Prepare(g)
    PROVE  PrepareTo(g)
<1>1. PlaceTypes /\ settings \in Choices
  BY DEF Shape, FileTypes
<1>2. pc' = [pc EXCEPT ![g] = "sync"]
  BY DEF Prepare, Goto
<1>3. loc' = [loc EXCEPT ![g].cfg = settings, ![g].ret = "ready"]
  BY DEF Prepare
<1>4. [loc[g] EXCEPT !.cfg = settings, !.ret = "ready"] \in Locals
  BY <1>1 DEF PlaceTypes, Locals
<1>5. PlaceTypes'
  BY <1>1, <1>2, <1>3, <1>4 DEF PlaceTypes, Labels, SyncLabels
<1>6. Synced(g, "ready")
  BY <1>1, <1>2, <1>3 DEF PlaceTypes, Locals, Synced, Keeps
<1>7. Only(g)
  BY <1>1, <1>2, <1>3 DEF PlaceTypes, Only, Same
<1> QED  BY <1>5, <1>6, <1>7 DEF PrepareTo

CallTo(h, op) ==
    /\ PlaceTypes' /\ Only(h)
    /\ loc'[h].op = op /\ loc'[h].ret = loc[h].ret /\ loc'[h].act = loc[h].act
    /\ op = "save" => loc'[h].prev = settings
    /\ \/ op = "connect" /\ disk' = "yes" /\ pc'[h] = "connect"
       \/ op = "disconnect" /\ disk' = "no" /\ pc'[h] = "disconnect"
       \/ op = "remove" /\ disk' = disk /\ pc'[h] = "remove"
       \/ op = "save" /\ SettingsOpFree /\ disk' = disk /\ pc'[h] = "save"
       \/ op = "refresh" /\ wanted /\ disk' = disk /\ pc'[h] = "prep"

\* Where its goroutine goes with a request coming in.
LEMMA CallMoves ==
    ASSUME Shape, NEW h \in Handlers, NEW op \in AllOps, Call(h, op)
    PROVE  CallTo(h, op)
<1> DEFINE prev == IF op \in {"save", "remove"} THEN settings ELSE Default
<1>1. PlaceTypes /\ settings \in Choices /\ prev \in Choices /\ h \in Goroutines
  BY DEF Shape, FileTypes, Choices, Default, Goroutines
<1>2. loc' = [loc EXCEPT ![h].op = op, ![h].prev = prev]
  BY DEF Call
<1>3. \/ op = "connect" /\ disk' = "yes" /\ Goto(h, "connect")
      \/ op = "disconnect" /\ disk' = "no" /\ Goto(h, "disconnect")
      \/ op = "remove" /\ disk' = disk /\ Goto(h, "remove")
      \/ op = "save" /\ SettingsOpFree /\ disk' = disk /\ Goto(h, "save")
      \/ op = "refresh" /\ wanted /\ disk' = disk /\ Goto(h, "prep")
  BY DEF Call
<1>4. op = "save" => prev = settings
  OBVIOUS
<1> HIDE DEF prev
<1>5. [loc[h] EXCEPT !.op = op, !.prev = prev] \in Locals
  BY <1>1 DEF PlaceTypes, Locals
<1>6. loc' \in [Goroutines -> Locals] /\ \A k \in Goroutines : k # h => loc'[k] = loc[k]
  BY <1>1, <1>2, <1>5 DEF PlaceTypes
<1>7. /\ loc'[h].op = op /\ loc'[h].ret = loc[h].ret /\ loc'[h].act = loc[h].act
      /\ loc'[h].prev = prev
  BY <1>1, <1>2 DEF PlaceTypes, Locals
<1>8. \A l \in Labels : Goto(h, l) =>
         /\ pc' \in [Goroutines -> Labels] /\ pc'[h] = l
         /\ \A k \in Goroutines : k # h => pc'[k] = pc[k]
  BY <1>1, GotoMoves
<1>9. {"connect", "disconnect", "remove", "save", "prep"} \subseteq Labels
  BY DEF Labels
<1> QED  BY <1>3, <1>4, <1>6, <1>7, <1>8, <1>9 DEF PlaceTypes, Only, Same, CallTo

ConnectTo(h) ==
    PlaceTypes' /\ OnlyRun(h) /\ RunKept /\ Synced(h, "idle") /\ Wished

\* Where its goroutine goes with MConnect.
LEMMA ConnectMoves ==
    ASSUME Shape, NEW h \in Handlers, Connect(h)
    PROVE  ConnectTo(h)
<1> DEFINE pcs == [pc EXCEPT ![h] = "sync"]
           locals == [loc EXCEPT ![h].ret = "idle"]
<1>1. PlaceTypes /\ h \in Goroutines /\ h # "run" /\ "run" \in Goroutines
  BY GuardConstants DEF Shape, Goroutines
<1>2. [loc[h] EXCEPT !.ret = "idle"] \in Locals
  BY <1>1 DEF PlaceTypes, Locals
<1>3. /\ pcs \in [Goroutines -> Labels] /\ pcs[h] = "sync"
      /\ \A k \in Goroutines : k # h => pcs[k] = pc[k]
  BY <1>1 DEF PlaceTypes, Labels, SyncLabels
<1>4. /\ locals \in [Goroutines -> Locals]
      /\ \A k \in Goroutines : k # h => locals[k] = loc[k]
  BY <1>1, <1>2 DEF PlaceTypes
<1>5. /\ locals[h].ret = "idle" /\ locals[h].op = loc[h].op
      /\ locals[h].act = loc[h].act /\ locals[h].prev = loc[h].prev
  BY <1>1 DEF PlaceTypes, Locals
<1>6. Launch("none", pcs, locals)
  BY DEF Connect
<1> HIDE DEF pcs, locals
<1>7. /\ PlaceTypes' /\ Wished
      /\ \A k \in Goroutines \ {"run"} : pc'[k] = pcs[k] /\ loc'[k] = locals[k]
      /\ \/ pc'["run"] = pcs["run"] /\ loc'["run"] = locals["run"]
         \/ pcs["run"] = "off" /\ pc'["run"] = "loop" /\ Fresh("run")
  BY <1>3, <1>4, <1>6, LaunchMoves
<1> QED  BY <1>1, <1>3, <1>4, <1>5, <1>7
            DEF OnlyRun, RunKept, Same, Synced, Keeps, ConnectTo

\* The settings being replaced moves nobody.
LEMMA PublishMoves ==
    ASSUME Shape, NEW h \in Handlers, NEW s \in Choices, NEW l \in Labels,
           NEW f \in {loc, [loc EXCEPT ![h].new = s]}, Publish(s, f), Goto(h, l)
    PROVE  /\ PlaceTypes' /\ Only(h) /\ Moved(h, l) /\ loc'[h].new = f[h].new
           /\ settings' = s /\ file' = s /\ trusted' = TRUE /\ late' = ~GuardMuFree
<1> USE DEF Shape
<1>1. PlaceTypes /\ h \in Goroutines
  BY DEF Goroutines
<1>1a. /\ f \in [Goroutines -> Locals]
       /\ \A k \in Goroutines : /\ f[k].op = loc[k].op /\ f[k].ret = loc[k].ret
                                /\ f[k].act = loc[k].act /\ f[k].prev = loc[k].prev
                                /\ k # h => f[k].new = loc[k].new
  BY <1>1 DEF PlaceTypes, Locals
<1> DEFINE staled == [g \in Goroutines |-> IF f[g].cfg # "none"
                          THEN [f[g] EXCEPT !.cfg = "stale"] ELSE f[g]]
<1>2. loc' = staled /\ settings' = s /\ file' = s /\ trusted' = TRUE /\ late' = ~GuardMuFree
  BY DEF Publish
<1>3. /\ staled \in [Goroutines -> Locals]
      /\ \A k \in Goroutines : /\ staled[k].op = f[k].op /\ staled[k].ret = f[k].ret
                               /\ staled[k].act = f[k].act /\ staled[k].prev = f[k].prev
                               /\ staled[k].new = f[k].new
  BY <1>1, <1>1a, StaleMoves
<1> HIDE DEF staled
<1>4. /\ pc' \in [Goroutines -> Labels] /\ pc'[h] = l
      /\ \A k \in Goroutines : k # h => pc'[k] = pc[k]
  BY <1>1, GotoMoves
<1> QED  BY <1>1, <1>1a, <1>2, <1>3, <1>4 DEF PlaceTypes, Only, Same, Moved, Keeps

RemoveWriteTo(h) ==
    /\ PlaceTypes' /\ Only(h) /\ Moved(h, "forget")
    /\ settings' = loc[h].prev /\ file' = loc[h].prev /\ trusted' = TRUE
    /\ late' = ~GuardMuFree /\ loc[h].prev \in Choices

\* Where its goroutine goes with the removal of a profile writing the settings back.
LEMMA RemoveWriteMoves ==
    ASSUME Shape, NEW h \in Handlers, RemoveWrite(h)
    PROVE  RemoveWriteTo(h)
<1>1. loc[h].prev \in Choices /\ "forget" \in Labels
  BY DEF Shape, PlaceTypes, Locals, Goroutines, Labels
<1>2. Publish(loc[h].prev, loc) /\ Goto(h, "forget")
  BY DEF RemoveWrite
<1> QED  BY <1>1, <1>2, PublishMoves DEF RemoveWriteTo

SaveTo(h, s) ==
    /\ PlaceTypes' /\ Only(h) /\ Moved(h, "choose") /\ loc'[h].new = s
    /\ settings' = s /\ file' = s /\ trusted' = TRUE /\ late' = ~GuardMuFree

\* Where its goroutine goes with MSetSettings publishing the settings.
LEMMA SaveMoves ==
    ASSUME Shape, NEW h \in Handlers, NEW s \in Choices, Save(h, s)
    PROVE  SaveTo(h, s)
<1>1. "choose" \in Labels
  BY DEF Labels
<1>2. Publish(s, [loc EXCEPT ![h].new = s]) /\ Goto(h, "choose")
  BY DEF Save
<1>3. [loc EXCEPT ![h].new = s][h].new = s
  BY DEF Shape, PlaceTypes, Locals, Goroutines
<1> QED  BY <1>1, <1>2, <1>3, PublishMoves DEF SaveTo

HaltTo(h) ==
    /\ PlaceTypes' /\ OnlyRun(h) /\ pc["run"] = "off" /\ pc[h] = "halt"
    /\ \/ loc[h].op = "disconnect" /\ Moved(h, "unhold") /\ Same("run") /\ NotWished
       \/ loc[h].op = "remove" /\ Synced(h, "idle") /\ Same("run") /\ NotWished
       \/ loc[h].op = "refresh" /\ Answered(h) /\ RunKept /\ Wished
       \/ loc[h].op = "save" /\ Moved(h, "launch") /\ Same("run") /\ NotWished

\* Where its goroutine goes with stopLoop, once the run goroutine has ended.
LEMMA HaltMoves ==
    ASSUME Shape, NEW h \in Handlers, Halt(h)
    PROVE  HaltTo(h)
<1> USE DEF HaltTo
<1>1. PlaceTypes /\ h \in Goroutines /\ h # "run" /\ "run" \in Goroutines
  BY GuardConstants DEF Shape, Goroutines
<1>2. pc[h] = "halt" /\ pc["run"] = "off"
  BY DEF Halt
<1>3. loc[h].op \in {"disconnect", "remove", "refresh", "save"}
  BY <1>2 DEF Shape, Places, HandlerAt, At, SavePlaces, SyncLabels, HoldLabels
<1>4. CASE loc[h].op = "disconnect"
  <2>1. Goto(h, "unhold") /\ UNCHANGED loc /\ NotWished
    BY <1>4 DEF Halt, NotWished
  <2>2. /\ pc' \in [Goroutines -> Labels] /\ pc'[h] = "unhold"
        /\ \A k \in Goroutines : k # h => pc'[k] = pc[k]
    BY <1>1, <2>1 DEF Goto, PlaceTypes, Labels
  <2> QED  BY <1>1, <1>2, <1>4, <2>1, <2>2 DEF PlaceTypes, OnlyRun, Same, Moved, Keeps
<1>5. CASE loc[h].op = "remove"
  <2>1. CallSync(h, "idle") /\ NotWished
    BY <1>5 DEF Halt, NotWished
  <2>2. PlaceTypes' /\ Only(h) /\ Synced(h, "idle")
    BY <1>1, <2>1, CallSyncMoves
  <2> QED  BY <1>1, <1>2, <1>5, <2>1, <2>2 DEF Only, OnlyRun
<1>6. CASE loc[h].op = "refresh"
  <2> DEFINE pcs == [pc EXCEPT ![h] = "idle"]
             locals == [loc EXCEPT ![h] = NoLocal]
  <2>1. Launch(loc[h].cfg, pcs, locals)
    BY <1>6 DEF Halt
  <2>2. loc[h].cfg \in Choices \cup {"none", "stale"}
    BY <1>1 DEF PlaceTypes, Locals
  <2>3. /\ pcs \in [Goroutines -> Labels] /\ pcs[h] = "idle"
        /\ \A k \in Goroutines : k # h => pcs[k] = pc[k]
    BY <1>1 DEF PlaceTypes, Labels
  <2>4. /\ locals \in [Goroutines -> Locals] /\ locals[h] = NoLocal
        /\ \A k \in Goroutines : k # h => locals[k] = loc[k]
    BY <1>1, FreshLocal DEF PlaceTypes
  <2> HIDE DEF pcs, locals
  <2>5. /\ PlaceTypes' /\ Wished
        /\ \A k \in Goroutines \ {"run"} : pc'[k] = pcs[k] /\ loc'[k] = locals[k]
        /\ \/ pc'["run"] = pcs["run"] /\ loc'["run"] = locals["run"]
           \/ pcs["run"] = "off" /\ pc'["run"] = "loop" /\ Fresh("run")
    BY <2>1, <2>2, <2>3, <2>4, LaunchMoves
  <2>6. OnlyRun(h) /\ RunKept
    BY <1>1, <2>3, <2>4, <2>5 DEF OnlyRun, RunKept, Same
  <2>7. Answered(h)
    BY <1>1, <2>3, <2>4, <2>5 DEF Answered, Fresh, NoLocal
  <2> QED  BY <1>2, <1>6, <2>5, <2>6, <2>7
<1>7. CASE loc[h].op = "save"
  <2>1. Goto(h, "launch") /\ UNCHANGED loc /\ NotWished
    BY <1>7 DEF Halt, NotWished
  <2>2. /\ pc' \in [Goroutines -> Labels] /\ pc'[h] = "launch"
        /\ \A k \in Goroutines : k # h => pc'[k] = pc[k]
    BY <1>1, <2>1 DEF Goto, PlaceTypes, Labels, CoreLabels
  <2> QED  BY <1>1, <1>2, <1>7, <2>1, <2>2 DEF PlaceTypes, OnlyRun, Same, Moved, Keeps
<1> QED  BY <1>3, <1>4, <1>5, <1>6, <1>7

StartedTo(h) ==
    /\ PlaceTypes' /\ OnlyRun(h) /\ Moved(h, "settle")
    /\ pc'["run"] = "up" /\ loc' = loc

\* Where its goroutine goes with the new data plane handed to a run goroutine.
LEMMA StartedMoves ==
    ASSUME Shape, NEW h \in Handlers, Started(h)
    PROVE  StartedTo(h)
<1>1. PlaceTypes /\ h \in Goroutines /\ h # "run" /\ "run" \in Goroutines
  BY GuardConstants DEF Shape, Goroutines
<1>2. pc' = [pc EXCEPT ![h] = "settle", !["run"] = "up"] /\ loc' = loc
  BY DEF Started
<1>3. pc' \in [Goroutines -> Labels]
  BY <1>1, <1>2 DEF PlaceTypes, Labels
<1>4. /\ pc'[h] = "settle" /\ pc'["run"] = "up"
      /\ \A k \in Goroutines \ {h, "run"} : pc'[k] = pc[k]
  BY <1>1, <1>2 DEF PlaceTypes
<1> QED  BY <1>1, <1>2, <1>3, <1>4 DEF PlaceTypes, OnlyRun, Same, Moved, Keeps, StartedTo

\* What the rollback leaves of the settings
RolledBack(h) == \/ UNCHANGED <<settings, file, trusted>>
                 \/ settings' = loc[h].prev /\ file' = loc[h].prev /\ trusted' = TRUE

RollbackTo(h) ==
    /\ PlaceTypes' /\ OnlyRun(h) /\ RunKept /\ RolledBack(h)
    /\ Moved(h, "settle") \/ (DiskFails /\ Moved(h, "abandon"))
    /\ \/ pc[h] = "undo" /\ Wished
       \/ /\ pc[h] = "rollback" /\ Same("run")
          /\ late' = ~GuardMuFree /\ UNCHANGED <<wanted, asked, cancelled>>

\* Where its goroutine goes with the rollback of a tightening.
LEMMA RollbackMoves ==
    ASSUME Shape, NEW h \in Handlers, Rollback(h)
    PROVE  RollbackTo(h)
<1> USE DEF RollbackTo
<1>1. PlaceTypes /\ h \in Goroutines /\ h # "run" /\ "run" \in Goroutines
  BY GuardConstants DEF Shape, Goroutines
<1> DEFINE pcs(l) == [pc EXCEPT ![h] = l]
           staled == [g \in Goroutines |-> IF loc[g].cfg # "none"
                          THEN [loc[g] EXCEPT !.cfg = "stale"] ELSE loc[g]]
           finish(l, locals) ==
               IF pc[h] = "undo" THEN Launch("none", pcs(l), locals)
               ELSE /\ pc' = pcs(l) /\ loc' = locals /\ late' = ~GuardMuFree
                    /\ UNCHANGED <<wanted, asked, cancelled>>
<1>2. PICK l \in {"settle", "abandon"}, locals \in {staled, loc} :
         /\ finish(l, locals) /\ RolledBack(h)
         /\ l = "abandon" => DiskFails
  <2>1. CASE /\ ~Relaxes(loc[h].prev, loc[h].new) /\ DiskFails
             /\ finish("abandon", loc) /\ UNCHANGED <<settings, file, trusted>>
    BY <2>1 DEF RolledBack
  <2>2. CASE /\ ~Relaxes(loc[h].prev, loc[h].new)
             /\ settings' = loc[h].prev /\ file' = loc[h].prev /\ trusted' = TRUE
             /\ finish("settle", staled)
    BY <2>2 DEF RolledBack
  <2>3. CASE finish("settle", loc) /\ UNCHANGED <<settings, file, trusted>>
    BY <2>3 DEF RolledBack
  <2> QED  BY <2>1, <2>2, <2>3 DEF Rollback
<1>3. pc[h] \in {"undo", "rollback"}
  BY DEF Rollback
<1>4. /\ staled \in [Goroutines -> Locals]
      /\ \A k \in Goroutines : /\ staled[k].op = loc[k].op /\ staled[k].ret = loc[k].ret
                               /\ staled[k].act = loc[k].act /\ staled[k].prev = loc[k].prev
                               /\ staled[k].new = loc[k].new
  BY <1>1, StaleMoves DEF PlaceTypes
<1>5. /\ locals \in [Goroutines -> Locals]
      /\ \A k \in Goroutines : /\ locals[k].op = loc[k].op /\ locals[k].ret = loc[k].ret
                               /\ locals[k].act = loc[k].act /\ locals[k].prev = loc[k].prev
                               /\ locals[k].new = loc[k].new
  BY <1>1, <1>2, <1>4 DEF PlaceTypes
<1>6. /\ pcs(l) \in [Goroutines -> Labels] /\ pcs(l)[h] = l
      /\ \A k \in Goroutines : k # h => pcs(l)[k] = pc[k]
  BY <1>1 DEF PlaceTypes, Labels
<1>7. /\ pc[h] = "undo" => Launch("none", pcs(l), locals)
      /\ pc[h] # "undo" => /\ pc' = pcs(l) /\ loc' = locals /\ late' = ~GuardMuFree
                           /\ UNCHANGED <<wanted, asked, cancelled>>
  BY <1>2
<1> HIDE DEF pcs, staled, finish
<1>8. CASE pc[h] = "undo"
  <2>1. /\ PlaceTypes' /\ Wished
        /\ \A k \in Goroutines \ {"run"} : pc'[k] = pcs(l)[k] /\ loc'[k] = locals[k]
        /\ \/ pc'["run"] = pcs(l)["run"] /\ loc'["run"] = locals["run"]
           \/ pcs(l)["run"] = "off" /\ pc'["run"] = "loop" /\ Fresh("run")
    BY <1>5, <1>6, <1>7, <1>8, LaunchMoves
  <2>2. OnlyRun(h) /\ RunKept
    BY <1>1, <1>5, <1>6, <2>1 DEF OnlyRun, RunKept, Same
  <2>3. Moved(h, l)
    BY <1>1, <1>5, <1>6, <2>1 DEF Moved, Keeps
  <2> QED  BY <1>2, <1>8, <2>1, <2>2, <2>3
<1>9. CASE pc[h] # "undo"
  <2>1. OnlyRun(h) /\ Same("run") /\ Moved(h, l) /\ PlaceTypes'
    BY <1>1, <1>5, <1>6, <1>7, <1>9 DEF OnlyRun, Same, Moved, Keeps, PlaceTypes
  <2> QED  BY <1>2, <1>3, <1>7, <1>9, <2>1 DEF RunKept
<1> QED  BY <1>8, <1>9

RunBuiltTo ==
    PlaceTypes' /\ Only("run") /\ pc'["run"] \in {"off", "start", "loop"}

\* Where its goroutine goes with the run goroutine's configuration being built.
LEMMA RunBuiltMoves ==
    ASSUME Shape, RunBuilt
    PROVE  RunBuiltTo
<1>1. PlaceTypes /\ "run" \in Goroutines
  BY DEF Shape, Goroutines
<1>2. PICK l \in {"off", "start", "loop"} : Goto("run", l)
  BY DEF RunBuilt
<1>3. loc' = loc \/ loc' = [loc EXCEPT !["run"] = NoLocal]
  BY DEF RunBuilt
<1>4. loc' \in [Goroutines -> Locals] /\ \A k \in Goroutines : k # "run" => loc'[k] = loc[k]
  BY <1>1, <1>3, FreshLocal DEF PlaceTypes
<1>5. /\ pc' \in [Goroutines -> Labels] /\ pc'["run"] = l
      /\ \A k \in Goroutines : k # "run" => pc'[k] = pc[k]
  BY <1>1, <1>2 DEF Goto, PlaceTypes, Labels
<1> QED  BY <1>4, <1>5 DEF PlaceTypes, Only, Same, RunBuiltTo

RunStartTo ==
    PlaceTypes' /\ Only("run") /\ pc'["run"] \in {"tunup", "up", "loop"}

\* Where its goroutine goes with the run goroutine's start of the core.
LEMMA RunStartMoves ==
    ASSUME Shape, RunStart
    PROVE  RunStartTo
<1>1. PlaceTypes /\ "run" \in Goroutines
  BY DEF Shape, Goroutines
<1>2. PICK l \in {"tunup", "up", "loop"} : Goto("run", l)
  BY DEF RunStart
<1>3. loc' = [loc EXCEPT !["run"] = NoLocal]
  BY DEF RunStart
<1>4. loc' \in [Goroutines -> Locals] /\ \A k \in Goroutines : k # "run" => loc'[k] = loc[k]
  BY <1>1, <1>3, FreshLocal DEF PlaceTypes
<1>5. /\ pc' \in [Goroutines -> Labels] /\ pc'["run"] = l
      /\ \A k \in Goroutines : k # "run" => pc'[k] = pc[k]
  BY <1>1, <1>2 DEF Goto, PlaceTypes, Labels, CoreLabels
<1> QED  BY <1>4, <1>5 DEF PlaceTypes, Only, Same, RunStartTo

BootTo ==
    /\ PlaceTypes' /\ loc' = loc
    /\ pc'["boot"] = "reconcile" /\ pc'["watch"] = "idle"
    /\ \A k \in Goroutines \ {"boot", "watch"} : pc'[k] = pc[k]

\* Where its goroutine goes with the start of the service.
LEMMA BootMoves ==
    ASSUME Shape, Boot
    PROVE  BootTo
<1>1. PlaceTypes /\ "boot" \in Goroutines /\ "watch" \in Goroutines
  BY DEF Shape, Goroutines
<1>2. pc' = [pc EXCEPT !["boot"] = "reconcile", !["watch"] = "idle"] /\ loc' = loc
  BY DEF Boot
<1> QED  BY <1>1, <1>2 DEF PlaceTypes, Labels, BootTo

AutoConnectTo ==
    /\ PlaceTypes' /\ OnlyRun("boot") /\ RunKept /\ Moved("boot", "serve")
    /\ \/ disk = "yes" /\ trusted /\ Wished
       \/ /\ ~(disk = "yes" /\ trusted) /\ asked' = wanted
          /\ UNCHANGED <<wanted, cancelled, late>>

\* Where its goroutine goes with the automatic connection.
LEMMA AutoConnectMoves ==
    ASSUME Shape, AutoConnect
    PROVE  AutoConnectTo
<1> USE DEF AutoConnectTo
<1>1. PlaceTypes /\ "boot" \in Goroutines /\ "run" \in Goroutines
  BY DEF Shape, Goroutines
<1> DEFINE pcs == [pc EXCEPT !["boot"] = "serve"]
<1>2. /\ pcs \in [Goroutines -> Labels] /\ pcs["boot"] = "serve"
      /\ \A k \in Goroutines : k # "boot" => pcs[k] = pc[k]
  BY <1>1 DEF PlaceTypes, Labels
<1>3. CASE disk = "yes" /\ trusted
  <2>1. Launch("none", pcs, loc)
    BY <1>3 DEF AutoConnect
  <2> HIDE DEF pcs
  <2>2. /\ PlaceTypes' /\ Wished
        /\ \A k \in Goroutines \ {"run"} : pc'[k] = pcs[k] /\ loc'[k] = loc[k]
        /\ \/ pc'["run"] = pcs["run"] /\ loc'["run"] = loc["run"]
           \/ pcs["run"] = "off" /\ pc'["run"] = "loop" /\ Fresh("run")
    BY <1>1, <1>2, <2>1, LaunchMoves DEF PlaceTypes
  <2> QED  BY <1>1, <1>2, <1>3, <2>2 DEF OnlyRun, RunKept, Same, Moved, Keeps
<1>4. CASE ~(disk = "yes" /\ trusted)
  <2>1. /\ pc' = pcs /\ UNCHANGED <<wanted, cancelled, late, loc>> /\ asked' = wanted
    BY <1>4 DEF AutoConnect, Goto
  <2> QED  BY <1>1, <1>2, <1>4, <2>1 DEF OnlyRun, RunKept, Same, Moved, Keeps, PlaceTypes
<1> QED  BY <1>3, <1>4

ReconcileTo ==
    /\ PlaceTypes' /\ Only("boot")
    /\ Moved("boot", "auto") \/ Moved("boot", "install") \/ Moved("boot", "clear")

\* Where its goroutine goes with the reconciliation of the filter found in place.
LEMMA ReconcileMoves ==
    ASSUME Shape, Reconcile
    PROVE  ReconcileTo
<1>1. PlaceTypes /\ "boot" \in Goroutines
  BY DEF Shape, Goroutines
<1>2. disk \in {"yes", "no", "unknown"} /\ trusted \in BOOLEAN
  BY DEF Shape, FileTypes, FlagTypes
<1>3. PICK l \in {"auto", "install", "clear"} : Goto("boot", l)
  BY <1>2 DEF Reconcile
<1>4. loc' = loc
  BY DEF Reconcile
<1>5. /\ pc' \in [Goroutines -> Labels] /\ pc'["boot"] = l
      /\ \A k \in Goroutines : k # "boot" => pc'[k] = pc[k]
  BY <1>1, <1>3 DEF Goto, PlaceTypes, Labels, SyncLabels, HoldLabels
<1> QED  BY <1>1, <1>3, <1>4, <1>5 DEF PlaceTypes, Only, Same, Moved, Keeps, ReconcileTo

\* With the process everything in memory is gone.
LEMMA EmptiedMoves ==
    ASSUME Emptied
    PROVE  /\ PlaceTypes' /\ pc'["boot"] = "dead" /\ pc'["run"] = "off"
           /\ pc'["watch"] = "idle" /\ \A h \in Handlers : pc'[h] = "idle"
           /\ \A g \in Goroutines : Fresh(g) /\ pc'[g] \in {"dead", "off", "idle"}
<1>1. loc' \in [Goroutines -> Locals] /\ \A g \in Goroutines : loc'[g] = NoLocal
  BY FreshLocal DEF Emptied
<1>2. pc' \in [Goroutines -> Labels]
  BY DEF Emptied, Labels
<1>3. /\ pc'["boot"] = "dead" /\ pc'["run"] = "off" /\ pc'["watch"] = "idle"
      /\ \A h \in Handlers : pc'[h] = "idle"
      /\ \A g \in Goroutines : pc'[g] \in {"dead", "off", "idle"}
  BY GuardConstants DEF Emptied, Goroutines
<1>4. \A g \in Goroutines : Fresh(g)
  BY <1>1 DEF Fresh, NoLocal
<1> QED  BY <1>1, <1>2, <1>3, <1>4 DEF PlaceTypes

\* A handler that did not move is still where its call may be.
LEMMA SameHandler ==
    ASSUME NEW k \in Handlers, HandlerAt(k), Same(k)
    PROVE  HandlerAt(k)'
BY DEF HandlerAt, At, Same

\* Types and places, after the entry to syncGuard.
LEMMA SyncEnterShape ==
    ASSUME Shape, NEW g \in Goroutines, SyncEnter(g)
    PROVE  Shape'
<1>0. SyncEnterTo(g)
  BY SyncEnterMoves
<1> USE GuardConstants DEF Shape
<1>1. FileTypes' /\ FilterTypes'
  BY <1>0
     DEF SyncEnter, SyncEnterTo, FileTypes, FilterTypes, Choices, cfgVars, wishVars, runVars
<1>2. FlagTypes'
  BY <1>0 DEF SyncEnter, SyncEnterTo, FlagTypes, cfgVars, wishVars, runVars
<1>3. LeftTypes'
  BY DEF SyncEnter, LeftTypes
<1>4. RecordTyped'
  BY <1>0
     DEF SyncEnter, RecordTyped, SyncEnterTo, Only, Same, Moved, Returned, Answered, Keeps,
         Fresh, Goroutines, Places, LoopAt, HandlerAt, At, SavePlaces, SyncLabels,
         HoldLabels, PreServe
<1>5. Places'
  BY <1>0
     DEF SyncEnter, SyncEnterTo, Places, LoopAt, HandlerAt, At, SavePlaces, SyncLabels,
         HoldLabels, PreServe, Goroutines, Only, Same, Moved, Returned, Answered, Keeps,
         Fresh
<1> QED  BY <1>0, <1>1, <1>2, <1>3, <1>4, <1>5 DEF SyncEnterTo

\* Types and places, after taking guardMu and reading what is wanted.
LEMMA SyncLockShape ==
    ASSUME Shape, NEW g \in Goroutines, SyncLock(g)
    PROVE  Shape'
<1>0. SyncLockTo(g)
  BY SyncLockMoves
<1> USE GuardConstants DEF Shape
<1>1. FileTypes' /\ FilterTypes'
  BY <1>0
     DEF SyncLock, SyncLockTo, FileTypes, FilterTypes, Choices, cfgVars, wishVars, guardVars
<1>2. FlagTypes'
  BY <1>0 DEF SyncLock, SyncLockTo, FlagTypes, cfgVars, wishVars, guardVars
<1>3. LeftTypes'
  BY DEF SyncLock, LeftTypes
<1>4. RecordTyped'
  BY <1>0 DEF SyncLock, RecordTyped, SyncLockTo, Only, Same, Keeps, Goroutines
<1>5. Places'
  BY <1>0
     DEF SyncLock, SyncLockTo, Places, LoopAt, HandlerAt, At, SavePlaces, SyncLabels,
         HoldLabels, PreServe, Goroutines, Only, Same, Keeps
<1> QED  BY <1>0, <1>1, <1>2, <1>3, <1>4, <1>5 DEF SyncLockTo

\* Types and places, after the second shutdown check and the four cases.
LEMMA SyncDecideShape ==
    ASSUME Shape, NEW g \in Goroutines, SyncDecide(g)
    PROVE  Shape'
<1>0. SyncDecideTo(g)
  BY SyncDecideMoves
<1> USE GuardConstants DEF Shape
<1>1. FileTypes' /\ FilterTypes'
  BY <1>0
     DEF SyncDecide, Fault, NoFault, SyncDecideTo, FileTypes, FilterTypes, Choices,
         GuardSpec, cfgVars, wishVars, runVars
<1>2. FlagTypes'
  BY <1>0
     DEF SyncDecide, Fault, NoFault, SyncDecideTo, FlagTypes, StillOwed, cfgVars, wishVars,
         runVars
<1>3. LeftTypes'
  BY DEF SyncDecide, Fault, NoFault, LeftTypes
<1>4. RecordTyped'
  BY <1>0
     DEF SyncDecide, Fault, NoFault, RecordTyped, GuardSpec, SyncDecideTo, Only, Same,
         Moved, Returned, Answered, Keeps, Fresh, Goroutines, Places, LoopAt, HandlerAt, At,
         SavePlaces, SyncLabels, HoldLabels, PreServe
<1>5. Places'
  BY <1>0
     DEF SyncDecide, Fault, NoFault, SyncDecideTo, Places, LoopAt, HandlerAt, At,
         SavePlaces, SyncLabels, HoldLabels, PreServe, Goroutines, Only, Same, Moved,
         Returned, Answered, Keeps, Fresh
<1> QED  BY <1>0, <1>1, <1>2, <1>3, <1>4, <1>5 DEF SyncDecideTo

\* Types and places, after applyGuard's transaction.
LEMMA InstallShape ==
    ASSUME Shape, NEW g \in Goroutines, Install(g)
    PROVE  Shape'
<1>0. InstallTo(g)
  BY InstallMoves
<1> USE GuardConstants DEF Shape
<1>1. FileTypes' /\ FilterTypes'
  BY <1>0
     DEF Install, Fault, NoFault, InstallTo, FileTypes, FilterTypes, Choices, GuardSpec,
         cfgVars, wishVars, runVars
<1>2. FlagTypes'
  BY <1>0
     DEF Install, Fault, NoFault, InstallTo, FlagTypes, StillOwed, cfgVars, wishVars,
         runVars
<1>3. LeftTypes'
  BY DEF Install, Fault, NoFault, LeftTypes
<1>4. RecordTyped'
  BY <1>0
     DEF Install, Fault, NoFault, RecordTyped, GuardSpec, InstallTo, Only, Same, Returned,
         Answered, Keeps, Fresh, Goroutines, Places, LoopAt, HandlerAt, At, SavePlaces,
         SyncLabels, HoldLabels, PreServe
<1>5. Places'
  BY <1>0
     DEF Install, Fault, NoFault, InstallTo, Places, LoopAt, HandlerAt, At, SavePlaces,
         SyncLabels, HoldLabels, PreServe, Goroutines, Only, Same, Returned, Answered,
         Keeps, Fresh
<1> QED  BY <1>0, <1>1, <1>2, <1>3, <1>4, <1>5 DEF InstallTo

\* Types and places, after the note that the filter is installed.
LEMMA RecordShape ==
    ASSUME Shape, NEW g \in Goroutines, Record(g)
    PROVE  Shape'
<1>0. RecordTo(g)
  BY RecordMoves
<1> USE GuardConstants DEF Shape
<1>1. FileTypes' /\ FilterTypes'
  BY <1>0
     DEF Record, RecordTo, FileTypes, FilterTypes, Choices, RecordTyped, cfgVars, wishVars,
         runVars
<1>2. FlagTypes'
  BY <1>0 DEF Record, RecordTo, FlagTypes, cfgVars, wishVars, runVars
<1>3. LeftTypes'
  BY DEF Record, LeftTypes
<1>4. RecordTyped'
  BY <1>0
     DEF Record, RecordTyped, RecordTo, Only, Same, Returned, Answered, Keeps, Fresh,
         Goroutines, Places, LoopAt, HandlerAt, At, SavePlaces, SyncLabels, HoldLabels,
         PreServe
<1>5. Places'
  BY <1>0
     DEF Record, RecordTo, Places, LoopAt, HandlerAt, At, SavePlaces, SyncLabels,
         HoldLabels, PreServe, Goroutines, Only, Same, Returned, Answered, Keeps, Fresh
<1> QED  BY <1>0, <1>1, <1>2, <1>3, <1>4, <1>5 DEF RecordTo

\* Types and places, after ClearGuard, taking the filter away.
LEMMA ClearShape ==
    ASSUME Shape, NEW g \in Goroutines, Clear(g)
    PROVE  Shape'
<1>0. ClearTo(g)
  BY ClearMoves
<1> USE GuardConstants DEF Shape
<1>1. FileTypes' /\ FilterTypes'
  BY <1>0
     DEF Clear, Fault, NoFault, ClearTo, FileTypes, FilterTypes, Choices, cfgVars, wishVars,
         runVars
<1>2. FlagTypes'
  BY <1>0
     DEF Clear, Fault, NoFault, ClearTo, FlagTypes, StillOwed, cfgVars, wishVars, runVars
<1>3. LeftTypes'
  BY DEF Clear, Fault, NoFault, LeftTypes
<1>4. RecordTyped'
  BY <1>0
     DEF Clear, Fault, NoFault, RecordTyped, ClearTo, Only, Same, Moved, Returned, Answered,
         Keeps, Fresh, Goroutines, Places, LoopAt, HandlerAt, At, SavePlaces, SyncLabels,
         HoldLabels, PreServe
<1>5. Places'
  BY <1>0
     DEF Clear, Fault, NoFault, ClearTo, Places, LoopAt, HandlerAt, At, SavePlaces,
         SyncLabels, HoldLabels, PreServe, Goroutines, Only, Same, Moved, Returned,
         Answered, Keeps, Fresh
<1> QED  BY <1>0, <1>1, <1>2, <1>3, <1>4, <1>5 DEF ClearTo

\* Types and places, after the note that the filter is gone.
LEMMA ClearedShape ==
    ASSUME Shape, NEW g \in Goroutines, Cleared(g)
    PROVE  Shape'
<1>0. ClearedTo(g)
  BY ClearedMoves
<1> USE GuardConstants DEF Shape
<1>1. FileTypes' /\ FilterTypes'
  BY <1>0
     DEF Cleared, ClearedTo, FileTypes, FilterTypes, Choices, cfgVars, wishVars, runVars
<1>2. FlagTypes'
  BY <1>0 DEF Cleared, ClearedTo, FlagTypes, cfgVars, wishVars, runVars
<1>3. LeftTypes'
  BY DEF Cleared, LeftTypes
<1>4. RecordTyped'
  BY <1>0
     DEF Cleared, RecordTyped, ClearedTo, Only, Same, Returned, Answered, Keeps, Fresh,
         Goroutines, Places, LoopAt, HandlerAt, At, SavePlaces, SyncLabels, HoldLabels,
         PreServe
<1>5. Places'
  BY <1>0
     DEF Cleared, ClearedTo, Places, LoopAt, HandlerAt, At, SavePlaces, SyncLabels,
         HoldLabels, PreServe, Goroutines, Only, Same, Returned, Answered, Keeps, Fresh
<1> QED  BY <1>0, <1>1, <1>2, <1>3, <1>4, <1>5 DEF ClearedTo

\* Types and places, after guardReady looking for the filter.
LEMMA GuardReadyShape ==
    ASSUME Shape, NEW g \in Goroutines, GuardReady(g)
    PROVE  Shape'
<1>0. GuardReadyTo(g)
  BY GuardReadyMoves
<1> USE GuardConstants DEF Shape
<1>1. FileTypes' /\ FilterTypes'
  BY <1>0
     DEF GuardReady, AfterReady, Fault, NoFault, GuardReadyTo, FileTypes, FilterTypes,
         Choices, GuardSpec, cfgVars, wishVars, runVars, guardVars
<1>2. FlagTypes'
  BY <1>0
     DEF GuardReady, AfterReady, Fault, NoFault, GuardReadyTo, FlagTypes, cfgVars, wishVars,
         runVars, guardVars
<1>3. LeftTypes'
  BY DEF GuardReady, AfterReady, Fault, NoFault, LeftTypes
<1>4. RecordTyped'
  BY <1>0
     DEF GuardReady, AfterReady, Fault, NoFault, RecordTyped, GuardSpec, GuardReadyTo, Only,
         Same, Moved, Synced, Keeps, Goroutines
<1>5. Places'
  BY <1>0
     DEF GuardReady, AfterReady, Fault, NoFault, GuardReadyTo, Places, LoopAt, HandlerAt,
         At, SavePlaces, SyncLabels, HoldLabels, PreServe, Goroutines, Only, Same, Moved,
         Synced, Keeps
<1> QED  BY <1>0, <1>1, <1>2, <1>3, <1>4, <1>5 DEF GuardReadyTo

\* Types and places, after guardReady noting that there is none.
LEMMA GuardGoneShape ==
    ASSUME Shape, NEW g \in Goroutines, GuardGone(g)
    PROVE  Shape'
<1>0. GuardGoneTo(g)
  BY GuardGoneMoves
<1> USE GuardConstants DEF Shape
<1>1. FileTypes' /\ FilterTypes'
  BY <1>0
     DEF GuardGone, AfterReady, GuardGoneTo, FileTypes, FilterTypes, Choices, cfgVars,
         wishVars, runVars
<1>2. FlagTypes'
  BY <1>0 DEF GuardGone, AfterReady, GuardGoneTo, FlagTypes, cfgVars, wishVars, runVars
<1>3. LeftTypes'
  BY DEF GuardGone, AfterReady, LeftTypes
<1>4. RecordTyped'
  BY <1>0
     DEF GuardGone, AfterReady, RecordTyped, GuardGoneTo, Only, Same, Moved, Synced, Keeps,
         Goroutines
<1>5. Places'
  BY <1>0
     DEF GuardGone, AfterReady, GuardGoneTo, Places, LoopAt, HandlerAt, At, SavePlaces,
         SyncLabels, HoldLabels, PreServe, Goroutines, Only, Same, Moved, Synced, Keeps
<1> QED  BY <1>0, <1>1, <1>2, <1>3, <1>4, <1>5 DEF GuardGoneTo

\* Types and places, after guardTunUp at the end of a start.
LEMMA TunUpShape ==
    ASSUME Shape, NEW g \in Goroutines, TunUp(g)
    PROVE  Shape'
<1>0. TunUpTo(g)
  BY TunUpMoves
<1> USE GuardConstants DEF Shape
<1>1. FileTypes' /\ FilterTypes'
  BY <1>0 DEF TunUp, TunUpTo, FileTypes, FilterTypes, Choices, cfgVars, wishVars, runVars
<1>2. FlagTypes'
  BY <1>0 DEF TunUp, TunUpTo, FlagTypes, cfgVars, wishVars, runVars
<1>3. LeftTypes'
  BY DEF TunUp, LeftTypes
<1>4. RecordTyped'
  BY <1>0 DEF TunUp, RecordTyped, TunUpTo, Only, Same, Moved, Keeps, Goroutines
<1>5. Places'
  BY <1>0
     DEF TunUp, TunUpTo, Places, LoopAt, HandlerAt, At, SavePlaces, SyncLabels, HoldLabels,
         PreServe, Goroutines, Only, Same, Moved, Keeps
<1> QED  BY <1>0, <1>1, <1>2, <1>3, <1>4, <1>5 DEF TunUpTo

\* Types and places, after the preparation of a configuration.
LEMMA PrepareShape ==
    ASSUME Shape, NEW g \in Goroutines, Prepare(g)
    PROVE  Shape'
<1>0. PrepareTo(g)
  BY PrepareMoves
<1> USE GuardConstants DEF Shape
<1>1. FileTypes' /\ FilterTypes'
  BY <1>0
     DEF Prepare, PrepareTo, FileTypes, FilterTypes, Choices, cfgVars, wishVars, runVars,
         guardVars
<1>2. FlagTypes'
  BY <1>0 DEF Prepare, PrepareTo, FlagTypes, cfgVars, wishVars, runVars, guardVars
<1>3. LeftTypes'
  BY DEF Prepare, LeftTypes
<1>4. RecordTyped'
  BY <1>0 DEF Prepare, RecordTyped, PrepareTo, Only, Same, Synced, Keeps, Goroutines
<1>5. Places'
  <2>1. LoopAt'
    BY <1>0
       DEF Prepare, PrepareTo, Places, LoopAt, HandlerAt, At, SavePlaces, SyncLabels,
           HoldLabels, PreServe, Goroutines, Only, Same, Synced, Keeps
  <2>2. ASSUME NEW k \in Handlers, k # g PROVE HandlerAt(k)'
    BY <1>0, <2>2, SameHandler DEF PrepareTo, Only, Goroutines, Places
  <2>3. ASSUME g \in Handlers PROVE HandlerAt(g)'
    <3>1. loc[g].op \in {"refresh", "save"}
      BY <2>3 DEF Prepare, Places, HandlerAt, At, SyncLabels, HoldLabels
    <3> QED  BY <1>0, <3>1 DEF PrepareTo, Synced, Keeps, HandlerAt, At, SyncLabels
  <2> QED  BY <2>1, <2>2, <2>3 DEF Places
<1> QED  BY <1>0, <1>1, <1>2, <1>3, <1>4, <1>5 DEF PrepareTo

\* Types and places, after a request coming in.
LEMMA CallShape ==
    ASSUME Shape, NEW h \in Handlers, NEW op \in AllOps, Call(h, op)
    PROVE  Shape'
<1>0. CallTo(h, op)
  BY CallMoves
<1> USE GuardConstants DEF Shape
<1>1. FileTypes' /\ FilterTypes'
  BY <1>0
     DEF Call, CallTo, FileTypes, FilterTypes, Choices, Default, wishVars, runVars,
         guardVars
<1>2. FlagTypes'
  BY <1>0 DEF Call, CallTo, FlagTypes, wishVars, runVars, guardVars
<1>3. LeftTypes'
  BY DEF Call, LeftTypes
<1>4. RecordTyped'
  BY <1>0 DEF Call, RecordTyped, CallTo, Only, Same, Goroutines
<1>5. Places'
  <2>1. LoopAt'
    BY <1>0
       DEF Call, CallTo, Places, LoopAt, HandlerAt, At, SavePlaces, SyncLabels, HoldLabels,
           PreServe, Goroutines, Only, Same
  <2>2. ASSUME NEW k \in Handlers, k # h PROVE HandlerAt(k)'
    BY <1>0, <2>2, SameHandler DEF CallTo, Only, Goroutines, Places
  <2>3. HandlerAt(h)'
    BY <1>0 DEF CallTo, HandlerAt, At, SavePlaces
  <2> QED  BY <2>1, <2>2, <2>3 DEF Places
<1> QED  BY <1>0, <1>1, <1>2, <1>3, <1>4, <1>5 DEF CallTo

\* Types and places, after MConnect.
LEMMA ConnectShape ==
    ASSUME Shape, NEW h \in Handlers, Connect(h)
    PROVE  Shape'
<1>0. ConnectTo(h)
  BY ConnectMoves
<1> USE GuardConstants DEF Shape
<1>1. FileTypes' /\ FilterTypes'
  BY <1>0
     DEF Connect, Wished, NotWished, ConnectTo, FileTypes, FilterTypes, Choices, cfgVars,
         guardVars
<1>2. FlagTypes'
  BY <1>0 DEF Connect, Wished, NotWished, ConnectTo, FlagTypes, cfgVars, guardVars
<1>3. LeftTypes'
  BY DEF Connect, LeftTypes
<1>4. RecordTyped'
  BY <1>0
     DEF Connect, RecordTyped, ConnectTo, Same, Synced, Keeps, Fresh, OnlyRun, RunKept,
         Goroutines
<1>5. Places'
  BY <1>0
     DEF Connect, ConnectTo, Places, LoopAt, HandlerAt, At, SavePlaces, SyncLabels,
         HoldLabels, PreServe, Goroutines, Same, Synced, Keeps, Fresh, OnlyRun, RunKept
<1> QED  BY <1>0, <1>1, <1>2, <1>3, <1>4, <1>5 DEF ConnectTo

\* Types and places, after the removal of a profile writing the settings back.
LEMMA RemoveWriteShape ==
    ASSUME Shape, NEW h \in Handlers, RemoveWrite(h)
    PROVE  Shape'
<1>0. RemoveWriteTo(h)
  BY RemoveWriteMoves
<1> USE GuardConstants DEF Shape
<1>1. FileTypes' /\ FilterTypes'
  BY <1>0
     DEF RemoveWrite, RemoveWriteTo, FileTypes, FilterTypes, Choices, wishVars, guardVars
<1>2. FlagTypes'
  BY <1>0 DEF RemoveWrite, RemoveWriteTo, FlagTypes, wishVars, guardVars
<1>3. LeftTypes'
  BY DEF RemoveWrite, LeftTypes
<1>4. RecordTyped'
  BY <1>0 DEF RemoveWrite, RecordTyped, RemoveWriteTo, Only, Same, Moved, Keeps, Goroutines
<1>5. Places'
  BY <1>0
     DEF RemoveWrite, RemoveWriteTo, Places, LoopAt, HandlerAt, At, SavePlaces, SyncLabels,
         HoldLabels, PreServe, Goroutines, Only, Same, Moved, Keeps
<1> QED  BY <1>0, <1>1, <1>2, <1>3, <1>4, <1>5 DEF RemoveWriteTo

\* Types and places, after the removal of the last profile clearing the wish.
LEMMA RemoveForgetShape ==
    ASSUME Shape, NEW h \in Handlers, RemoveForget(h)
    PROVE  Shape'
<1>0. RemoveForgetTo(h)
  BY RemoveForgetMoves
<1> USE GuardConstants DEF Shape
<1>1. FileTypes' /\ FilterTypes'
  BY <1>0
     DEF RemoveForget, RemoveForgetTo, FileTypes, FilterTypes, Choices, wishVars, runVars,
         guardVars
<1>2. FlagTypes'
  BY <1>0 DEF RemoveForget, RemoveForgetTo, FlagTypes, wishVars, runVars, guardVars
<1>3. LeftTypes'
  BY DEF RemoveForget, LeftTypes
<1>4. RecordTyped'
  BY <1>0
     DEF RemoveForget, RecordTyped, RemoveForgetTo, Only, Same, Moved, Keeps, Goroutines
<1>5. Places'
  BY <1>0
     DEF RemoveForget, RemoveForgetTo, Places, LoopAt, HandlerAt, At, SavePlaces,
         SyncLabels, HoldLabels, PreServe, Goroutines, Only, Same, Moved, Keeps
<1> QED  BY <1>0, <1>1, <1>2, <1>3, <1>4, <1>5 DEF RemoveForgetTo

\* Types and places, after a disconnection clearing the wish.
LEMMA DisconnectShape ==
    ASSUME Shape, NEW h \in Handlers, Disconnect(h)
    PROVE  Shape'
<1>0. DisconnectTo(h)
  BY DisconnectMoves
<1> USE GuardConstants DEF Shape
<1>1. FileTypes' /\ FilterTypes'
  BY <1>0 DEF Disconnect, DisconnectTo, FileTypes, FilterTypes, Choices, cfgVars, guardVars
<1>2. FlagTypes'
  BY <1>0 DEF Disconnect, DisconnectTo, FlagTypes, cfgVars, guardVars
<1>3. LeftTypes'
  BY DEF Disconnect, LeftTypes
<1>4. RecordTyped'
  BY <1>0 DEF Disconnect, RecordTyped, DisconnectTo, Only, Same, Moved, Keeps, Goroutines
<1>5. Places'
  BY <1>0
     DEF Disconnect, DisconnectTo, Places, LoopAt, HandlerAt, At, SavePlaces, SyncLabels,
         HoldLabels, PreServe, Goroutines, Only, Same, Moved, Keeps
<1> QED  BY <1>0, <1>1, <1>2, <1>3, <1>4, <1>5 DEF DisconnectTo

\* Types and places, after a disconnection releasing the hold.
LEMMA UnholdShape ==
    ASSUME Shape, NEW h \in Handlers, Unhold(h)
    PROVE  Shape'
<1>0. UnholdTo(h)
  BY UnholdMoves
<1> USE GuardConstants DEF Shape
<1>1. FileTypes' /\ FilterTypes'
  BY <1>0 DEF Unhold, UnholdTo, FileTypes, FilterTypes, Choices, cfgVars, wishVars, runVars
<1>2. FlagTypes'
  BY <1>0 DEF Unhold, UnholdTo, FlagTypes, cfgVars, wishVars, runVars
<1>3. LeftTypes'
  BY DEF Unhold, LeftTypes
<1>4. RecordTyped'
  BY <1>0 DEF Unhold, RecordTyped, UnholdTo, Only, Same, Synced, Keeps, Goroutines
<1>5. Places'
  BY <1>0
     DEF Unhold, UnholdTo, Places, LoopAt, HandlerAt, At, SavePlaces, SyncLabels,
         HoldLabels, PreServe, Goroutines, Only, Same, Synced, Keeps
<1> QED  BY <1>0, <1>1, <1>2, <1>3, <1>4, <1>5 DEF UnholdTo

\* Types and places, after stopLoop, once the run goroutine has ended.
LEMMA HaltShape ==
    ASSUME Shape, NEW h \in Handlers, Halt(h)
    PROVE  Shape'
<1>0. HaltTo(h)
  BY HaltMoves
<1> USE GuardConstants DEF Shape
<1>1. FileTypes' /\ FilterTypes'
  BY <1>0
     DEF Halt, Wished, NotWished, HaltTo, FileTypes, FilterTypes, Choices, cfgVars,
         guardVars
<1>2. FlagTypes'
  BY <1>0 DEF Halt, Wished, NotWished, HaltTo, FlagTypes, cfgVars, guardVars
<1>3. LeftTypes'
  BY DEF Halt, LeftTypes
<1>4. RecordTyped'
  BY <1>0
     DEF Halt, RecordTyped, HaltTo, Same, Moved, Answered, Synced, Keeps, Fresh, OnlyRun,
         RunKept, Goroutines
<1>5. Places'
  BY <1>0
     DEF Halt, HaltTo, Places, LoopAt, HandlerAt, At, SavePlaces, SyncLabels, HoldLabels,
         PreServe, Goroutines, Same, Moved, Answered, Synced, Keeps, Fresh, OnlyRun, RunKept
<1> QED  BY <1>0, <1>1, <1>2, <1>3, <1>4, <1>5 DEF HaltTo

\* Types and places, after a restart's configuration being built.
LEMMA BuiltShape ==
    ASSUME Shape, NEW h \in Handlers, Built(h)
    PROVE  Shape'
<1>0. BuiltTo(h)
  BY BuiltMoves
<1> USE GuardConstants DEF Shape
<1>1. FileTypes' /\ FilterTypes'
  BY <1>0
     DEF Built, Fault, NoFault, BuiltTo, FileTypes, FilterTypes, Choices, cfgVars, wishVars,
         runVars, guardVars
<1>2. FlagTypes'
  BY <1>0
     DEF Built, Fault, NoFault, BuiltTo, FlagTypes, cfgVars, wishVars, runVars, guardVars
<1>3. LeftTypes'
  BY DEF Built, Fault, NoFault, LeftTypes
<1>4. RecordTyped'
  BY <1>0
     DEF Built, Fault, NoFault, RecordTyped, BuiltTo, Only, Same, Moved, Answered, Keeps,
         Fresh, Goroutines
<1>5. Places'
  BY <1>0
     DEF Built, Fault, NoFault, BuiltTo, Places, LoopAt, HandlerAt, At, SavePlaces,
         SyncLabels, HoldLabels, PreServe, Goroutines, Only, Same, Moved, Answered, Keeps,
         Fresh
<1> QED  BY <1>0, <1>1, <1>2, <1>3, <1>4, <1>5 DEF BuiltTo

\* Types and places, after a restart taking opMu.
LEMMA SwapShape ==
    ASSUME Shape, NEW h \in Handlers, Swap(h)
    PROVE  Shape'
<1>0. SwapTo(h)
  BY SwapMoves
<1> USE GuardConstants DEF Shape
<1>1. FileTypes' /\ FilterTypes'
  BY <1>0 DEF Swap, SwapTo, FileTypes, FilterTypes, Choices, cfgVars, wishVars, guardVars
<1>2. FlagTypes'
  BY <1>0 DEF Swap, SwapTo, FlagTypes, cfgVars, wishVars, guardVars
<1>3. LeftTypes'
  BY DEF Swap, LeftTypes
<1>4. RecordTyped'
  BY <1>0
     DEF Swap, RecordTyped, SwapTo, Only, Same, Moved, Answered, Keeps, Fresh, Goroutines
<1>5. Places'
  BY <1>0
     DEF Swap, SwapTo, Places, LoopAt, HandlerAt, At, SavePlaces, SyncLabels, HoldLabels,
         PreServe, Goroutines, Only, Same, Moved, Answered, Keeps, Fresh
<1> QED  BY <1>0, <1>1, <1>2, <1>3, <1>4, <1>5 DEF SwapTo

\* Types and places, after MSetSettings publishing the settings.
LEMMA SaveShape ==
    ASSUME Shape, NEW h \in Handlers, NEW s \in Choices, Save(h, s)
    PROVE  Shape'
<1>0. SaveTo(h, s)
  BY SaveMoves
<1> USE GuardConstants DEF Shape
<1>1. FileTypes' /\ FilterTypes'
  BY <1>0 DEF Save, SaveTo, FileTypes, FilterTypes, Choices, wishVars, guardVars
<1>2. FlagTypes'
  BY <1>0 DEF Save, SaveTo, FlagTypes, wishVars, guardVars
<1>3. LeftTypes'
  BY DEF Save, LeftTypes
<1>4. RecordTyped'
  BY <1>0 DEF Save, RecordTyped, SaveTo, Only, Same, Moved, Keeps, Goroutines
<1>5. Places'
  BY <1>0
     DEF Save, SaveTo, Places, LoopAt, HandlerAt, At, SavePlaces, SyncLabels, HoldLabels,
         PreServe, Goroutines, Only, Same, Moved, Keeps
<1> QED  BY <1>0, <1>1, <1>2, <1>3, <1>4, <1>5 DEF SaveTo

\* Types and places, after the choice whether a change of settings needs a restart.
LEMMA ChooseShape ==
    ASSUME Shape, NEW h \in Handlers, Choose(h)
    PROVE  Shape'
<1>0. ChooseTo(h)
  BY ChooseMoves
<1> USE GuardConstants DEF Shape
<1>1. FileTypes' /\ FilterTypes'
  BY <1>0
     DEF Choose, ChooseTo, FileTypes, FilterTypes, Choices, cfgVars, wishVars, runVars,
         guardVars
<1>2. FlagTypes'
  BY <1>0 DEF Choose, ChooseTo, FlagTypes, cfgVars, wishVars, runVars, guardVars
<1>3. LeftTypes'
  BY DEF Choose, LeftTypes
<1>4. RecordTyped'
  BY <1>0
     DEF Choose, RecordTyped, ChooseTo, Only, Same, Moved, Answered, Synced, Keeps, Fresh,
         Goroutines
<1>5. Places'
  BY <1>0
     DEF Choose, ChooseTo, Places, LoopAt, HandlerAt, At, SavePlaces, SyncLabels,
         HoldLabels, PreServe, Goroutines, Only, Same, Moved, Answered, Synced, Keeps, Fresh
<1> QED  BY <1>0, <1>1, <1>2, <1>3, <1>4, <1>5 DEF ChooseTo

\* Types and places, after the hold of the guard before a restart.
LEMMA HoldShape ==
    ASSUME Shape, NEW h \in Handlers, Hold(h)
    PROVE  Shape'
<1>0. HoldTo(h)
  BY HoldMoves
<1> USE GuardConstants DEF Shape
<1>1. FileTypes' /\ FilterTypes'
  BY <1>0 DEF Hold, HoldTo, FileTypes, FilterTypes, Choices, cfgVars, wishVars, runVars
<1>2. FlagTypes'
  BY <1>0 DEF Hold, HoldTo, FlagTypes, cfgVars, wishVars, runVars
<1>3. LeftTypes'
  BY DEF Hold, LeftTypes
<1>4. RecordTyped'
  BY <1>0 DEF Hold, RecordTyped, HoldTo, Only, Same, Moved, Keeps, Goroutines
<1>5. Places'
  BY <1>0
     DEF Hold, HoldTo, Places, LoopAt, HandlerAt, At, SavePlaces, SyncLabels, HoldLabels,
         PreServe, Goroutines, Only, Same, Moved, Keeps
<1> QED  BY <1>0, <1>1, <1>2, <1>3, <1>4, <1>5 DEF HoldTo

\* Types and places, after RestartChecked's start of the new data plane.
LEMMA StartCheckedShape ==
    ASSUME Shape, NEW h \in Handlers, StartChecked(h)
    PROVE  Shape'
<1>0. StartCheckedTo(h)
  BY StartCheckedMoves
<1> USE GuardConstants DEF Shape
<1>1. FileTypes' /\ FilterTypes'
  BY <1>0
     DEF StartChecked, PlaneFor, Fault, NoFault, StartCheckedTo, FileTypes, FilterTypes,
         Choices, cfgVars, wishVars, guardVars
<1>2. FlagTypes'
  BY <1>0
     DEF StartChecked, PlaneFor, Fault, NoFault, StartCheckedTo, FlagTypes, cfgVars,
         wishVars, guardVars
<1>3. LeftTypes'
  BY DEF StartChecked, PlaneFor, Fault, NoFault, LeftTypes
<1>4. RecordTyped'
  BY <1>0
     DEF StartChecked, PlaneFor, Fault, NoFault, RecordTyped, StartCheckedTo, Only, Same,
         Moved, Keeps, Goroutines
<1>5. Places'
  BY <1>0
     DEF StartChecked, PlaneFor, Fault, NoFault, StartCheckedTo, Places, LoopAt, HandlerAt,
         At, SavePlaces, SyncLabels, HoldLabels, PreServe, Goroutines, Only, Same, Moved,
         Keeps
<1> QED  BY <1>0, <1>1, <1>2, <1>3, <1>4, <1>5 DEF StartCheckedTo

\* Types and places, after the new data plane handed to a run goroutine.
LEMMA StartedShape ==
    ASSUME Shape, NEW h \in Handlers, Started(h)
    PROVE  Shape'
<1>0. StartedTo(h)
  BY StartedMoves
<1> USE GuardConstants DEF Shape
<1>1. FileTypes' /\ FilterTypes'
  BY <1>0
     DEF Started, StartedTo, FileTypes, FilterTypes, Choices, cfgVars, wishVars, guardVars
<1>2. FlagTypes'
  BY <1>0 DEF Started, StartedTo, FlagTypes, cfgVars, wishVars, guardVars
<1>3. LeftTypes'
  BY DEF Started, LeftTypes
<1>4. RecordTyped'
  BY <1>0 DEF Started, RecordTyped, StartedTo, Same, Moved, Keeps, OnlyRun, Goroutines
<1>5. Places'
  <2>1. LoopAt'
    BY <1>0
       DEF Started, StartedTo, Places, LoopAt, HandlerAt, At, SavePlaces, SyncLabels,
           HoldLabels, PreServe, Goroutines, Same, Moved, Keeps, OnlyRun
  <2>2. ASSUME NEW k \in Handlers, k # h PROVE HandlerAt(k)'
    BY <1>0, <2>2, SameHandler DEF StartedTo, OnlyRun, Goroutines, Places
  <2>3. HandlerAt(h)'
    <3>1. loc[h].op = "save"
      BY DEF Started, Places, HandlerAt, At, SyncLabels, HoldLabels
    <3> QED  BY <1>0, <3>1 DEF StartedTo, Moved, Keeps, HandlerAt, At, SavePlaces
  <2> QED  BY <2>1, <2>2, <2>3 DEF Places
<1> QED  BY <1>0, <1>1, <1>2, <1>3, <1>4, <1>5 DEF StartedTo

\* Types and places, after the rollback of a tightening.
LEMMA RollbackShape ==
    ASSUME Shape, NEW h \in Handlers, Rollback(h)
    PROVE  Shape'
<1>0. RollbackTo(h)
  BY RollbackMoves
<1> USE GuardConstants DEF Shape
<1>1. FileTypes' /\ FilterTypes'
  BY <1>0
     DEF Rollback, NoFault, Wished, NotWished, RolledBack, RollbackTo, FileTypes,
         FilterTypes, Choices, PlaceTypes, Locals, Goroutines, guardVars
<1>2. FlagTypes'
  BY <1>0
     DEF Rollback, NoFault, Wished, NotWished, RolledBack, RollbackTo, FlagTypes, guardVars
<1>3. LeftTypes'
  BY DEF Rollback, NoFault, LeftTypes
<1>4. RecordTyped'
  BY <1>0
     DEF Rollback, NoFault, RecordTyped, RollbackTo, Same, Moved, Keeps, Fresh, OnlyRun,
         RunKept, Goroutines
<1>5. Places'
  BY <1>0
     DEF Rollback, NoFault, RollbackTo, Places, LoopAt, HandlerAt, At, SavePlaces,
         SyncLabels, HoldLabels, PreServe, Goroutines, Same, Moved, Keeps, Fresh, OnlyRun,
         RunKept
<1> QED  BY <1>0, <1>1, <1>2, <1>3, <1>4, <1>5 DEF RollbackTo

\* Types and places, after the end of a privacy transaction.
LEMMA SettleShape ==
    ASSUME Shape, NEW h \in Handlers, Settle(h)
    PROVE  Shape'
<1>0. SettleTo(h)
  BY SettleMoves
<1> USE GuardConstants DEF Shape
<1>1. FileTypes' /\ FilterTypes'
  BY <1>0 DEF Settle, SettleTo, FileTypes, FilterTypes, Choices, cfgVars, wishVars, runVars
<1>2. FlagTypes'
  BY <1>0 DEF Settle, SettleTo, FlagTypes, cfgVars, wishVars, runVars
<1>3. LeftTypes'
  BY DEF Settle, LeftTypes
<1>4. RecordTyped'
  BY <1>0 DEF Settle, RecordTyped, SettleTo, Only, Same, Synced, Keeps, Goroutines
<1>5. Places'
  BY <1>0
     DEF Settle, SettleTo, Places, LoopAt, HandlerAt, At, SavePlaces, SyncLabels,
         HoldLabels, PreServe, Goroutines, Only, Same, Synced, Keeps
<1> QED  BY <1>0, <1>1, <1>2, <1>3, <1>4, <1>5 DEF SettleTo

\* Types and places, after its early return.
LEMMA AbandonShape ==
    ASSUME Shape, NEW h \in Handlers, Abandon(h)
    PROVE  Shape'
<1>0. AbandonTo(h)
  BY AbandonMoves
<1> USE GuardConstants DEF Shape
<1>1. FileTypes' /\ FilterTypes'
  BY <1>0
     DEF Abandon, AbandonTo, FileTypes, FilterTypes, Choices, cfgVars, wishVars, runVars
<1>2. FlagTypes'
  BY <1>0 DEF Abandon, AbandonTo, FlagTypes, cfgVars, wishVars, runVars
<1>3. LeftTypes'
  BY DEF Abandon, LeftTypes
<1>4. RecordTyped'
  BY <1>0 DEF Abandon, RecordTyped, AbandonTo, Only, Same, Answered, Fresh, Goroutines
<1>5. Places'
  BY <1>0
     DEF Abandon, AbandonTo, Places, LoopAt, HandlerAt, At, SavePlaces, SyncLabels,
         HoldLabels, PreServe, Goroutines, Only, Same, Answered, Fresh
<1> QED  BY <1>0, <1>1, <1>2, <1>3, <1>4, <1>5 DEF AbandonTo

\* Types and places, after the loop of the run goroutine.
LEMMA RunLoopShape ==
    ASSUME Shape, RunLoop
    PROVE  Shape'
<1>0. RunLoopTo
  BY RunLoopMoves
<1> USE GuardConstants DEF Shape
<1>1. FileTypes' /\ FilterTypes'
  BY <1>0
     DEF RunLoop, RunLoopTo, FileTypes, FilterTypes, Choices, cfgVars, wishVars, runVars,
         guardVars
<1>2. FlagTypes'
  BY <1>0 DEF RunLoop, RunLoopTo, FlagTypes, cfgVars, wishVars, runVars, guardVars
<1>3. LeftTypes'
  BY DEF RunLoop, LeftTypes
<1>4. RecordTyped'
  BY <1>0 DEF RunLoop, RecordTyped, RunLoopTo, Only, Same, Moved, Keeps, Goroutines
<1>5. Places'
  BY <1>0
     DEF RunLoop, RunLoopTo, Places, LoopAt, HandlerAt, At, SavePlaces, SyncLabels,
         HoldLabels, PreServe, Goroutines, Only, Same, Moved, Keeps
<1> QED  BY <1>0, <1>1, <1>2, <1>3, <1>4, <1>5 DEF RunLoopTo

\* Types and places, after the run goroutine's configuration being built.
LEMMA RunBuiltShape ==
    ASSUME Shape, RunBuilt
    PROVE  Shape'
<1>0. RunBuiltTo
  BY RunBuiltMoves
<1> USE GuardConstants DEF Shape
<1>1. FileTypes' /\ FilterTypes'
  BY <1>0
     DEF RunBuilt, Fault, NoFault, RunBuiltTo, FileTypes, FilterTypes, Choices, cfgVars,
         wishVars, runVars, guardVars
<1>2. FlagTypes'
  BY <1>0
     DEF RunBuilt, Fault, NoFault, RunBuiltTo, FlagTypes, cfgVars, wishVars, runVars,
         guardVars
<1>3. LeftTypes'
  BY DEF RunBuilt, Fault, NoFault, LeftTypes
<1>4. RecordTyped'
  BY <1>0 DEF RunBuilt, Fault, NoFault, RecordTyped, RunBuiltTo, Only, Same, Goroutines
<1>5. Places'
  BY <1>0
     DEF RunBuilt, Fault, NoFault, RunBuiltTo, Places, LoopAt, HandlerAt, At, SavePlaces,
         SyncLabels, HoldLabels, PreServe, Goroutines, Only, Same
<1> QED  BY <1>0, <1>1, <1>2, <1>3, <1>4, <1>5 DEF RunBuiltTo

\* Types and places, after the run goroutine's start of the core.
LEMMA RunStartShape ==
    ASSUME Shape, RunStart
    PROVE  Shape'
<1>0. RunStartTo
  BY RunStartMoves
<1> USE GuardConstants DEF Shape
<1>1. FileTypes' /\ FilterTypes'
  BY <1>0
     DEF RunStart, PlaneFor, Fault, NoFault, RunStartTo, FileTypes, FilterTypes, Choices,
         cfgVars, wishVars, guardVars
<1>2. FlagTypes'
  BY <1>0
     DEF RunStart, PlaneFor, Fault, NoFault, RunStartTo, FlagTypes, cfgVars, wishVars,
         guardVars
<1>3. LeftTypes'
  BY DEF RunStart, PlaneFor, Fault, NoFault, LeftTypes
<1>4. RecordTyped'
  BY <1>0
     DEF RunStart, PlaneFor, Fault, NoFault, RecordTyped, RunStartTo, Only, Same, Goroutines
<1>5. Places'
  BY <1>0
     DEF RunStart, PlaneFor, Fault, NoFault, RunStartTo, Places, LoopAt, HandlerAt, At,
         SavePlaces, SyncLabels, HoldLabels, PreServe, Goroutines, Only, Same
<1> QED  BY <1>0, <1>1, <1>2, <1>3, <1>4, <1>5 DEF RunStartTo

\* Types and places, after the watch over a running core.
LEMMA RunUpShape ==
    ASSUME Shape, RunUp
    PROVE  Shape'
<1>0. RunUpTo
  BY RunUpMoves
<1> USE GuardConstants DEF Shape
<1>1. FileTypes' /\ FilterTypes'
  BY <1>0
     DEF RunUp, Fault, NoFault, RunUpTo, FileTypes, FilterTypes, Choices, cfgVars, wishVars,
         guardVars
<1>2. FlagTypes'
  BY <1>0 DEF RunUp, Fault, NoFault, RunUpTo, FlagTypes, cfgVars, wishVars, guardVars
<1>3. LeftTypes'
  BY DEF RunUp, Fault, NoFault, LeftTypes
<1>4. RecordTyped'
  BY <1>0
     DEF RunUp, Fault, NoFault, RecordTyped, RunUpTo, Only, Same, Moved, Keeps, Goroutines
<1>5. Places'
  BY <1>0
     DEF RunUp, Fault, NoFault, RunUpTo, Places, LoopAt, HandlerAt, At, SavePlaces,
         SyncLabels, HoldLabels, PreServe, Goroutines, Only, Same, Moved, Keeps
<1> QED  BY <1>0, <1>1, <1>2, <1>3, <1>4, <1>5 DEF RunUpTo

\* Types and places, after guardWatchLoop.
LEMMA WatchShape ==
    ASSUME Shape, Watch
    PROVE  Shape'
<1>0. WatchTo
  BY WatchMoves
<1> USE GuardConstants DEF Shape
<1>1. FileTypes' /\ FilterTypes'
  BY <1>0
     DEF Watch, WatchTo, FileTypes, FilterTypes, Choices, cfgVars, wishVars, runVars,
         guardVars
<1>2. FlagTypes'
  BY <1>0 DEF Watch, WatchTo, FlagTypes, cfgVars, wishVars, runVars, guardVars
<1>3. LeftTypes'
  BY DEF Watch, LeftTypes
<1>4. RecordTyped'
  BY <1>0 DEF Watch, RecordTyped, WatchTo, Only, Same, Synced, Keeps, Goroutines
<1>5. Places'
  BY <1>0
     DEF Watch, WatchTo, Places, LoopAt, HandlerAt, At, SavePlaces, SyncLabels, HoldLabels,
         PreServe, Goroutines, Only, Same, Synced, Keeps
<1> QED  BY <1>0, <1>1, <1>2, <1>3, <1>4, <1>5 DEF WatchTo

\* Types and places, after the start of the service.
LEMMA BootShape ==
    ASSUME Shape, Boot
    PROVE  Shape'
<1>0. BootTo
  BY BootMoves
<1> USE GuardConstants DEF Shape
<1>1. FileTypes' /\ FilterTypes'
  BY <1>0 DEF Boot, BootTo, FileTypes, FilterTypes, Choices, Default, runVars
<1>2. FlagTypes'
  BY <1>0 DEF Boot, BootTo, FlagTypes, runVars
<1>3. LeftTypes'
  BY DEF Boot, LeftTypes
<1>4. RecordTyped'
  BY <1>0 DEF Boot, RecordTyped, BootTo, Same, Goroutines
<1>5. Places'
  <2>1. LoopAt'
    BY <1>0
       DEF Boot, BootTo, Places, LoopAt, HandlerAt, At, SavePlaces, SyncLabels, HoldLabels,
           PreServe, Goroutines, Same
  <2>2. ASSUME NEW k \in Handlers PROVE HandlerAt(k)'
    <3>1. Same(k)
      BY <1>0 DEF BootTo, Same, Goroutines
    <3> QED  BY <3>1, SameHandler DEF Places
  <2> QED  BY <2>1, <2>2 DEF Places
<1> QED  BY <1>0, <1>1, <1>2, <1>3, <1>4, <1>5 DEF BootTo

\* Types and places, after the reconciliation of the filter found in place.
LEMMA ReconcileShape ==
    ASSUME Shape, Reconcile
    PROVE  Shape'
<1>0. ReconcileTo
  BY ReconcileMoves
<1> USE GuardConstants DEF Shape
<1>1. FileTypes' /\ FilterTypes'
  BY <1>0
     DEF Reconcile, ReconcileTo, FileTypes, FilterTypes, Choices, cfgVars, wishVars, runVars
<1>2. FlagTypes'
  <2>1. UNCHANGED <<trusted, early, undone, wanted, bootWanted, closed, asked>>
    BY DEF Reconcile, cfgVars, wishVars
  <2>2. UNCHANGED <<cancelled, late, guardHold>>
    BY DEF Reconcile, runVars
  <2>3. {owed', guardOn'} \subseteq BOOLEAN
    BY DEF Reconcile, FlagTypes
  <2> QED  BY <2>1, <2>2, <2>3 DEF FlagTypes
<1>3. LeftTypes'
  BY DEF Reconcile, LeftTypes
<1>4. RecordTyped'
  BY <1>0 DEF Reconcile, RecordTyped, ReconcileTo, Only, Same, Moved, Keeps, Goroutines
<1>5. Places'
  BY <1>0
     DEF Reconcile, ReconcileTo, Places, LoopAt, HandlerAt, At, SavePlaces, SyncLabels,
         HoldLabels, PreServe, Goroutines, Only, Same, Moved, Keeps
<1> QED  BY <1>0, <1>1, <1>2, <1>3, <1>4, <1>5 DEF ReconcileTo

\* Types and places, after the automatic connection.
LEMMA AutoConnectShape ==
    ASSUME Shape, AutoConnect
    PROVE  Shape'
<1>0. AutoConnectTo
  BY AutoConnectMoves
<1> USE GuardConstants DEF Shape
<1>1. FileTypes' /\ FilterTypes'
  BY <1>0
     DEF AutoConnect, Wished, NotWished, AutoConnectTo, FileTypes, FilterTypes, Choices,
         cfgVars, guardVars
<1>2. FlagTypes'
  BY <1>0 DEF AutoConnect, Wished, NotWished, AutoConnectTo, FlagTypes, cfgVars, guardVars
<1>3. LeftTypes'
  BY DEF AutoConnect, LeftTypes
<1>4. RecordTyped'
  BY <1>0
     DEF AutoConnect, RecordTyped, AutoConnectTo, Same, Moved, Keeps, Fresh, OnlyRun,
         RunKept, Goroutines
<1>5. Places'
  BY <1>0
     DEF AutoConnect, AutoConnectTo, Places, LoopAt, HandlerAt, At, SavePlaces, SyncLabels,
         HoldLabels, PreServe, Goroutines, Same, Moved, Keeps, Fresh, OnlyRun, RunKept
<1> QED  BY <1>0, <1>1, <1>2, <1>3, <1>4, <1>5 DEF AutoConnectTo

\* Types and places, after the shutdown.
LEMMA ShutdownShape ==
    ASSUME Shape, Shutdown
    PROVE  Shape'
<1>0. ShutdownTo
  BY ShutdownMoves
<1> USE GuardConstants DEF Shape
<1>1. FileTypes' /\ FilterTypes'
  BY <1>0
     DEF Shutdown, ShutdownTo, FileTypes, FilterTypes, Choices, cfgVars, wishVars, guardVars
<1>2. FlagTypes'
  BY <1>0 DEF Shutdown, ShutdownTo, FlagTypes, cfgVars, wishVars, guardVars
<1>3. LeftTypes'
  BY DEF Shutdown, LeftTypes
<1>4. RecordTyped'
  BY <1>0 DEF Shutdown, RecordTyped, ShutdownTo, Only, Same, Moved, Keeps, Goroutines
<1>5. Places'
  BY <1>0
     DEF Shutdown, ShutdownTo, Places, LoopAt, HandlerAt, At, SavePlaces, SyncLabels,
         HoldLabels, PreServe, Goroutines, Only, Same, Moved, Keeps
<1> QED  BY <1>0, <1>1, <1>2, <1>3, <1>4, <1>5 DEF ShutdownTo

\* Types and places, after the end of the process.
LEMMA ExitShape ==
    ASSUME Shape, Exit
    PROVE  Shape'
<1>1. Emptied
  BY DEF Exit, Die, Emptied
<1>2. PlaceTypes' /\ RecordTyped' /\ Places'
  BY <1>1, EmptiedMoves
     DEF RecordTyped, Places, LoopAt, HandlerAt, At, SavePlaces, SyncLabels, HoldLabels,
         PreServe, Goroutines, Fresh
<1>3. FileTypes'
  BY DEF Exit, Die, Shape, FileTypes, Choices, Default
<1>4. FlagTypes'
  BY DEF Exit, Die, FlagTypes
<1>5. FilterTypes'
  BY DEF Exit, Die, Shape, FilterTypes
<1>6. LeftTypes'
  BY DEF Exit, Shape, LeftTypes
<1> QED  BY <1>2, <1>3, <1>4, <1>5, <1>6 DEF Shape

\* Types and places, after a crash or a power cut.
LEMMA KillShape ==
    ASSUME Shape, Kill
    PROVE  Shape'
<1>1. Emptied
  BY DEF Kill, Die, Emptied
<1>2. PlaceTypes' /\ RecordTyped' /\ Places'
  BY <1>1, EmptiedMoves
     DEF RecordTyped, Places, LoopAt, HandlerAt, At, SavePlaces, SyncLabels, HoldLabels,
         PreServe, Goroutines, Fresh
<1>3. FileTypes'
  BY DEF Kill, Die, Fault, Shape, FileTypes, Choices, Default
<1>4. FlagTypes'
  BY DEF Kill, Die, Fault, FlagTypes
<1>5. FilterTypes'
  BY DEF Kill, Die, Fault, Shape, FilterTypes
<1>6. LeftTypes'
  <2>1. Fault /\ LeftTypes
    BY DEF Kill, Shape
  <2> QED  BY <2>1, GuardConstants DEF Fault, LeftTypes
<1> QED  BY <1>2, <1>3, <1>4, <1>5, <1>6 DEF Shape

\* Types and places, after a request to stop the service.
LEMMA StopShape ==
    ASSUME Shape, Stop
    PROVE  Shape'
<1>0. StopTo
  BY StopMoves
<1> USE GuardConstants DEF Shape
<1>1. FileTypes' /\ FilterTypes'
  BY <1>0
     DEF Stop, Fault, StopTo, FileTypes, FilterTypes, Choices, cfgVars, runVars, guardVars
<1>2. FlagTypes'
  BY <1>0 DEF Stop, Fault, StopTo, FlagTypes, cfgVars, runVars, guardVars
<1>3. LeftTypes'
  BY DEF Stop, Fault, LeftTypes
<1>4. RecordTyped'
  BY <1>0 DEF Stop, Fault, RecordTyped, StopTo, Only, Same, Moved, Keeps, Goroutines
<1>5. Places'
  BY <1>0
     DEF Stop, Fault, StopTo, Places, LoopAt, HandlerAt, At, SavePlaces, SyncLabels,
         HoldLabels, PreServe, Goroutines, Only, Same, Moved, Keeps
<1> QED  BY <1>0, <1>1, <1>2, <1>3, <1>4, <1>5 DEF StopTo

\* Types and places, after another program flushing the filter.
LEMMA TamperShape ==
    ASSUME Shape, Tamper
    PROVE  Shape'
<1> USE GuardConstants DEF Shape
<1>1. FileTypes' /\ FlagTypes' /\ FilterTypes'
  BY DEF Tamper, FileTypes, FlagTypes, FilterTypes, cfgVars, wishVars, runVars
<1>2. LeftTypes'
  BY DEF Tamper, Fault, LeftTypes
<1>3. PlaceTypes' /\ RecordTyped' /\ Places'
  BY DEF Tamper, PlaceTypes, RecordTyped, Places, LoopAt, HandlerAt, At
<1> QED  BY <1>1, <1>2, <1>3

\* Before the first start everything is in shape.
LEMMA ShapeInit ==
    ASSUME Init
    PROVE  Shape
<1>1. /\ pc \in [Goroutines -> Labels] /\ pc["boot"] = "dead" /\ pc["run"] = "off"
      /\ pc["watch"] = "idle" /\ \A h \in Handlers : pc[h] = "idle"
      /\ \A g \in Goroutines : pc[g] \in {"idle", "off", "dead"}
  BY GuardConstants DEF Init, Goroutines, Labels
<1>2. /\ loc \in [Goroutines -> Locals]
      /\ \A h \in Handlers : loc[h].op = "none"
  BY FreshLocal DEF Init, Goroutines, NoLocal
<1>3. FileTypes /\ FlagTypes /\ FilterTypes
  BY DEF Init, FileTypes, FlagTypes, FilterTypes, Choices, Default, GuardSpec
<1>4. LeftTypes
  BY GuardConstants DEF Init, LeftTypes
<1>5. RecordTyped /\ Places
  BY <1>1, <1>2 DEF RecordTyped, Places, LoopAt, HandlerAt, At
<1> QED  BY <1>1, <1>2, <1>3, <1>4, <1>5 DEF Shape, PlaceTypes

\* Every step keeps the shape.
LEMMA ShapeNext ==
    ASSUME Shape, [Next]_vars
    PROVE  Shape'
<1>1. ASSUME NEW g \in Goroutines, GoroutineStep(g)  PROVE Shape'
  BY <1>1, SyncEnterShape, SyncLockShape, SyncDecideShape, InstallShape, RecordShape,
     ClearShape, ClearedShape, GuardReadyShape, GuardGoneShape, TunUpShape, PrepareShape
     DEF GoroutineStep, SyncStep
<1>2. ASSUME NEW h \in Handlers, HandlerStep(h)  PROVE Shape'
  BY <1>2, ConnectShape, RemoveWriteShape, RemoveForgetShape, DisconnectShape, UnholdShape,
     HaltShape, BuiltShape, SwapShape, SaveShape, ChooseShape, HoldShape, StartCheckedShape,
     StartedShape, RollbackShape, SettleShape, AbandonShape DEF HandlerStep
<1>3. CASE RunStep \/ Watch
  BY <1>3, RunLoopShape, RunBuiltShape, RunStartShape, RunUpShape, WatchShape DEF RunStep
<1>4. CASE BootStep
  BY <1>4, BootShape, ReconcileShape, AutoConnectShape, ShutdownShape, ExitShape
     DEF BootStep
<1>5. ASSUME NEW h \in Handlers, NEW op \in AllOps, Call(h, op)  PROVE Shape'
  BY <1>5, CallShape
<1>6. CASE Stop \/ Kill \/ Tamper
  BY <1>6, StopShape, KillShape, TamperShape
<1>7. CASE UNCHANGED vars
  <2>1. FileTypes' /\ FlagTypes' /\ FilterTypes' /\ LeftTypes' /\ PlaceTypes'
    BY <1>7
       DEF Shape, FileTypes, FlagTypes, FilterTypes, LeftTypes, PlaceTypes, vars, cfgVars,
           wishVars, runVars, guardVars
  <2>2. RecordTyped' /\ Places'
    BY <1>7 DEF Shape, RecordTyped, Places, LoopAt, HandlerAt, At, vars
  <2> QED  BY <2>1, <2>2 DEF Shape
<1> QED  BY <1>1, <1>2, <1>3, <1>4, <1>5, <1>6, <1>7 DEF Next, Progress

\* Every variable keeps its type and every goroutine is at a place its call knows, for any
\* number of handlers, calls and faults, and whatever the handlers are called with.
THEOREM GuardAlways == Spec => []Shape
<1>1. Init => Shape
  BY ShapeInit
<1>2. Shape /\ [Next]_vars => Shape'
  BY ShapeNext
<1> QED  BY <1>1, <1>2, PTL DEF Spec

\* The type invariant of the guard.
THEOREM GuardTypes == Spec => []TypeOK
<1>1. Shape => TypeOK
  BY DEF Shape, FileTypes, FlagTypes, FilterTypes, LeftTypes, PlaceTypes, TypeOK
<1> QED  BY <1>1, GuardAlways, PTL

\* Nobody is at work: no handler, no connection, no privacy transaction
Quiet == /\ \A h \in Handlers : pc[h] = "idle"
         /\ pc["run"] = "off" /\ ~wanted /\ ~guardHold

\* Until the boot sequence has ended nobody is at work, and the wish is the
\* one read from the state file, unless a handler was called early.
Dormant ==
    /\ closed => pc["boot"] \in {"closing", "halt"}
    /\ pc["boot"] = "dead" =>
          Quiet /\ pc["watch"] = "idle" /\ ~bootWanted /\ guardApplied = "none"
    /\ pc["boot"] \in PreServe /\ ~early =>
          Quiet /\ (bootWanted <=> (disk = "yes" /\ trusted))

AskedIsWish == asked <=> WantConnected

\* A removal that is about to happen was right when it was decided: what has
\* changed since did so while guardMu was taken, or while the boot sequence,
\* which does not take it, was under way.
Opening(g) == pc[g] = "clear" \/ (pc[g] = "decide" /\ loc[g].act # "want")
ClearIsJudged == \A g \in Goroutines :
    Opening(g) => ~GuardWanted \/ (IF g = "boot" THEN early ELSE late)

\* opMu has one holder, and Shutdown waits for it
CoreAlone == \A h \in Handlers : pc[h] \in CoreLabels =>
    /\ pc["boot"] # "halt"
    /\ \A k \in Handlers : pc[k] \in CoreLabels => k = h

Judged == Dormant /\ AskedIsWish /\ ClearIsJudged /\ CoreAlone

\* Nobody is sent to a removal by this step
NoneOpens == \A g \in Goroutines :
    /\ pc'[g] = "clear" => pc[g] = "clear"
    /\ pc'[g] = "decide" => pc[g] = "decide" /\ loc'[g].act = loc[g].act

\* A change of wish or settings overtakes the judgements under way, and only those.
LEMMA LateJudged ==
    ASSUME NoneOpens, late' = ~GuardMuFree, pc["boot"] \in HoldLabels => early'
    PROVE  ClearIsJudged'
<1> SUFFICES ASSUME NEW g \in Goroutines, pc'[g] = "clear" \/ pc'[g] = "decide"
             PROVE  IF g = "boot" THEN early' ELSE late'
  BY DEF ClearIsJudged, Opening
<1>1. pc[g] \in HoldLabels
  BY DEF NoneOpens, HoldLabels
<1> QED  BY <1>1 DEF GuardMuFree

\* A judgement stands where neither wish nor settings change.
LEMMA SameJudged ==
    ASSUME ClearIsJudged, NoneOpens, late' = late,
           GuardWanted' => GuardWanted, early => early'
    PROVE  ClearIsJudged'
BY DEF ClearIsJudged, Opening, NoneOpens

\* A removal at hand is still a right one, or an overtaken one, after the entry to syncGuard.
LEMMA SyncEnterJudged ==
    ASSUME Shape, Judged, NEW g \in Goroutines, SyncEnter(g)
    PROVE  Judged'
<1>0. SyncEnterTo(g)
  BY SyncEnterMoves
<1> USE GuardConstants DEF Shape, Judged
<1>1. Dormant'
  BY <1>0
     DEF SyncEnter, SyncEnterTo, Dormant, Quiet, Places, LoopAt, HandlerAt, At, SavePlaces,
         SyncLabels, HoldLabels, PreServe, Goroutines, Only, Same, Moved, Returned,
         Answered, Keeps, Fresh, cfgVars, wishVars, runVars
<1>2. AskedIsWish'
  BY <1>0 DEF SyncEnter, SyncEnterTo, AskedIsWish, WantConnected, cfgVars, wishVars, runVars
<1>3. ClearIsJudged'
  BY <1>0
     DEF SyncEnter, SyncEnterTo, ClearIsJudged, Opening, WantConnected, GuardWanted,
         Dormant, Quiet, Places, LoopAt, HandlerAt, At, SavePlaces, SyncLabels, HoldLabels,
         PreServe, Goroutines, Only, Same, Moved, Returned, Answered, Keeps, Fresh, cfgVars,
         wishVars, runVars
<1>4. CoreAlone'
  BY <1>0
     DEF SyncEnter, SyncEnterTo, CoreAlone, CoreLabels, Places, LoopAt, HandlerAt, At,
         SavePlaces, SyncLabels, HoldLabels, PreServe, Goroutines, Only, Same, Moved,
         Returned, Answered, Keeps, Fresh
<1> QED  BY <1>1, <1>2, <1>3, <1>4

\* A removal at hand is still a right one, or an overtaken one, after taking guardMu and reading what is wanted.
LEMMA SyncLockJudged ==
    ASSUME Shape, Judged, NEW g \in Goroutines, SyncLock(g)
    PROVE  Judged'
<1>0. SyncLockTo(g)
  BY SyncLockMoves
<1> USE GuardConstants DEF Shape, Judged
<1>1. Dormant'
  BY <1>0
     DEF SyncLock, SyncLockTo, Dormant, Quiet, Places, LoopAt, HandlerAt, At, SavePlaces,
         SyncLabels, HoldLabels, PreServe, Goroutines, Only, Same, Keeps, cfgVars, wishVars,
         guardVars
<1>2. AskedIsWish'
  BY <1>0 DEF SyncLock, SyncLockTo, AskedIsWish, WantConnected, cfgVars, wishVars, guardVars
<1>3. ClearIsJudged'
  BY <1>0
     DEF SyncLock, SyncLockTo, ClearIsJudged, Opening, GuardMuFree, WantConnected,
         GuardWanted, Dormant, Quiet, Places, LoopAt, HandlerAt, At, SavePlaces, SyncLabels,
         HoldLabels, PreServe, Goroutines, Only, Same, Keeps, cfgVars, wishVars, guardVars
<1>4. CoreAlone'
  BY <1>0 DEF SyncLock, SyncLockTo, CoreAlone, CoreLabels, Goroutines, Only, Same, Keeps
<1> QED  BY <1>1, <1>2, <1>3, <1>4

\* A removal at hand is still a right one, or an overtaken one, after the second shutdown check and the four cases.
LEMMA SyncDecideJudged ==
    ASSUME Shape, Judged, NEW g \in Goroutines, SyncDecide(g)
    PROVE  Judged'
<1>0. SyncDecideTo(g)
  BY SyncDecideMoves
<1> USE GuardConstants DEF Shape, Judged
<1>1. Dormant'
  BY <1>0
     DEF SyncDecide, Fault, NoFault, SyncDecideTo, Dormant, Quiet, Places, LoopAt,
         HandlerAt, At, SavePlaces, SyncLabels, HoldLabels, PreServe, Goroutines, Only,
         Same, Moved, Returned, Answered, Keeps, Fresh, cfgVars, wishVars, runVars
<1>2. AskedIsWish'
  BY <1>0
     DEF SyncDecide, Fault, NoFault, SyncDecideTo, AskedIsWish, WantConnected, cfgVars,
         wishVars, runVars
<1>3. ClearIsJudged'
  BY <1>0
     DEF SyncDecide, Fault, NoFault, SyncDecideTo, ClearIsJudged, Opening, WantConnected,
         GuardWanted, Dormant, Quiet, Places, LoopAt, HandlerAt, At, SavePlaces, SyncLabels,
         HoldLabels, PreServe, Goroutines, Only, Same, Moved, Returned, Answered, Keeps,
         Fresh, cfgVars, wishVars, runVars
<1>4. CoreAlone'
  BY <1>0
     DEF SyncDecide, Fault, NoFault, SyncDecideTo, CoreAlone, CoreLabels, Places, LoopAt,
         HandlerAt, At, SavePlaces, SyncLabels, HoldLabels, PreServe, Goroutines, Only,
         Same, Moved, Returned, Answered, Keeps, Fresh
<1> QED  BY <1>1, <1>2, <1>3, <1>4

\* A removal at hand is still a right one, or an overtaken one, after applyGuard's transaction.
LEMMA InstallJudged ==
    ASSUME Shape, Judged, NEW g \in Goroutines, Install(g)
    PROVE  Judged'
<1>0. InstallTo(g)
  BY InstallMoves
<1> USE GuardConstants DEF Shape, Judged
<1>1. Dormant'
  BY <1>0
     DEF Install, Fault, NoFault, InstallTo, Dormant, Quiet, Places, LoopAt, HandlerAt, At,
         SavePlaces, SyncLabels, HoldLabels, PreServe, Goroutines, Only, Same, Returned,
         Answered, Keeps, Fresh, cfgVars, wishVars, runVars
<1>2. AskedIsWish'
  BY <1>0
     DEF Install, Fault, NoFault, InstallTo, AskedIsWish, WantConnected, cfgVars, wishVars,
         runVars
<1>3. ClearIsJudged'
  BY <1>0
     DEF Install, Fault, NoFault, InstallTo, ClearIsJudged, Opening, WantConnected,
         GuardWanted, Dormant, Quiet, Places, LoopAt, HandlerAt, At, SavePlaces, SyncLabels,
         HoldLabels, PreServe, Goroutines, Only, Same, Returned, Answered, Keeps, Fresh,
         cfgVars, wishVars, runVars
<1>4. CoreAlone'
  BY <1>0
     DEF Install, Fault, NoFault, InstallTo, CoreAlone, CoreLabels, Places, LoopAt,
         HandlerAt, At, SavePlaces, SyncLabels, HoldLabels, PreServe, Goroutines, Only,
         Same, Returned, Answered, Keeps, Fresh
<1> QED  BY <1>1, <1>2, <1>3, <1>4

\* A removal at hand is still a right one, or an overtaken one, after the note that the filter is installed.
LEMMA RecordJudged ==
    ASSUME Shape, Judged, NEW g \in Goroutines, Record(g)
    PROVE  Judged'
<1>0. RecordTo(g)
  BY RecordMoves
<1> USE GuardConstants DEF Shape, Judged
<1>1. Dormant'
  BY <1>0
     DEF Record, RecordTo, Dormant, Quiet, Places, LoopAt, HandlerAt, At, SavePlaces,
         SyncLabels, HoldLabels, PreServe, Goroutines, Only, Same, Returned, Answered,
         Keeps, Fresh, cfgVars, wishVars, runVars
<1>2. AskedIsWish'
  BY <1>0 DEF Record, RecordTo, AskedIsWish, WantConnected, cfgVars, wishVars, runVars
<1>3. ClearIsJudged'
  BY <1>0
     DEF Record, RecordTo, ClearIsJudged, Opening, WantConnected, GuardWanted, Dormant,
         Quiet, Places, LoopAt, HandlerAt, At, SavePlaces, SyncLabels, HoldLabels, PreServe,
         Goroutines, Only, Same, Returned, Answered, Keeps, Fresh, cfgVars, wishVars,
         runVars
<1>4. CoreAlone'
  BY <1>0
     DEF Record, RecordTo, CoreAlone, CoreLabels, Places, LoopAt, HandlerAt, At, SavePlaces,
         SyncLabels, HoldLabels, PreServe, Goroutines, Only, Same, Returned, Answered,
         Keeps, Fresh
<1> QED  BY <1>1, <1>2, <1>3, <1>4

\* A removal at hand is still a right one, or an overtaken one, after ClearGuard, taking the filter away.
LEMMA ClearJudged ==
    ASSUME Shape, Judged, NEW g \in Goroutines, Clear(g)
    PROVE  Judged'
<1>0. ClearTo(g)
  BY ClearMoves
<1> USE GuardConstants DEF Shape, Judged
<1>1. Dormant'
  BY <1>0
     DEF Clear, Fault, NoFault, ClearTo, Dormant, Quiet, Places, LoopAt, HandlerAt, At,
         SavePlaces, SyncLabels, HoldLabels, PreServe, Goroutines, Only, Same, Moved,
         Returned, Answered, Keeps, Fresh, cfgVars, wishVars, runVars
<1>2. AskedIsWish'
  BY <1>0
     DEF Clear, Fault, NoFault, ClearTo, AskedIsWish, WantConnected, cfgVars, wishVars,
         runVars
<1>3. ClearIsJudged'
  BY <1>0
     DEF Clear, Fault, NoFault, ClearTo, ClearIsJudged, Opening, WantConnected, GuardWanted,
         Dormant, Quiet, Goroutines, Only, Same, Moved, Returned, Answered, Keeps, Fresh,
         cfgVars, wishVars, runVars
<1>4. CoreAlone'
  BY <1>0
     DEF Clear, Fault, NoFault, ClearTo, CoreAlone, CoreLabels, Places, LoopAt, HandlerAt,
         At, SavePlaces, SyncLabels, HoldLabels, PreServe, Goroutines, Only, Same, Moved,
         Returned, Answered, Keeps, Fresh
<1> QED  BY <1>1, <1>2, <1>3, <1>4

\* A removal at hand is still a right one, or an overtaken one, after the note that the filter is gone.
LEMMA ClearedJudged ==
    ASSUME Shape, Judged, NEW g \in Goroutines, Cleared(g)
    PROVE  Judged'
<1>0. ClearedTo(g)
  BY ClearedMoves
<1> USE GuardConstants DEF Shape, Judged
<1>1. Dormant'
  BY <1>0
     DEF Cleared, ClearedTo, Dormant, Quiet, Places, LoopAt, HandlerAt, At, SavePlaces,
         SyncLabels, HoldLabels, PreServe, Goroutines, Only, Same, Returned, Answered,
         Keeps, Fresh, cfgVars, wishVars, runVars
<1>2. AskedIsWish'
  BY <1>0 DEF Cleared, ClearedTo, AskedIsWish, WantConnected, cfgVars, wishVars, runVars
<1>3. ClearIsJudged'
  BY <1>0
     DEF Cleared, ClearedTo, ClearIsJudged, Opening, WantConnected, GuardWanted, Dormant,
         Quiet, Places, LoopAt, HandlerAt, At, SavePlaces, SyncLabels, HoldLabels, PreServe,
         Goroutines, Only, Same, Returned, Answered, Keeps, Fresh, cfgVars, wishVars,
         runVars
<1>4. CoreAlone'
  BY <1>0
     DEF Cleared, ClearedTo, CoreAlone, CoreLabels, Places, LoopAt, HandlerAt, At,
         SavePlaces, SyncLabels, HoldLabels, PreServe, Goroutines, Only, Same, Returned,
         Answered, Keeps, Fresh
<1> QED  BY <1>1, <1>2, <1>3, <1>4

\* A removal at hand is still a right one, or an overtaken one, after guardReady looking for the filter.
LEMMA GuardReadyJudged ==
    ASSUME Shape, Judged, NEW g \in Goroutines, GuardReady(g)
    PROVE  Judged'
<1>0. GuardReadyTo(g)
  BY GuardReadyMoves
<1> USE GuardConstants DEF Shape, Judged
<1>1. Dormant'
  BY <1>0
     DEF GuardReady, AfterReady, Fault, NoFault, GuardReadyTo, Dormant, Quiet, Places,
         LoopAt, HandlerAt, At, SavePlaces, SyncLabels, HoldLabels, PreServe, Goroutines,
         Only, Same, Moved, Synced, Keeps, cfgVars, wishVars, runVars, guardVars
<1>2. AskedIsWish'
  BY <1>0
     DEF GuardReady, AfterReady, Fault, NoFault, GuardReadyTo, AskedIsWish, WantConnected,
         cfgVars, wishVars, runVars, guardVars
<1>3. ClearIsJudged'
  BY <1>0
     DEF GuardReady, AfterReady, Fault, NoFault, GuardReadyTo, ClearIsJudged, Opening,
         WantConnected, GuardWanted, Dormant, Quiet, Goroutines, Only, Same, Moved, Synced,
         Keeps, cfgVars, wishVars, runVars, guardVars
<1>4. CoreAlone'
  BY <1>0
     DEF GuardReady, AfterReady, Fault, NoFault, GuardReadyTo, CoreAlone, CoreLabels,
         Goroutines, Only, Same, Moved, Synced, Keeps
<1> QED  BY <1>1, <1>2, <1>3, <1>4

\* A removal at hand is still a right one, or an overtaken one, after guardReady noting that there is none.
LEMMA GuardGoneJudged ==
    ASSUME Shape, Judged, NEW g \in Goroutines, GuardGone(g)
    PROVE  Judged'
<1>0. GuardGoneTo(g)
  BY GuardGoneMoves
<1> USE GuardConstants DEF Shape, Judged
<1>1. Dormant'
  BY <1>0
     DEF GuardGone, AfterReady, GuardGoneTo, Dormant, Quiet, Places, LoopAt, HandlerAt, At,
         SavePlaces, SyncLabels, HoldLabels, PreServe, Goroutines, Only, Same, Moved,
         Synced, Keeps, cfgVars, wishVars, runVars
<1>2. AskedIsWish'
  BY <1>0
     DEF GuardGone, AfterReady, GuardGoneTo, AskedIsWish, WantConnected, cfgVars, wishVars,
         runVars
<1>3. ClearIsJudged'
  BY <1>0
     DEF GuardGone, AfterReady, GuardGoneTo, ClearIsJudged, Opening, WantConnected,
         GuardWanted, Dormant, Quiet, Goroutines, Only, Same, Moved, Synced, Keeps, cfgVars,
         wishVars, runVars
<1>4. CoreAlone'
  BY <1>0
     DEF GuardGone, AfterReady, GuardGoneTo, CoreAlone, CoreLabels, Goroutines, Only, Same,
         Moved, Synced, Keeps
<1> QED  BY <1>1, <1>2, <1>3, <1>4

\* A removal at hand is still a right one, or an overtaken one, after guardTunUp at the end of a start.
LEMMA TunUpJudged ==
    ASSUME Shape, Judged, NEW g \in Goroutines, TunUp(g)
    PROVE  Judged'
<1>0. TunUpTo(g)
  BY TunUpMoves
<1> USE GuardConstants DEF Shape, Judged
<1>1. Dormant'
  BY <1>0
     DEF TunUp, TunUpTo, Dormant, Quiet, Places, LoopAt, HandlerAt, At, SavePlaces,
         SyncLabels, HoldLabels, PreServe, Goroutines, Only, Same, Moved, Keeps, cfgVars,
         wishVars, runVars
<1>2. AskedIsWish'
  BY <1>0 DEF TunUp, TunUpTo, AskedIsWish, WantConnected, cfgVars, wishVars, runVars
<1>3. ClearIsJudged'
  BY <1>0
     DEF TunUp, TunUpTo, ClearIsJudged, Opening, WantConnected, GuardWanted, Dormant, Quiet,
         Goroutines, Only, Same, Moved, Keeps, cfgVars, wishVars, runVars
<1>4. CoreAlone'
  BY <1>0 DEF TunUp, TunUpTo, CoreAlone, CoreLabels, Goroutines, Only, Same, Moved, Keeps
<1> QED  BY <1>1, <1>2, <1>3, <1>4

\* A removal at hand is still a right one, or an overtaken one, after the preparation of a configuration.
LEMMA PrepareJudged ==
    ASSUME Shape, Judged, NEW g \in Goroutines, Prepare(g)
    PROVE  Judged'
<1>0. PrepareTo(g)
  BY PrepareMoves
<1> USE GuardConstants DEF Shape, Judged
<1>1. Dormant'
  BY <1>0
     DEF Prepare, PrepareTo, Dormant, Quiet, Places, LoopAt, HandlerAt, At, SavePlaces,
         SyncLabels, HoldLabels, PreServe, Goroutines, Only, Same, Synced, Keeps, cfgVars,
         wishVars, runVars, guardVars
<1>2. AskedIsWish'
  BY <1>0
     DEF Prepare, PrepareTo, AskedIsWish, WantConnected, cfgVars, wishVars, runVars,
         guardVars
<1>3. ClearIsJudged'
  BY <1>0
     DEF Prepare, PrepareTo, ClearIsJudged, Opening, WantConnected, GuardWanted, Dormant,
         Quiet, Goroutines, Only, Same, Synced, Keeps, cfgVars, wishVars, runVars, guardVars
<1>4. CoreAlone'
  BY <1>0
     DEF Prepare, PrepareTo, CoreAlone, CoreLabels, Goroutines, Only, Same, Synced, Keeps
<1> QED  BY <1>1, <1>2, <1>3, <1>4

\* A removal at hand is still a right one, or an overtaken one, after a request coming in.
LEMMA CallJudged ==
    ASSUME Shape, Judged, NEW h \in Handlers, NEW op \in AllOps, Call(h, op)
    PROVE  Judged'
<1>0. CallTo(h, op)
  BY CallMoves
<1> USE GuardConstants DEF Shape, Judged
<1>1. Dormant'
  BY <1>0
     DEF Call, CallTo, Dormant, Quiet, Places, LoopAt, HandlerAt, At, SavePlaces,
         SyncLabels, HoldLabels, PreServe, Goroutines, Only, Same, wishVars, runVars,
         guardVars, Serving, Alive
<1>2. AskedIsWish'
  BY <1>0 DEF Call, CallTo, AskedIsWish, WantConnected, wishVars, runVars, guardVars
<1>3. ClearIsJudged'
  BY <1>0
     DEF Call, CallTo, ClearIsJudged, Opening, WantConnected, GuardWanted, Dormant, Quiet,
         Goroutines, Only, Same, wishVars, runVars, guardVars, Serving, Alive
<1>4. CoreAlone'
  BY <1>0 DEF Call, CallTo, CoreAlone, CoreLabels, Goroutines, Only, Same
<1> QED  BY <1>1, <1>2, <1>3, <1>4

\* A removal at hand is still a right one, or an overtaken one, after MConnect.
LEMMA ConnectJudged ==
    ASSUME Shape, Judged, NEW h \in Handlers, Connect(h)
    PROVE  Judged'
<1>0. ConnectTo(h)
  BY ConnectMoves
<1> USE GuardConstants DEF Shape, Judged
<1>1. Dormant'
  BY <1>0
     DEF Connect, Wished, NotWished, ConnectTo, Dormant, Quiet, Goroutines, Same, Synced,
         Keeps, Fresh, OnlyRun, RunKept, cfgVars, guardVars, MachineClosed
<1>2. AskedIsWish'
  <2>1. bootWanted' = bootWanted
    BY DEF Connect
  <2>2. CASE NotWished
    BY <2>1, <2>2 DEF NotWished, AskedIsWish, WantConnected
  <2>3. CASE wanted' = TRUE /\ asked' = TRUE
    BY <2>1, <2>3 DEF AskedIsWish, WantConnected
  <2> QED  BY <1>0, <2>2, <2>3 DEF ConnectTo, Wished
<1>3. ClearIsJudged'
  <2>1. NoneOpens
    BY <1>0
       DEF NoneOpens, ConnectTo, OnlyRun, RunKept, Same, Keeps, Synced, Fresh, Goroutines
  <2>2. pc["boot"] \in HoldLabels => early'
    BY <1>0 DEF Connect, Dormant, Quiet, PreServe, HoldLabels, Places, LoopAt, cfgVars
  <2>3. CASE NotWished
    <3>1. UNCHANGED <<late, settings, wanted, bootWanted, early>>
      BY <2>3 DEF NotWished, Connect, cfgVars
    <3> QED  BY <2>1, <3>1, SameJudged DEF GuardWanted, WantConnected
  <2>4. CASE late' = ~GuardMuFree
    BY <2>1, <2>2, <2>4, LateJudged
  <2> QED  BY <1>0, <2>3, <2>4 DEF ConnectTo, Wished
<1>4. CoreAlone'
  BY <1>0
     DEF Connect, ConnectTo, CoreAlone, CoreLabels, Goroutines, Same, Synced, Keeps, Fresh,
         OnlyRun, RunKept, OpMuFree
<1> QED  BY <1>1, <1>2, <1>3, <1>4

\* A removal at hand is still a right one, or an overtaken one, after the removal of a profile writing the settings back.
LEMMA RemoveWriteJudged ==
    ASSUME Shape, Judged, NEW h \in Handlers, RemoveWrite(h)
    PROVE  Judged'
<1>0. RemoveWriteTo(h)
  BY RemoveWriteMoves
<1> USE GuardConstants DEF Shape, Judged
<1>1. Dormant'
  BY <1>0
     DEF RemoveWrite, RemoveWriteTo, Dormant, Quiet, Goroutines, Only, Same, Moved, Keeps,
         wishVars, guardVars
<1>2. AskedIsWish'
  BY <1>0 DEF RemoveWrite, RemoveWriteTo, AskedIsWish, WantConnected, wishVars, guardVars
<1>3. ClearIsJudged'
  <2>1. NoneOpens
    BY <1>0 DEF NoneOpens, RemoveWriteTo, Only, Same, Moved, Keeps, Goroutines
  <2>2. pc["boot"] \in HoldLabels => early'
    BY <1>0 DEF RemoveWrite, Dormant, Quiet, PreServe, HoldLabels, Places, LoopAt
  <2> QED  BY <1>0, <2>1, <2>2, LateJudged DEF RemoveWriteTo
<1>4. CoreAlone'
  BY <1>0
     DEF RemoveWrite, RemoveWriteTo, CoreAlone, CoreLabels, Goroutines, Only, Same, Moved,
         Keeps
<1> QED  BY <1>1, <1>2, <1>3, <1>4

\* A removal at hand is still a right one, or an overtaken one, after the removal of the last profile clearing the wish.
LEMMA RemoveForgetJudged ==
    ASSUME Shape, Judged, NEW h \in Handlers, RemoveForget(h)
    PROVE  Judged'
<1>0. RemoveForgetTo(h)
  BY RemoveForgetMoves
<1> USE GuardConstants DEF Shape, Judged
<1>1. Dormant'
  BY <1>0
     DEF RemoveForget, RemoveForgetTo, Dormant, Quiet, Goroutines, Only, Same, Moved, Keeps,
         wishVars, runVars, guardVars
<1>2. AskedIsWish'
  BY <1>0
     DEF RemoveForget, RemoveForgetTo, AskedIsWish, WantConnected, wishVars, runVars,
         guardVars
<1>3. ClearIsJudged'
  BY <1>0
     DEF RemoveForget, RemoveForgetTo, ClearIsJudged, Opening, WantConnected, GuardWanted,
         Dormant, Quiet, Goroutines, Only, Same, Moved, Keeps, wishVars, runVars, guardVars
<1>4. CoreAlone'
  BY <1>0
     DEF RemoveForget, RemoveForgetTo, CoreAlone, CoreLabels, Goroutines, Only, Same, Moved,
         Keeps
<1> QED  BY <1>1, <1>2, <1>3, <1>4

\* A removal at hand is still a right one, or an overtaken one, after a disconnection clearing the wish.
LEMMA DisconnectJudged ==
    ASSUME Shape, Judged, NEW h \in Handlers, Disconnect(h)
    PROVE  Judged'
<1>0. DisconnectTo(h)
  BY DisconnectMoves
<1> USE GuardConstants DEF Shape, Judged
<1>1. Dormant'
  BY <1>0
     DEF Disconnect, DisconnectTo, Dormant, Quiet, Goroutines, Only, Same, Moved, Keeps,
         cfgVars, guardVars
<1>2. AskedIsWish'
  BY <1>0 DEF Disconnect, DisconnectTo, AskedIsWish, WantConnected, cfgVars, guardVars
<1>3. ClearIsJudged'
  BY <1>0
     DEF Disconnect, DisconnectTo, ClearIsJudged, Opening, GuardMuFree, WantConnected,
         GuardWanted, Dormant, Quiet, Goroutines, Only, Same, Moved, Keeps, cfgVars,
         guardVars
<1>4. CoreAlone'
  BY <1>0
     DEF Disconnect, DisconnectTo, CoreAlone, CoreLabels, Goroutines, Only, Same, Moved,
         Keeps, OpMuFree
<1> QED  BY <1>1, <1>2, <1>3, <1>4

\* A removal at hand is still a right one, or an overtaken one, after a disconnection releasing the hold.
LEMMA UnholdJudged ==
    ASSUME Shape, Judged, NEW h \in Handlers, Unhold(h)
    PROVE  Judged'
<1>0. UnholdTo(h)
  BY UnholdMoves
<1> USE GuardConstants DEF Shape, Judged
<1>1. Dormant'
  BY <1>0
     DEF Unhold, UnholdTo, Dormant, Quiet, Goroutines, Only, Same, Synced, Keeps, cfgVars,
         wishVars, runVars
<1>2. AskedIsWish'
  BY <1>0 DEF Unhold, UnholdTo, AskedIsWish, WantConnected, cfgVars, wishVars, runVars
<1>3. ClearIsJudged'
  BY <1>0
     DEF Unhold, UnholdTo, ClearIsJudged, Opening, WantConnected, GuardWanted, Dormant,
         Quiet, Goroutines, Only, Same, Synced, Keeps, cfgVars, wishVars, runVars
<1>4. CoreAlone'
  BY <1>0 DEF Unhold, UnholdTo, CoreAlone, CoreLabels, Goroutines, Only, Same, Synced, Keeps
<1> QED  BY <1>1, <1>2, <1>3, <1>4

\* A removal at hand is still a right one, or an overtaken one, after stopLoop, once the run goroutine has ended.
LEMMA HaltJudged ==
    ASSUME Shape, Judged, NEW h \in Handlers, Halt(h)
    PROVE  Judged'
<1>0. HaltTo(h)
  BY HaltMoves
<1> USE GuardConstants DEF Shape, Judged
<1>1. Dormant'
  BY <1>0
     DEF Halt, Wished, NotWished, HaltTo, Dormant, Quiet, Goroutines, Same, Moved, Answered,
         Synced, Keeps, Fresh, OnlyRun, RunKept, cfgVars, guardVars, MachineClosed
<1>2. AskedIsWish'
  <2>1. bootWanted' = bootWanted
    BY DEF Halt
  <2>2. CASE NotWished
    BY <2>1, <2>2 DEF NotWished, AskedIsWish, WantConnected
  <2>3. CASE wanted' = TRUE /\ asked' = TRUE
    BY <2>1, <2>3 DEF AskedIsWish, WantConnected
  <2> QED  BY <1>0, <2>2, <2>3 DEF HaltTo, Wished
<1>3. ClearIsJudged'
  <2>1. NoneOpens
    BY <1>0
       DEF NoneOpens, HaltTo, OnlyRun, RunKept, Same, Moved, Keeps, Synced, Answered, Fresh,
           Goroutines
  <2>2. pc["boot"] \in HoldLabels => early'
    BY <1>0 DEF Halt, Dormant, Quiet, PreServe, HoldLabels, Places, LoopAt, cfgVars
  <2>3. CASE NotWished
    <3>1. UNCHANGED <<late, settings, wanted, bootWanted, early>>
      BY <2>3 DEF NotWished, Halt, cfgVars
    <3> QED  BY <2>1, <3>1, SameJudged DEF GuardWanted, WantConnected
  <2>4. CASE late' = ~GuardMuFree
    BY <2>1, <2>2, <2>4, LateJudged
  <2> QED  BY <1>0, <2>3, <2>4 DEF HaltTo, Wished
<1>4. CoreAlone'
  BY <1>0
     DEF Halt, HaltTo, CoreAlone, CoreLabels, Goroutines, Same, Moved, Answered, Synced,
         Keeps, Fresh, OnlyRun, RunKept
<1> QED  BY <1>1, <1>2, <1>3, <1>4

\* A removal at hand is still a right one, or an overtaken one, after a restart's configuration being built.
LEMMA BuiltJudged ==
    ASSUME Shape, Judged, NEW h \in Handlers, Built(h)
    PROVE  Judged'
<1>0. BuiltTo(h)
  BY BuiltMoves
<1> USE GuardConstants DEF Shape, Judged
<1>1. Dormant'
  BY <1>0
     DEF Built, Fault, NoFault, BuiltTo, Dormant, Quiet, Goroutines, Only, Same, Moved,
         Answered, Keeps, Fresh, cfgVars, wishVars, runVars, guardVars
<1>2. AskedIsWish'
  BY <1>0
     DEF Built, Fault, NoFault, BuiltTo, AskedIsWish, WantConnected, cfgVars, wishVars,
         runVars, guardVars
<1>3. ClearIsJudged'
  BY <1>0
     DEF Built, Fault, NoFault, BuiltTo, ClearIsJudged, Opening, WantConnected, GuardWanted,
         Dormant, Quiet, Goroutines, Only, Same, Moved, Answered, Keeps, Fresh, cfgVars,
         wishVars, runVars, guardVars
<1>4. CoreAlone'
  BY <1>0
     DEF Built, Fault, NoFault, BuiltTo, CoreAlone, CoreLabels, Goroutines, Only, Same,
         Moved, Answered, Keeps, Fresh
<1> QED  BY <1>1, <1>2, <1>3, <1>4

\* A removal at hand is still a right one, or an overtaken one, after a restart taking opMu.
LEMMA SwapJudged ==
    ASSUME Shape, Judged, NEW h \in Handlers, Swap(h)
    PROVE  Judged'
<1>0. SwapTo(h)
  BY SwapMoves
<1> USE GuardConstants DEF Shape, Judged
<1>1. Dormant'
  BY <1>0
     DEF Swap, SwapTo, Dormant, Quiet, Goroutines, Only, Same, Moved, Answered, Keeps,
         Fresh, cfgVars, wishVars, guardVars
<1>2. AskedIsWish'
  BY <1>0 DEF Swap, SwapTo, AskedIsWish, WantConnected, cfgVars, wishVars, guardVars
<1>3. ClearIsJudged'
  BY <1>0
     DEF Swap, SwapTo, ClearIsJudged, Opening, WantConnected, GuardWanted, Dormant, Quiet,
         Goroutines, Only, Same, Moved, Answered, Keeps, Fresh, cfgVars, wishVars, guardVars
<1>4. CoreAlone'
  BY <1>0
     DEF Swap, SwapTo, CoreAlone, CoreLabels, Goroutines, Only, Same, Moved, Answered,
         Keeps, Fresh, OpMuFree
<1> QED  BY <1>1, <1>2, <1>3, <1>4

\* A removal at hand is still a right one, or an overtaken one, after MSetSettings publishing the settings.
LEMMA SaveJudged ==
    ASSUME Shape, Judged, NEW h \in Handlers, NEW s \in Choices, Save(h, s)
    PROVE  Judged'
<1>0. SaveTo(h, s)
  BY SaveMoves
<1> USE GuardConstants DEF Shape, Judged
<1>1. Dormant'
  BY <1>0
     DEF Save, SaveTo, Dormant, Quiet, Goroutines, Only, Same, Moved, Keeps, wishVars,
         guardVars
<1>2. AskedIsWish'
  BY <1>0 DEF Save, SaveTo, AskedIsWish, WantConnected, wishVars, guardVars
<1>3. ClearIsJudged'
  <2>1. NoneOpens
    BY <1>0 DEF NoneOpens, SaveTo, Only, Same, Moved, Keeps, Goroutines
  <2>2. pc["boot"] \in HoldLabels => early'
    BY <1>0 DEF Save, Dormant, Quiet, PreServe, HoldLabels, Places, LoopAt
  <2> QED  BY <1>0, <2>1, <2>2, LateJudged DEF SaveTo
<1>4. CoreAlone'
  BY <1>0 DEF Save, SaveTo, CoreAlone, CoreLabels, Goroutines, Only, Same, Moved, Keeps
<1> QED  BY <1>1, <1>2, <1>3, <1>4

\* A removal at hand is still a right one, or an overtaken one, after the choice whether a change of settings needs a restart.
LEMMA ChooseJudged ==
    ASSUME Shape, Judged, NEW h \in Handlers, Choose(h)
    PROVE  Judged'
<1>0. ChooseTo(h)
  BY ChooseMoves
<1> USE GuardConstants DEF Shape, Judged
<1>1. Dormant'
  BY <1>0
     DEF Choose, ChooseTo, Dormant, Quiet, Goroutines, Only, Same, Moved, Answered, Synced,
         Keeps, Fresh, cfgVars, wishVars, runVars, guardVars
<1>2. AskedIsWish'
  BY <1>0
     DEF Choose, ChooseTo, AskedIsWish, WantConnected, cfgVars, wishVars, runVars, guardVars
<1>3. ClearIsJudged'
  BY <1>0
     DEF Choose, ChooseTo, ClearIsJudged, Opening, WantConnected, GuardWanted, Dormant,
         Quiet, Goroutines, Only, Same, Moved, Answered, Synced, Keeps, Fresh, cfgVars,
         wishVars, runVars, guardVars
<1>4. CoreAlone'
  BY <1>0
     DEF Choose, ChooseTo, CoreAlone, CoreLabels, Goroutines, Only, Same, Moved, Answered,
         Synced, Keeps, Fresh
<1> QED  BY <1>1, <1>2, <1>3, <1>4

\* A removal at hand is still a right one, or an overtaken one, after the hold of the guard before a restart.
LEMMA HoldJudged ==
    ASSUME Shape, Judged, NEW h \in Handlers, Hold(h)
    PROVE  Judged'
<1>0. HoldTo(h)
  BY HoldMoves
<1> USE GuardConstants DEF Shape, Judged
<1>1. Dormant'
  BY <1>0
     DEF Hold, HoldTo, Dormant, Quiet, Goroutines, Only, Same, Moved, Keeps, cfgVars,
         wishVars, runVars
<1>2. AskedIsWish'
  BY <1>0 DEF Hold, HoldTo, AskedIsWish, WantConnected, cfgVars, wishVars, runVars
<1>3. ClearIsJudged'
  BY <1>0
     DEF Hold, HoldTo, ClearIsJudged, Opening, WantConnected, GuardWanted, Dormant, Quiet,
         Goroutines, Only, Same, Moved, Keeps, cfgVars, wishVars, runVars
<1>4. CoreAlone'
  BY <1>0 DEF Hold, HoldTo, CoreAlone, CoreLabels, Goroutines, Only, Same, Moved, Keeps
<1> QED  BY <1>1, <1>2, <1>3, <1>4

\* A removal at hand is still a right one, or an overtaken one, after RestartChecked's start of the new data plane.
LEMMA StartCheckedJudged ==
    ASSUME Shape, Judged, NEW h \in Handlers, StartChecked(h)
    PROVE  Judged'
<1>0. StartCheckedTo(h)
  BY StartCheckedMoves
<1> USE GuardConstants DEF Shape, Judged
<1>1. Dormant'
  BY <1>0
     DEF StartChecked, PlaneFor, Fault, NoFault, StartCheckedTo, Dormant, Quiet, Goroutines,
         Only, Same, Moved, Keeps, cfgVars, wishVars, guardVars
<1>2. AskedIsWish'
  BY <1>0
     DEF StartChecked, PlaneFor, Fault, NoFault, StartCheckedTo, AskedIsWish, WantConnected,
         cfgVars, wishVars, guardVars
<1>3. ClearIsJudged'
  BY <1>0
     DEF StartChecked, PlaneFor, Fault, NoFault, StartCheckedTo, ClearIsJudged, Opening,
         WantConnected, GuardWanted, Dormant, Quiet, Goroutines, Only, Same, Moved, Keeps,
         cfgVars, wishVars, guardVars
<1>4. CoreAlone'
  BY <1>0
     DEF StartChecked, PlaneFor, Fault, NoFault, StartCheckedTo, CoreAlone, CoreLabels,
         Goroutines, Only, Same, Moved, Keeps
<1> QED  BY <1>1, <1>2, <1>3, <1>4

\* A removal at hand is still a right one, or an overtaken one, after the new data plane handed to a run goroutine.
LEMMA StartedJudged ==
    ASSUME Shape, Judged, NEW h \in Handlers, Started(h)
    PROVE  Judged'
<1>0. StartedTo(h)
  BY StartedMoves
<1> USE GuardConstants DEF Shape, Judged
<1>1. Dormant'
  BY <1>0
     DEF Started, StartedTo, Dormant, Quiet, Goroutines, Same, Moved, Keeps, OnlyRun,
         cfgVars, wishVars, guardVars
<1>2. AskedIsWish'
  BY <1>0 DEF Started, StartedTo, AskedIsWish, WantConnected, cfgVars, wishVars, guardVars
<1>3. ClearIsJudged'
  BY <1>0
     DEF Started, StartedTo, ClearIsJudged, Opening, WantConnected, GuardWanted, Dormant,
         Quiet, Goroutines, Same, Moved, Keeps, OnlyRun, cfgVars, wishVars, guardVars
<1>4. CoreAlone'
  <2>1. pc'["boot"] = pc["boot"]
    BY <1>0 DEF StartedTo, OnlyRun, Same, Goroutines
  <2>2. \A k \in Handlers : pc'[k] \in CoreLabels => pc[k] \in CoreLabels
    BY <1>0 DEF StartedTo, OnlyRun, Same, Moved, Goroutines, CoreLabels
  <2> QED  BY <2>1, <2>2 DEF CoreAlone
<1> QED  BY <1>1, <1>2, <1>3, <1>4

\* A removal at hand is still a right one, or an overtaken one, after the rollback of a tightening.
LEMMA RollbackJudged ==
    ASSUME Shape, Judged, NEW h \in Handlers, Rollback(h)
    PROVE  Judged'
<1>0. RollbackTo(h)
  BY RollbackMoves
<1> USE GuardConstants DEF Shape, Judged
<1>1. Dormant'
  BY <1>0
     DEF Rollback, NoFault, Wished, NotWished, RolledBack, RollbackTo, Dormant, Quiet,
         Goroutines, Same, Moved, Keeps, Fresh, OnlyRun, RunKept, guardVars, MachineClosed
<1>2. AskedIsWish'
  <2>1. bootWanted' = bootWanted
    BY DEF Rollback
  <2>2. CASE UNCHANGED <<wanted, asked>>
    BY <2>1, <2>2 DEF AskedIsWish, WantConnected
  <2>3. CASE wanted' = TRUE /\ asked' = TRUE
    BY <2>1, <2>3 DEF AskedIsWish, WantConnected
  <2> QED  BY <1>0, <2>2, <2>3 DEF RollbackTo, Wished, NotWished
<1>3. ClearIsJudged'
  <2>1. NoneOpens
    BY <1>0
       DEF NoneOpens, RollbackTo, OnlyRun, RunKept, Same, Moved, Keeps, Fresh, Goroutines
  <2>2. pc["boot"] \in HoldLabels => early'
    BY <1>0 DEF Rollback, Dormant, Quiet, PreServe, HoldLabels, Places, LoopAt
  <2>3. ~MachineClosed \/ pc[h] = "rollback"
    BY DEF Rollback, MachineClosed, CoreAlone, CoreLabels, Dormant, Quiet
  <2>4. late' = ~GuardMuFree
    BY <1>0, <2>3 DEF RollbackTo, Wished
  <2> QED  BY <2>1, <2>2, <2>4, LateJudged
<1>4. CoreAlone'
  BY <1>0
     DEF Rollback, NoFault, RollbackTo, CoreAlone, CoreLabels, Goroutines, Same, Moved,
         Keeps, Fresh, OnlyRun, RunKept
<1> QED  BY <1>1, <1>2, <1>3, <1>4

\* A removal at hand is still a right one, or an overtaken one, after the end of a privacy transaction.
LEMMA SettleJudged ==
    ASSUME Shape, Judged, NEW h \in Handlers, Settle(h)
    PROVE  Judged'
<1>0. SettleTo(h)
  BY SettleMoves
<1> USE GuardConstants DEF Shape, Judged
<1>1. Dormant'
  BY <1>0
     DEF Settle, SettleTo, Dormant, Quiet, Goroutines, Only, Same, Synced, Keeps, cfgVars,
         wishVars, runVars
<1>2. AskedIsWish'
  BY <1>0 DEF Settle, SettleTo, AskedIsWish, WantConnected, cfgVars, wishVars, runVars
<1>3. ClearIsJudged'
  BY <1>0
     DEF Settle, SettleTo, ClearIsJudged, Opening, WantConnected, GuardWanted, Dormant,
         Quiet, Goroutines, Only, Same, Synced, Keeps, cfgVars, wishVars, runVars
<1>4. CoreAlone'
  BY <1>0 DEF Settle, SettleTo, CoreAlone, CoreLabels, Goroutines, Only, Same, Synced, Keeps
<1> QED  BY <1>1, <1>2, <1>3, <1>4

\* A removal at hand is still a right one, or an overtaken one, after its early return.
LEMMA AbandonJudged ==
    ASSUME Shape, Judged, NEW h \in Handlers, Abandon(h)
    PROVE  Judged'
<1>0. AbandonTo(h)
  BY AbandonMoves
<1> USE GuardConstants DEF Shape, Judged
<1>1. Dormant'
  BY <1>0
     DEF Abandon, AbandonTo, Dormant, Quiet, Goroutines, Only, Same, Answered, Fresh,
         cfgVars, wishVars
<1>2. AskedIsWish'
  BY <1>0 DEF Abandon, AbandonTo, AskedIsWish, WantConnected, cfgVars, wishVars
<1>3. ClearIsJudged'
  <2>1. NoneOpens
    BY <1>0 DEF NoneOpens, AbandonTo, Only, Same, Answered, Fresh, Goroutines, Abandon
  <2>2. pc["boot"] \in HoldLabels => early'
    BY DEF Abandon, Dormant, Quiet, PreServe, HoldLabels, Places, LoopAt, cfgVars
  <2> QED  BY <2>1, <2>2, LateJudged DEF Abandon
<1>4. CoreAlone'
  BY <1>0
     DEF Abandon, AbandonTo, CoreAlone, CoreLabels, Goroutines, Only, Same, Answered, Fresh
<1> QED  BY <1>1, <1>2, <1>3, <1>4

\* A removal at hand is still a right one, or an overtaken one, after the loop of the run goroutine.
LEMMA RunLoopJudged ==
    ASSUME Shape, Judged, RunLoop
    PROVE  Judged'
<1>0. RunLoopTo
  BY RunLoopMoves
<1> USE GuardConstants DEF Shape, Judged
<1>1. Dormant'
  BY <1>0
     DEF RunLoop, RunLoopTo, Dormant, Quiet, Goroutines, Only, Same, Moved, Keeps, cfgVars,
         wishVars, runVars, guardVars
<1>2. AskedIsWish'
  BY <1>0
     DEF RunLoop, RunLoopTo, AskedIsWish, WantConnected, cfgVars, wishVars, runVars,
         guardVars
<1>3. ClearIsJudged'
  BY <1>0
     DEF RunLoop, RunLoopTo, ClearIsJudged, Opening, WantConnected, GuardWanted, Dormant,
         Quiet, Goroutines, Only, Same, Moved, Keeps, cfgVars, wishVars, runVars, guardVars
<1>4. CoreAlone'
  BY <1>0
     DEF RunLoop, RunLoopTo, CoreAlone, CoreLabels, Goroutines, Only, Same, Moved, Keeps
<1> QED  BY <1>1, <1>2, <1>3, <1>4

\* A removal at hand is still a right one, or an overtaken one, after the run goroutine's configuration being built.
LEMMA RunBuiltJudged ==
    ASSUME Shape, Judged, RunBuilt
    PROVE  Judged'
<1>0. RunBuiltTo
  BY RunBuiltMoves
<1> USE GuardConstants DEF Shape, Judged
<1>1. Dormant'
  BY <1>0
     DEF RunBuilt, Fault, NoFault, RunBuiltTo, Dormant, Quiet, Goroutines, Only, Same,
         cfgVars, wishVars, runVars, guardVars
<1>2. AskedIsWish'
  BY <1>0
     DEF RunBuilt, Fault, NoFault, RunBuiltTo, AskedIsWish, WantConnected, cfgVars,
         wishVars, runVars, guardVars
<1>3. ClearIsJudged'
  BY <1>0
     DEF RunBuilt, Fault, NoFault, RunBuiltTo, ClearIsJudged, Opening, WantConnected,
         GuardWanted, Dormant, Quiet, Goroutines, Only, Same, cfgVars, wishVars, runVars,
         guardVars
<1>4. CoreAlone'
  BY <1>0
     DEF RunBuilt, Fault, NoFault, RunBuiltTo, CoreAlone, CoreLabels, Goroutines, Only, Same
<1> QED  BY <1>1, <1>2, <1>3, <1>4

\* A removal at hand is still a right one, or an overtaken one, after the run goroutine's start of the core.
LEMMA RunStartJudged ==
    ASSUME Shape, Judged, RunStart
    PROVE  Judged'
<1>0. RunStartTo
  BY RunStartMoves
<1> USE GuardConstants DEF Shape, Judged
<1>1. Dormant'
  BY <1>0
     DEF RunStart, PlaneFor, Fault, NoFault, RunStartTo, Dormant, Quiet, Goroutines, Only,
         Same, cfgVars, wishVars, guardVars
<1>2. AskedIsWish'
  BY <1>0
     DEF RunStart, PlaneFor, Fault, NoFault, RunStartTo, AskedIsWish, WantConnected,
         cfgVars, wishVars, guardVars
<1>3. ClearIsJudged'
  BY <1>0
     DEF RunStart, PlaneFor, Fault, NoFault, RunStartTo, ClearIsJudged, Opening,
         WantConnected, GuardWanted, Dormant, Quiet, Goroutines, Only, Same, cfgVars,
         wishVars, guardVars
<1>4. CoreAlone'
  BY <1>0
     DEF RunStart, PlaneFor, Fault, NoFault, RunStartTo, CoreAlone, CoreLabels, Goroutines,
         Only, Same
<1> QED  BY <1>1, <1>2, <1>3, <1>4

\* A removal at hand is still a right one, or an overtaken one, after the watch over a running core.
LEMMA RunUpJudged ==
    ASSUME Shape, Judged, RunUp
    PROVE  Judged'
<1>0. RunUpTo
  BY RunUpMoves
<1> USE GuardConstants DEF Shape, Judged
<1>1. Dormant'
  BY <1>0
     DEF RunUp, Fault, NoFault, RunUpTo, Dormant, Quiet, Goroutines, Only, Same, Moved,
         Keeps, cfgVars, wishVars, guardVars
<1>2. AskedIsWish'
  BY <1>0
     DEF RunUp, Fault, NoFault, RunUpTo, AskedIsWish, WantConnected, cfgVars, wishVars,
         guardVars
<1>3. ClearIsJudged'
  BY <1>0
     DEF RunUp, Fault, NoFault, RunUpTo, ClearIsJudged, Opening, WantConnected, GuardWanted,
         Dormant, Quiet, Goroutines, Only, Same, Moved, Keeps, cfgVars, wishVars, guardVars
<1>4. CoreAlone'
  BY <1>0
     DEF RunUp, Fault, NoFault, RunUpTo, CoreAlone, CoreLabels, Goroutines, Only, Same,
         Moved, Keeps
<1> QED  BY <1>1, <1>2, <1>3, <1>4

\* A removal at hand is still a right one, or an overtaken one, after guardWatchLoop.
LEMMA WatchJudged ==
    ASSUME Shape, Judged, Watch
    PROVE  Judged'
<1>0. WatchTo
  BY WatchMoves
<1> USE GuardConstants DEF Shape, Judged
<1>1. Dormant'
  BY <1>0
     DEF Watch, WatchTo, Dormant, Quiet, Goroutines, Only, Same, Synced, Keeps, cfgVars,
         wishVars, runVars, guardVars, GuardWanted, WantConnected
<1>2. AskedIsWish'
  BY <1>0
     DEF Watch, WatchTo, AskedIsWish, WantConnected, cfgVars, wishVars, runVars, guardVars
<1>3. ClearIsJudged'
  BY <1>0
     DEF Watch, WatchTo, ClearIsJudged, Opening, WantConnected, GuardWanted, Dormant, Quiet,
         Goroutines, Only, Same, Synced, Keeps, cfgVars, wishVars, runVars, guardVars
<1>4. CoreAlone'
  BY <1>0 DEF Watch, WatchTo, CoreAlone, CoreLabels, Goroutines, Only, Same, Synced, Keeps
<1> QED  BY <1>1, <1>2, <1>3, <1>4

\* A removal at hand is still a right one, or an overtaken one, after the start of the service.
LEMMA BootJudged ==
    ASSUME Shape, Judged, Boot
    PROVE  Judged'
<1>0. BootTo
  BY BootMoves
<1> USE GuardConstants DEF Shape, Judged
<1>1. Dormant'
  BY <1>0 DEF Boot, BootTo, Dormant, Quiet, Goroutines, runVars
<1>2. AskedIsWish'
  BY <1>0 DEF Boot, BootTo, AskedIsWish, WantConnected, runVars, Dormant, Quiet
<1>3. ClearIsJudged'
  BY <1>0
     DEF Boot, BootTo, ClearIsJudged, Opening, WantConnected, GuardWanted, Dormant, Quiet,
         Goroutines, runVars
<1>4. CoreAlone'
  BY <1>0 DEF Boot, BootTo, CoreAlone, CoreLabels, Goroutines, Dormant, Quiet
<1> QED  BY <1>1, <1>2, <1>3, <1>4

\* A removal at hand is still a right one, or an overtaken one, after the reconciliation of the filter found in place.
LEMMA ReconcileJudged ==
    ASSUME Shape, Judged, Reconcile
    PROVE  Judged'
<1>0. ReconcileTo
  BY ReconcileMoves
<1> USE GuardConstants DEF Shape, Judged
<1>1. Dormant'
  BY <1>0
     DEF Reconcile, ReconcileTo, Dormant, Quiet, Places, LoopAt, HandlerAt, At, SavePlaces,
         SyncLabels, HoldLabels, PreServe, Goroutines, Only, Same, Moved, Keeps, cfgVars,
         wishVars, runVars
<1>2. AskedIsWish'
  BY <1>0 DEF Reconcile, ReconcileTo, AskedIsWish, WantConnected, cfgVars, wishVars, runVars
<1>3. ClearIsJudged'
  <2>1. pc["boot"] = "reconcile" /\ UNCHANGED <<late, settings, wanted, bootWanted>>
    BY DEF Reconcile, cfgVars, wishVars, runVars
  <2>2. disk \in {"yes", "no", "unknown"} /\ "boot" \in Goroutines
    BY DEF FileTypes, Goroutines
  <2>3. ~early => ~wanted /\ (bootWanted <=> (disk = "yes" /\ trusted))
    BY <2>1 DEF Dormant, Quiet, PreServe
  <2>4. pc'["boot"] = "clear" /\ ~early => ~GuardWanted
    <3>1. ASSUME pc'["boot"] = "clear" PROVE Goto("boot", IF disk = "yes" /\ GuardOn(settings)
                                                    THEN "install" ELSE "clear")
      BY <2>1, <2>2, <3>1 DEF Reconcile, Goto, PlaceTypes
    <3>2. ASSUME disk = "yes", GuardOn(settings) PROVE pc'["boot"] # "clear"
      BY <2>1, <2>2, <3>1, <3>2 DEF Goto, PlaceTypes
    <3> QED  BY <2>3, <3>2 DEF GuardWanted, WantConnected
  <2>4a. early' = early
    BY DEF Reconcile, cfgVars
  <2>5. pc'["boot"] # "decide" /\ \A g \in Goroutines : g # "boot" => Same(g)
    BY <1>0, <2>2 DEF ReconcileTo, Moved, Only
  <2> QED
    BY <2>1, <2>4, <2>4a, <2>5 DEF ClearIsJudged, Opening, Same, GuardWanted, WantConnected
<1>4. CoreAlone'
  BY <1>0
     DEF Reconcile, ReconcileTo, CoreAlone, CoreLabels, Goroutines, Only, Same, Moved, Keeps
<1> QED  BY <1>1, <1>2, <1>3, <1>4

\* A removal at hand is still a right one, or an overtaken one, after the automatic connection.
LEMMA AutoConnectJudged ==
    ASSUME Shape, Judged, AutoConnect
    PROVE  Judged'
<1>0. AutoConnectTo
  BY AutoConnectMoves
<1> USE GuardConstants DEF Shape, Judged
<1>1. Dormant'
  BY <1>0
     DEF AutoConnect, Wished, NotWished, AutoConnectTo, Dormant, Quiet, Places, LoopAt,
         HandlerAt, At, SavePlaces, SyncLabels, HoldLabels, PreServe, Goroutines, Same,
         Moved, Keeps, Fresh, OnlyRun, RunKept, cfgVars, guardVars, MachineClosed
<1>2. AskedIsWish'
  <2>1. pc["boot"] = "auto" /\ bootWanted' = FALSE
    BY DEF AutoConnect
  <2>2. CASE disk = "yes" /\ trusted
    BY <1>0, <2>1, <2>2 DEF AutoConnectTo, Wished, MachineClosed, AskedIsWish, WantConnected
  <2>3. CASE ~(disk = "yes" /\ trusted)
    BY <1>0, <2>1, <2>3 DEF AutoConnectTo, AskedIsWish, WantConnected
  <2> QED  BY <2>2, <2>3
<1>3. ClearIsJudged'
  <2>1. NoneOpens
    BY <1>0
       DEF NoneOpens, AutoConnectTo, OnlyRun, RunKept, Same, Moved, Keeps, Fresh, Goroutines
  <2>2. pc["boot"] = "auto" /\ settings' = settings /\ bootWanted' = FALSE
    BY DEF AutoConnect, cfgVars
  <2>3. CASE disk = "yes" /\ trusted
    <3>1. late' = ~GuardMuFree
      BY <1>0, <2>2, <2>3 DEF AutoConnectTo, Wished, MachineClosed
    <3> QED  BY <2>1, <2>2, <3>1, LateJudged DEF HoldLabels
  <2>4. CASE ~(disk = "yes" /\ trusted)
    <3>1. late' = late /\ wanted' = wanted /\ early' = early
      BY <1>0, <2>4 DEF AutoConnectTo, AutoConnect, cfgVars
    <3> QED  BY <2>1, <2>2, <3>1, SameJudged DEF GuardWanted, WantConnected
  <2> QED  BY <2>3, <2>4
<1>4. CoreAlone'
  BY <1>0
     DEF AutoConnect, AutoConnectTo, CoreAlone, CoreLabels, Goroutines, Same, Moved, Keeps,
         Fresh, OnlyRun, RunKept, OpMuFree, Dormant, Quiet
<1> QED  BY <1>1, <1>2, <1>3, <1>4

\* A removal at hand is still a right one, or an overtaken one, after the shutdown.
LEMMA ShutdownJudged ==
    ASSUME Shape, Judged, Shutdown
    PROVE  Judged'
<1>0. ShutdownTo
  BY ShutdownMoves
<1> USE GuardConstants DEF Shape, Judged
<1>1. Dormant'
  BY <1>0
     DEF Shutdown, ShutdownTo, Dormant, Quiet, Places, LoopAt, HandlerAt, At, SavePlaces,
         SyncLabels, HoldLabels, PreServe, Goroutines, Only, Same, Moved, Keeps, cfgVars,
         wishVars, guardVars
<1>2. AskedIsWish'
  BY <1>0 DEF Shutdown, ShutdownTo, AskedIsWish, WantConnected, cfgVars, wishVars, guardVars
<1>3. ClearIsJudged'
  BY <1>0
     DEF Shutdown, ShutdownTo, ClearIsJudged, Opening, WantConnected, GuardWanted, Dormant,
         Quiet, Goroutines, Only, Same, Moved, Keeps, cfgVars, wishVars, guardVars
<1>4. CoreAlone'
  BY <1>0
     DEF Shutdown, ShutdownTo, CoreAlone, CoreLabels, Goroutines, Only, Same, Moved, Keeps,
         OpMuFree
<1> QED  BY <1>1, <1>2, <1>3, <1>4

\* A removal at hand is still a right one, or an overtaken one, after the end of the process.
LEMMA ExitJudged ==
    ASSUME Shape, Judged, Exit
    PROVE  Judged'
<1>1. Emptied
  BY DEF Exit, Die, Emptied
<1>2. /\ ~wanted' /\ ~bootWanted' /\ ~closed' /\ ~asked' /\ ~guardHold'
      /\ guardApplied' = "none"
  BY DEF Exit, Die
<1> QED
  BY <1>1, <1>2, EmptiedMoves
     DEF Judged, Dormant, Quiet, AskedIsWish, ClearIsJudged, WantConnected, PreServe,
         Goroutines, CoreAlone, CoreLabels, Opening

\* A removal at hand is still a right one, or an overtaken one, after a crash or a power cut.
LEMMA KillJudged ==
    ASSUME Shape, Judged, Kill
    PROVE  Judged'
<1>1. Emptied
  BY DEF Kill, Die, Emptied
<1>2. /\ ~wanted' /\ ~bootWanted' /\ ~closed' /\ ~asked' /\ ~guardHold'
      /\ guardApplied' = "none"
  BY DEF Kill, Die
<1> QED
  BY <1>1, <1>2, EmptiedMoves
     DEF Judged, Dormant, Quiet, AskedIsWish, ClearIsJudged, WantConnected, PreServe,
         Goroutines, CoreAlone, CoreLabels, Opening

\* A removal at hand is still a right one, or an overtaken one, after a request to stop the service.
LEMMA StopJudged ==
    ASSUME Shape, Judged, Stop
    PROVE  Judged'
<1>0. StopTo
  BY StopMoves
<1> USE GuardConstants DEF Shape, Judged
<1>1. Dormant'
  BY <1>0
     DEF Stop, Fault, StopTo, Dormant, Quiet, Places, LoopAt, HandlerAt, At, SavePlaces,
         SyncLabels, HoldLabels, PreServe, Goroutines, Only, Same, Moved, Keeps, cfgVars,
         runVars, guardVars
<1>2. AskedIsWish'
  BY <1>0 DEF Stop, Fault, StopTo, AskedIsWish, WantConnected, cfgVars, runVars, guardVars
<1>3. ClearIsJudged'
  BY <1>0
     DEF Stop, Fault, StopTo, ClearIsJudged, Opening, WantConnected, GuardWanted, Dormant,
         Quiet, Goroutines, Only, Same, Moved, Keeps, cfgVars, runVars, guardVars
<1>4. CoreAlone'
  BY <1>0
     DEF Stop, Fault, StopTo, CoreAlone, CoreLabels, Goroutines, Only, Same, Moved, Keeps
<1> QED  BY <1>1, <1>2, <1>3, <1>4

\* A removal at hand is still a right one, or an overtaken one, after another program flushing the filter.
LEMMA TamperJudged ==
    ASSUME Shape, Judged, Tamper
    PROVE  Judged'
<1> QED  BY DEF Tamper, Judged, Dormant, Quiet, AskedIsWish, ClearIsJudged, WantConnected,
                GuardWanted, cfgVars, wishVars, runVars, CoreAlone, Opening

\* Before the first start nobody judges.
LEMMA JudgedInit ==
    ASSUME Init
    PROVE  Judged
<1>1. /\ pc["boot"] = "dead" /\ pc["run"] = "off" /\ pc["watch"] = "idle"
      /\ \A h \in Handlers : pc[h] = "idle"
      /\ \A g \in Goroutines : pc[g] \in {"idle", "off", "dead"}
  BY GuardConstants DEF Init, Goroutines
<1>2. /\ ~closed /\ ~wanted /\ ~bootWanted /\ ~asked /\ ~guardHold
      /\ guardApplied = "none"
  BY DEF Init
<1> QED  BY <1>1, <1>2
            DEF Judged, Dormant, Quiet, PreServe, AskedIsWish, WantConnected, ClearIsJudged,
                Opening, CoreAlone, CoreLabels

\* Every step keeps the judgements right, or overtaken.
LEMMA JudgedNext ==
    ASSUME Shape, Judged, [Next]_vars
    PROVE  Judged'
<1>1. ASSUME NEW g \in Goroutines, GoroutineStep(g)  PROVE Judged'
  BY <1>1, SyncEnterJudged, SyncLockJudged, SyncDecideJudged, InstallJudged, RecordJudged,
     ClearJudged, ClearedJudged, GuardReadyJudged, GuardGoneJudged, TunUpJudged,
     PrepareJudged DEF GoroutineStep, SyncStep
<1>2. ASSUME NEW h \in Handlers, HandlerStep(h)  PROVE Judged'
  BY <1>2, ConnectJudged, RemoveWriteJudged, RemoveForgetJudged, DisconnectJudged,
     UnholdJudged, HaltJudged, BuiltJudged, SwapJudged, SaveJudged, ChooseJudged,
     HoldJudged, StartCheckedJudged, StartedJudged, RollbackJudged, SettleJudged,
     AbandonJudged DEF HandlerStep
<1>3. CASE RunStep \/ Watch
  BY <1>3, RunLoopJudged, RunBuiltJudged, RunStartJudged, RunUpJudged, WatchJudged
     DEF RunStep
<1>4. CASE BootStep
  BY <1>4, BootJudged, ReconcileJudged, AutoConnectJudged, ShutdownJudged, ExitJudged
     DEF BootStep
<1>5. ASSUME NEW h \in Handlers, NEW op \in AllOps, Call(h, op)  PROVE Judged'
  BY <1>5, CallJudged
<1>6. CASE Stop \/ Kill \/ Tamper
  BY <1>6, StopJudged, KillJudged, TamperJudged
<1>7. CASE UNCHANGED vars
  BY <1>7
     DEF Judged, Dormant, Quiet, AskedIsWish, WantConnected, ClearIsJudged, Opening,
         GuardWanted, CoreAlone, vars, cfgVars, wishVars, runVars, guardVars
<1> QED  BY <1>1, <1>2, <1>3, <1>4, <1>5, <1>6, <1>7 DEF Next, Progress

\* The service never takes the filter away while the user's last request was to be
\* connected and the settings ask for it, unless the decision was taken before that (Run:
\* "only four things remove the guard"), or it is the reconciliation at boot and a handler
\* was called before it was over.  Of the constants nothing is assumed.
THEOREM GuardOpensOnRequest == Spec => OpenedOnlyOnRequest
<1>1. Init => Shape /\ Judged
  BY ShapeInit, JudgedInit
<1>2. Shape /\ Judged /\ [Next]_vars => (Shape /\ Judged)'
  BY ShapeNext, JudgedNext
<1>3. Shape /\ Judged /\ [Next]_vars =>
         [\A g \in Goroutines : pc[g] = "clear" /\ pc'[g] = "cleared" =>
              \/ ~asked \/ ~GuardOn(settings) \/ late
              \/ g = "boot" /\ early]_vars
  <2>1. ASSUME Judged, NEW g \in Goroutines, pc[g] = "clear"
        PROVE  \/ ~asked \/ ~GuardOn(settings) \/ late
               \/ g = "boot" /\ early
    BY <2>1 DEF Judged, ClearIsJudged, Opening, AskedIsWish, GuardWanted
  <2> QED  BY <2>1
<1> QED  BY <1>1, <1>2, <1>3, PTL DEF Spec, OpenedOnlyOnRequest

-----------------------------------------------------------------------------
\* A privacy transaction is rebuilding the data plane
Rebuilding(h) ==
    loc[h].op = "save" /\ At(h, SavePlaces, {"ready"})

\* The settings were changed by h, which has not come to its alignment yet
SaveBusy(h) ==
    \/ Rebuilding(h)
    \/ loc[h].op = "save" /\ pc[h] \in {"sync", "queue"}
    \/ pc[h] = "choose" /\ loc[h].prev # settings

\* An alignment will follow
Bound(g) ==
    \/ pc[g] \in {"sync", "queue"}
    \/ /\ g \in Handlers
       /\ \/ SaveBusy(g)
          \/ loc[g].op = "connect" /\ pc[g] = "connect"
          \/ loc[g].op = "disconnect" /\ pc[g] \in {"disconnect", "halt", "unhold"}
          \/ loc[g].op = "remove" /\ pc[g] \in {"forget", "disconnect", "halt"}

SavePending == \E h \in Handlers : SaveBusy(h)
Pending == \E g \in Goroutines : Bound(g)

\* What may have overtaken a judgement
Excused == closed \/ SavePending \/ (late /\ (Pending \/ owed))

\* The places where a judgement waits for its transaction
Deciding == {"decide", "install", "clear"}

OneHolder == \A g, k \in Goroutines \ {"boot"} :
                pc[g] \in HoldLabels /\ pc[k] \in HoldLabels => g = k
OneSave == \A h, k \in Handlers : loc[h].op = "save" /\ loc[k].op = "save" => h = k
CoreStopped == \A h \in Handlers : pc[h] \in CoreLabels \ {"halt"} => pc["run"] = "off"
RefreshWanted == \A h \in Handlers : loc[h].op = "refresh" /\ pc[h] = "halt" => wanted

SaveKnows == \A h \in Handlers : loc[h].op = "save" =>
    IF pc[h] = "save" THEN loc[h].prev = settings
    ELSE trusted /\ (pc[h] = "choose" => loc[h].new = settings)
HoldIsOwned == guardHold => \E h \in Handlers : Rebuilding(h)

Accurate == \A g \in Goroutines \ {"boot"} :
    /\ pc[g] = "decide" => (loc[g].act = "want" <=> GuardWanted) \/ Excused
    /\ pc[g] = "install" => GuardWanted \/ Excused
    /\ pc[g] = "clear" => ~GuardWanted \/ Excused
BootAccurate ==
    /\ pc["boot"] = "install" => GuardWanted \/ disk = "unknown"
    /\ pc["boot"] = "clear" => ~GuardWanted

RecordIsFw ==
    /\ \A g \in Goroutines : pc[g] = "record" => fw \in {"none", loc[g].act}
    /\ pc["boot"] \in PreServe => \A g \in Goroutines :
          pc[g] = "record" => loc[g].act = GuardSpec(settings)
FwRecorded ==
    fw # "none" => \/ guardApplied \in {"none", fw}
                   \/ \E g \in Goroutines : pc[g] = "record"

Target == IF GuardWanted THEN GuardSpec(settings) ELSE "none"
Aligned ==
    \/ closed \/ disk = "unknown" \/ fw = Target \/ owed \/ Pending
    \/ \E g \in Goroutines : pc[g] \in Deciding
    \/ pc["boot"] \in {"dead", "reconcile"}

Order == OneHolder /\ OneSave /\ CoreStopped /\ RefreshWanted
Settling == Order /\ SaveKnows /\ HoldIsOwned /\ Accurate /\ BootAccurate
            /\ RecordIsFw /\ FwRecorded /\ Aligned

\* An alignment that was to follow still is, if nobody has made it.
LEMMA PendingKept ==
    /\ (\A h \in Handlers : SaveBusy(h) => SaveBusy(h)') => (SavePending => SavePending')
    /\ (\A g \in Goroutines : Bound(g) => Bound(g)') => (Pending => Pending')
BY DEF SavePending, Pending

\* A handler that changed the settings is to make an alignment.
LEMMA BusyIsBound ==
    /\ SavePending => Pending
    /\ SavePending' => Pending'
BY DEF SavePending, Pending, Bound, Goroutines

\* Nobody of S comes to a judgement or leaves one
Judging(S) == \A g \in S :
    /\ pc[g] \in Deciding \/ pc'[g] \in Deciding => pc'[g] = pc[g]
    /\ pc'[g] = "decide" => loc'[g].act = loc[g].act

\* Judgements stay accurate where nobody judges and nothing is judged by changes.
LEMMA AccurateKept ==
    ASSUME Accurate, Judging(Goroutines \ {"boot"}),
           closed \/ SavePending => closed' \/ SavePending',
           late /\ (Pending \/ owed) => Pending' \/ owed',
           GuardWanted' <=> GuardWanted,
           late' = late \/ late' = ~GuardMuFree
    PROVE  Accurate'
<1> SUFFICES ASSUME NEW g \in Goroutines \ {"boot"}, pc'[g] \in Deciding
             PROVE  /\ pc'[g] = "decide" => (loc'[g].act = "want" <=> GuardWanted') \/ Excused'
                    /\ pc'[g] = "install" => GuardWanted' \/ Excused'
                    /\ pc'[g] = "clear" => ~GuardWanted' \/ Excused'
  BY DEF Accurate, Deciding
<1>1. pc'[g] = pc[g] /\ (pc'[g] = "decide" => loc'[g].act = loc[g].act)
  BY DEF Judging
<1>2. late => late'
  BY <1>1 DEF GuardMuFree, Deciding, HoldLabels
<1>3. Excused => Excused'
  BY <1>2 DEF Excused
<1> QED  BY <1>1, <1>3 DEF Accurate

\* A change that somebody is to align for, or that is noted as owed, excuses the
\* judgements it overtakes.
LEMMA AccurateLate ==
    ASSUME Judging(Goroutines \ {"boot"}), Pending' \/ owed', late' = ~GuardMuFree
    PROVE  Accurate'
<1> SUFFICES ASSUME NEW g \in Goroutines \ {"boot"}, pc'[g] \in Deciding
             PROVE  Excused'
  BY DEF Accurate, Deciding
<1>1. late'
  BY DEF Judging, GuardMuFree, Deciding, HoldLabels
<1> QED  BY <1>1 DEF Excused

\* The filter stays aligned where neither it nor what is wanted changes.
LEMMA AlignedKept ==
    ASSUME Aligned, Judging(Goroutines),
           closed \/ owed \/ Pending => closed' \/ owed' \/ Pending',
           disk' = disk, fw' = fw, Target' = Target,
           pc["boot"] \in {"dead", "reconcile"} => pc'["boot"] = pc["boot"]
    PROVE  Aligned'
BY DEF Aligned, Judging

\* What holds of all goroutines holds of those besides boot.
LEMMA JudgingAll ==
    ASSUME Judging(Goroutines)  PROVE  Judging(Goroutines \ {"boot"})
BY DEF Judging

\* The hold stays owned.
LEMMA HoldKept ==
    ASSUME HoldIsOwned, guardHold' => guardHold,
           \A h \in Handlers : Rebuilding(h) => Rebuilding(h)'
    PROVE  HoldIsOwned'
BY DEF HoldIsOwned

\* In the life of this process no handler was called early and no removal wrote
\* older settings back, this step included.
Excusable == early \/ undone
Tame == ~early /\ ~undone /\ ~early' /\ ~undone'

\* The filter is what it should be, or somebody is still to align it, after the note that the filter is installed.
LEMMA RecordSettling ==
    ASSUME Tame, Shape, Judged, Settling, NEW g \in Goroutines, Record(g)
    PROVE  Settling'
<1>0. RecordTo(g)
  BY RecordMoves
<1> USE GuardConstants DEF Tame, Shape, Judged, Settling, Order
<1>1. OneHolder'
  BY <1>0
     DEF Record, RecordTo, OneHolder, Places, LoopAt, HandlerAt, At, SavePlaces,
         SyncLabels, HoldLabels, PreServe, Goroutines, Only, Same, Returned, Answered,
         Keeps, Fresh
<1>2. OneSave' /\ CoreStopped' /\ RefreshWanted'
  BY <1>0
     DEF Record, RecordTo, OneSave, CoreStopped, RefreshWanted, CoreLabels, Goroutines,
         CoreAlone, Places, LoopAt, HandlerAt, At, SavePlaces, SyncLabels, HoldLabels,
         PreServe, Only, Same, Returned, Answered, Keeps, Fresh, cfgVars, wishVars, runVars
<1>3. \A k \in Handlers : Rebuilding(k) => Rebuilding(k)'
  BY <1>0
     DEF Record, RecordTo, Rebuilding, Places, LoopAt, HandlerAt, At, SavePlaces,
         SyncLabels, HoldLabels, PreServe, Goroutines, Only, Same, Returned, Answered,
         Keeps, Fresh
<1>4. \A k \in Handlers : SaveBusy(k) => SaveBusy(k)'
  BY <1>0
     DEF Record, RecordTo, SaveBusy, Rebuilding, Places, LoopAt, HandlerAt, At, SavePlaces,
         SyncLabels, HoldLabels, PreServe, Goroutines, Only, Same, Returned, Answered,
         Keeps, Fresh, cfgVars, wishVars, runVars
<1>5. \A k \in Goroutines : Bound(k) => Bound(k)'
  BY <1>0, <1>4
     DEF Record, RecordTo, Bound, CoreStopped, CoreLabels, Goroutines, Only, Same, Returned,
         Answered, Keeps, Fresh
<1>6. SaveKnows'
  BY <1>0
     DEF Record, RecordTo, SaveKnows, Places, LoopAt, HandlerAt, At, SavePlaces, SyncLabels,
         HoldLabels, PreServe, Goroutines, Only, Same, Returned, Answered, Keeps, Fresh,
         cfgVars, wishVars, runVars
<1>7. HoldIsOwned'
  BY <1>3, HoldKept DEF Record, cfgVars, wishVars, runVars
<1>8. Judging(Goroutines)
  BY <1>0
     DEF Record, RecordTo, Judging, Deciding, CoreStopped, CoreLabels, Places, LoopAt,
         HandlerAt, At, SavePlaces, SyncLabels, HoldLabels, PreServe, Goroutines, Only,
         Same, Returned, Answered, Keeps, Fresh
<1>9. Accurate'
  BY <1>4, <1>5, <1>8, JudgingAll, PendingKept, AccurateKept
     DEF Record, GuardWanted, WantConnected, cfgVars, wishVars, runVars
<1>10. BootAccurate' /\ RecordIsFw'
  BY <1>0
     DEF Record, RecordTo, BootAccurate, RecordIsFw, GuardWanted, WantConnected,
         CoreStopped, CoreLabels, Places, LoopAt, HandlerAt, At, SavePlaces, SyncLabels,
         HoldLabels, PreServe, Goroutines, Only, Same, Returned, Answered, Keeps, Fresh,
         cfgVars, wishVars, runVars
<1>11. FwRecorded'
  BY <1>0
     DEF Record, RecordTo, FwRecorded, RecordIsFw, CoreStopped, CoreLabels, Goroutines,
         Only, Same, Returned, Answered, Keeps, Fresh, cfgVars, wishVars, runVars
<1>12. Aligned'
  BY <1>0, <1>5, <1>8, PendingKept, AlignedKept
     DEF Record, RecordTo, Target, GuardWanted, WantConnected, Only, Same, Returned,
         Answered, Keeps, Fresh, Goroutines, cfgVars, wishVars, runVars
<1> QED
  BY <1>1, <1>2, <1>3, <1>4, <1>5, <1>6, <1>7, <1>8, <1>9, <1>10, <1>11, <1>12

\* The filter is what it should be, or somebody is still to align it, after the note that the filter is gone.
LEMMA ClearedSettling ==
    ASSUME Tame, Shape, Judged, Settling, NEW g \in Goroutines, Cleared(g)
    PROVE  Settling'
<1>0. ClearedTo(g)
  BY ClearedMoves
<1> USE GuardConstants DEF Tame, Shape, Judged, Settling, Order
<1>1. OneHolder'
  BY <1>0
     DEF Cleared, ClearedTo, OneHolder, Places, LoopAt, HandlerAt, At,
         SavePlaces, SyncLabels, HoldLabels, PreServe, Goroutines, Only, Same, Returned,
         Answered, Keeps, Fresh
<1>2. OneSave' /\ CoreStopped' /\ RefreshWanted'
  BY <1>0
     DEF Cleared, ClearedTo, OneSave, CoreStopped, RefreshWanted, CoreLabels, Goroutines,
         CoreAlone, Places, LoopAt, HandlerAt, At, SavePlaces, SyncLabels, HoldLabels,
         PreServe, Only, Same, Returned, Answered, Keeps, Fresh, cfgVars, wishVars, runVars
<1>3. \A k \in Handlers : Rebuilding(k) => Rebuilding(k)'
  BY <1>0
     DEF Cleared, ClearedTo, Rebuilding, Places, LoopAt, HandlerAt, At, SavePlaces,
         SyncLabels, HoldLabels, PreServe, Goroutines, Only, Same, Returned, Answered,
         Keeps, Fresh
<1>4. \A k \in Handlers : SaveBusy(k) => SaveBusy(k)'
  BY <1>0
     DEF Cleared, ClearedTo, SaveBusy, Rebuilding, Places, LoopAt, HandlerAt, At,
         SavePlaces, SyncLabels, HoldLabels, PreServe, Goroutines, Only, Same, Returned,
         Answered, Keeps, Fresh, cfgVars, wishVars, runVars
<1>5. \A k \in Goroutines : Bound(k) => Bound(k)'
  BY <1>0, <1>4
     DEF Cleared, ClearedTo, Bound, CoreStopped, CoreLabels, Goroutines, Only, Same,
         Returned, Answered, Keeps, Fresh
<1>6. SaveKnows'
  BY <1>0
     DEF Cleared, ClearedTo, SaveKnows, Places, LoopAt, HandlerAt, At, SavePlaces,
         SyncLabels, HoldLabels, PreServe, Goroutines, Only, Same, Returned, Answered,
         Keeps, Fresh, cfgVars, wishVars, runVars
<1>7. HoldIsOwned'
  BY <1>3, HoldKept DEF Cleared, cfgVars, wishVars, runVars
<1>8. Judging(Goroutines)
  BY <1>0
     DEF Cleared, ClearedTo, Judging, Deciding, CoreStopped, CoreLabels, Places, LoopAt,
         HandlerAt, At, SavePlaces, SyncLabels, HoldLabels, PreServe, Goroutines, Only,
         Same, Returned, Answered, Keeps, Fresh
<1>9. Accurate'
  BY <1>4, <1>5, <1>8, JudgingAll, PendingKept, AccurateKept
     DEF Cleared, GuardWanted, WantConnected, cfgVars, wishVars, runVars
<1>10. BootAccurate' /\ RecordIsFw'
  BY <1>0
     DEF Cleared, ClearedTo, BootAccurate, RecordIsFw, GuardWanted, WantConnected,
         CoreStopped, CoreLabels, Places, LoopAt, HandlerAt, At, SavePlaces, SyncLabels,
         HoldLabels, PreServe, Goroutines, Only, Same, Returned, Answered, Keeps, Fresh,
         cfgVars, wishVars, runVars
<1>11. FwRecorded'
  BY <1>0
     DEF Cleared, ClearedTo, FwRecorded, RecordIsFw, CoreStopped, CoreLabels, Goroutines,
         Only, Same, Returned, Answered, Keeps, Fresh, cfgVars, wishVars, runVars
<1>12. Aligned'
  BY <1>0, <1>5, <1>8, PendingKept, AlignedKept
     DEF Cleared, ClearedTo, Target, GuardWanted, WantConnected, Only, Same, Returned,
         Answered, Keeps, Fresh, Goroutines, cfgVars, wishVars, runVars
<1> QED
  BY <1>1, <1>2, <1>3, <1>4, <1>5, <1>6, <1>7, <1>8, <1>9, <1>10, <1>11, <1>12

\* The filter is what it should be, or somebody is still to align it, after guardReady looking for the filter.
LEMMA GuardReadySettling ==
    ASSUME Tame, Shape, Judged, Settling, NEW g \in Goroutines, GuardReady(g)
    PROVE  Settling'
<1>0. GuardReadyTo(g)
  BY GuardReadyMoves
<1> USE GuardConstants DEF Tame, Shape, Judged, Settling, Order
<1>1. OneHolder'
  BY <1>0
     DEF GuardReady, AfterReady, Fault, NoFault, GuardReadyTo, OneHolder, Places,
         LoopAt, HandlerAt, At, SavePlaces, SyncLabels, HoldLabels, PreServe, Goroutines,
         Only, Same, Moved, Synced, Keeps
<1>2. OneSave' /\ CoreStopped' /\ RefreshWanted'
  BY <1>0
     DEF GuardReady, AfterReady, Fault, NoFault, GuardReadyTo, OneSave, CoreStopped,
         RefreshWanted, CoreLabels, Goroutines, CoreAlone, Only, Same, Moved, Synced, Keeps,
         cfgVars, wishVars, runVars, guardVars
<1>3. \A k \in Handlers : Rebuilding(k) => Rebuilding(k)'
  BY <1>0
     DEF GuardReady, AfterReady, Fault, NoFault, GuardReadyTo, Rebuilding, Places, LoopAt,
         HandlerAt, At, SavePlaces, SyncLabels, HoldLabels, PreServe, Goroutines, Only,
         Same, Moved, Synced, Keeps
<1>4. \A k \in Handlers : SaveBusy(k) => SaveBusy(k)'
  BY <1>0
     DEF GuardReady, AfterReady, Fault, NoFault, GuardReadyTo, SaveBusy, Rebuilding, Places,
         LoopAt, HandlerAt, At, SavePlaces, SyncLabels, HoldLabels, PreServe, Goroutines,
         Only, Same, Moved, Synced, Keeps, cfgVars, wishVars, runVars, guardVars
<1>5. \A k \in Goroutines : Bound(k) => Bound(k)'
  BY <1>0, <1>4
     DEF GuardReady, AfterReady, Fault, NoFault, GuardReadyTo, Bound, CoreStopped,
         CoreLabels, Goroutines, Only, Same, Moved, Synced, Keeps
<1>6. SaveKnows'
  BY <1>0
     DEF GuardReady, AfterReady, Fault, NoFault, GuardReadyTo, SaveKnows, Goroutines, Only,
         Same, Moved, Synced, Keeps, cfgVars, wishVars, runVars, guardVars
<1>7. HoldIsOwned'
  BY <1>3, HoldKept
     DEF GuardReady, AfterReady, Fault, NoFault, cfgVars, wishVars, runVars, guardVars
<1>8. Judging(Goroutines)
  BY <1>0
     DEF GuardReady, AfterReady, Fault, NoFault, GuardReadyTo, Judging, Deciding,
         CoreStopped, CoreLabels, Goroutines, Only, Same, Moved, Synced, Keeps
<1>9. Accurate'
  BY <1>4, <1>5, <1>8, JudgingAll, PendingKept, AccurateKept
     DEF GuardReady, AfterReady, Fault, NoFault, GuardWanted, WantConnected, cfgVars,
         wishVars, runVars, guardVars
<1>10. BootAccurate' /\ RecordIsFw'
  BY <1>0
     DEF GuardReady, AfterReady, Fault, NoFault, GuardReadyTo, BootAccurate, RecordIsFw,
         GuardWanted, WantConnected, CoreStopped, CoreLabels, Places, LoopAt, HandlerAt, At,
         SavePlaces, SyncLabels, HoldLabels, PreServe, Goroutines, Only, Same, Moved,
         Synced, Keeps, cfgVars, wishVars, runVars, guardVars
<1>11. FwRecorded'
  BY <1>0
     DEF GuardReady, AfterReady, Fault, NoFault, GuardReadyTo, FwRecorded, RecordIsFw,
         CoreStopped, CoreLabels, Goroutines, Only, Same, Moved, Synced, Keeps, cfgVars,
         wishVars, runVars, guardVars
<1>12. Aligned'
  BY <1>0, <1>5, <1>8, PendingKept, AlignedKept
     DEF GuardReady, AfterReady, Fault, NoFault, GuardReadyTo, Target, GuardWanted,
         WantConnected, Only, Same, Moved, Synced, Keeps, Goroutines, cfgVars, wishVars,
         runVars, guardVars
<1> QED
  BY <1>1, <1>2, <1>3, <1>4, <1>5, <1>6, <1>7, <1>8, <1>9, <1>10, <1>11, <1>12

\* The filter is what it should be, or somebody is still to align it, after guardReady noting that there is none.
LEMMA GuardGoneSettling ==
    ASSUME Tame, Shape, Judged, Settling, NEW g \in Goroutines, GuardGone(g)
    PROVE  Settling'
<1>0. GuardGoneTo(g)
  BY GuardGoneMoves
<1> USE GuardConstants DEF Tame, Shape, Judged, Settling, Order
<1>1. OneHolder'
  BY <1>0
     DEF GuardGone, AfterReady, GuardGoneTo, OneHolder, Places, LoopAt,
         HandlerAt, At, SavePlaces, SyncLabels, HoldLabels, PreServe, Goroutines, Only,
         Same, Moved, Synced, Keeps
<1>2. OneSave' /\ CoreStopped' /\ RefreshWanted'
  BY <1>0
     DEF GuardGone, AfterReady, GuardGoneTo, OneSave, CoreStopped, RefreshWanted,
         CoreLabels, Goroutines, CoreAlone, Only, Same, Moved, Synced, Keeps, cfgVars,
         wishVars, runVars
<1>3. \A k \in Handlers : Rebuilding(k) => Rebuilding(k)'
  BY <1>0
     DEF GuardGone, AfterReady, GuardGoneTo, Rebuilding, Places, LoopAt, HandlerAt, At,
         SavePlaces, SyncLabels, HoldLabels, PreServe, Goroutines, Only, Same, Moved,
         Synced, Keeps
<1>4. \A k \in Handlers : SaveBusy(k) => SaveBusy(k)'
  BY <1>0
     DEF GuardGone, AfterReady, GuardGoneTo, SaveBusy, Rebuilding, Places, LoopAt,
         HandlerAt, At, SavePlaces, SyncLabels, HoldLabels, PreServe, Goroutines, Only,
         Same, Moved, Synced, Keeps, cfgVars, wishVars, runVars
<1>5. \A k \in Goroutines : Bound(k) => Bound(k)'
  BY <1>0, <1>4
     DEF GuardGone, AfterReady, GuardGoneTo, Bound, CoreStopped, CoreLabels, Goroutines,
         Only, Same, Moved, Synced, Keeps
<1>6. SaveKnows'
  BY <1>0
     DEF GuardGone, AfterReady, GuardGoneTo, SaveKnows, Goroutines, Only, Same, Moved,
         Synced, Keeps, cfgVars, wishVars, runVars
<1>7. HoldIsOwned'
  BY <1>3, HoldKept DEF GuardGone, AfterReady, cfgVars, wishVars, runVars
<1>8. Judging(Goroutines)
  BY <1>0
     DEF GuardGone, AfterReady, GuardGoneTo, Judging, Deciding, CoreStopped, CoreLabels,
         Goroutines, Only, Same, Moved, Synced, Keeps
<1>9. Accurate'
  BY <1>4, <1>5, <1>8, JudgingAll, PendingKept, AccurateKept
     DEF GuardGone, AfterReady, GuardWanted, WantConnected, cfgVars, wishVars, runVars
<1>10. BootAccurate' /\ RecordIsFw'
  BY <1>0
     DEF GuardGone, AfterReady, GuardGoneTo, BootAccurate, RecordIsFw, GuardWanted,
         WantConnected, CoreStopped, CoreLabels, Places, LoopAt, HandlerAt, At, SavePlaces,
         SyncLabels, HoldLabels, PreServe, Goroutines, Only, Same, Moved, Synced, Keeps,
         cfgVars, wishVars, runVars
<1>11. FwRecorded'
  BY <1>0
     DEF GuardGone, AfterReady, GuardGoneTo, FwRecorded, RecordIsFw, CoreStopped,
         CoreLabels, Goroutines, Only, Same, Moved, Synced, Keeps, cfgVars, wishVars,
         runVars
<1>12. Aligned'
  BY <1>0, <1>5, <1>8, PendingKept, AlignedKept
     DEF GuardGone, AfterReady, GuardGoneTo, Target, GuardWanted, WantConnected, Only, Same,
         Moved, Synced, Keeps, Goroutines, cfgVars, wishVars, runVars
<1> QED
  BY <1>1, <1>2, <1>3, <1>4, <1>5, <1>6, <1>7, <1>8, <1>9, <1>10, <1>11, <1>12

\* The filter is what it should be, or somebody is still to align it, after guardTunUp at the end of a start.
LEMMA TunUpSettling ==
    ASSUME Tame, Shape, Judged, Settling, NEW g \in Goroutines, TunUp(g)
    PROVE  Settling'
<1>0. TunUpTo(g)
  BY TunUpMoves
<1> USE GuardConstants DEF Tame, Shape, Judged, Settling, Order
<1>1. OneHolder'
  BY <1>0
     DEF TunUp, TunUpTo, OneHolder, Places, LoopAt, HandlerAt, At, SavePlaces,
         SyncLabels, HoldLabels, PreServe, Goroutines, Only, Same, Moved, Keeps
<1>2. OneSave' /\ CoreStopped' /\ RefreshWanted'
  BY <1>0
     DEF TunUp, TunUpTo, OneSave, CoreStopped, RefreshWanted, CoreLabels, Goroutines,
         CoreAlone, Only, Same, Moved, Keeps, cfgVars, wishVars, runVars
<1>3. \A k \in Handlers : Rebuilding(k) => Rebuilding(k)'
  BY <1>0
     DEF TunUp, TunUpTo, Rebuilding, Places, LoopAt, HandlerAt, At, SavePlaces, SyncLabels,
         HoldLabels, PreServe, Goroutines, Only, Same, Moved, Keeps
<1>4. \A k \in Handlers : SaveBusy(k) => SaveBusy(k)'
  BY <1>0
     DEF TunUp, TunUpTo, SaveBusy, Rebuilding, Places, LoopAt, HandlerAt, At, SavePlaces,
         SyncLabels, HoldLabels, PreServe, Goroutines, Only, Same, Moved, Keeps, cfgVars,
         wishVars, runVars
<1>5. \A k \in Goroutines : Bound(k) => Bound(k)'
  BY <1>0, <1>4
     DEF TunUp, TunUpTo, Bound, CoreStopped, CoreLabels, Goroutines, Only, Same, Moved,
         Keeps
<1>6. SaveKnows'
  BY <1>0
     DEF TunUp, TunUpTo, SaveKnows, Goroutines, Only, Same, Moved, Keeps, cfgVars, wishVars,
         runVars
<1>7. HoldIsOwned'
  BY <1>3, HoldKept DEF TunUp, cfgVars, wishVars, runVars
<1>8. Judging(Goroutines)
  BY <1>0
     DEF TunUp, TunUpTo, Judging, Deciding, CoreStopped, CoreLabels, Goroutines, Only, Same,
         Moved, Keeps
<1>9. Accurate'
  BY <1>4, <1>5, <1>8, JudgingAll, PendingKept, AccurateKept
     DEF TunUp, GuardWanted, WantConnected, cfgVars, wishVars, runVars
<1>10. BootAccurate' /\ RecordIsFw'
  BY <1>0
     DEF TunUp, TunUpTo, BootAccurate, RecordIsFw, GuardWanted, WantConnected, CoreStopped,
         CoreLabels, Places, LoopAt, HandlerAt, At, SavePlaces, SyncLabels, HoldLabels,
         PreServe, Goroutines, Only, Same, Moved, Keeps, cfgVars, wishVars, runVars
<1>11. FwRecorded'
  BY <1>0
     DEF TunUp, TunUpTo, FwRecorded, RecordIsFw, CoreStopped, CoreLabels, Goroutines, Only,
         Same, Moved, Keeps, cfgVars, wishVars, runVars
<1>12. Aligned'
  BY <1>0, <1>5, <1>8, PendingKept, AlignedKept
     DEF TunUp, TunUpTo, Target, GuardWanted, WantConnected, Only, Same, Moved, Keeps,
         Goroutines, cfgVars, wishVars, runVars
<1> QED
  BY <1>1, <1>2, <1>3, <1>4, <1>5, <1>6, <1>7, <1>8, <1>9, <1>10, <1>11, <1>12

\* The filter is what it should be, or somebody is still to align it, after the preparation of a configuration.
LEMMA PrepareSettling ==
    ASSUME Tame, Shape, Judged, Settling, NEW g \in Goroutines, Prepare(g)
    PROVE  Settling'
<1>0. PrepareTo(g)
  BY PrepareMoves
<1> USE GuardConstants DEF Tame, Shape, Judged, Settling, Order
<1>a. pc[g] = "prep" /\ UNCHANGED <<cfgVars, wishVars, late, guardVars>>
  BY DEF Prepare, runVars
<1>1. OneHolder'
  BY <1>0, <1>a
     DEF PrepareTo, OneHolder, Places, LoopAt, HandlerAt, At, SavePlaces,
         SyncLabels, HoldLabels, PreServe, Goroutines, Only, Same, Synced, Keeps
<1>2. OneSave' /\ CoreStopped' /\ RefreshWanted'
  BY <1>0, <1>a
     DEF PrepareTo, OneSave, CoreStopped, RefreshWanted, CoreLabels, Goroutines, CoreAlone,
         Only, Same, Synced, Keeps, cfgVars, wishVars, guardVars
<1>3. \A k \in Handlers : Rebuilding(k) => Rebuilding(k)'
  BY <1>0, <1>a
     DEF PrepareTo, Rebuilding, Places, LoopAt, HandlerAt, At, SavePlaces, SyncLabels,
         HoldLabels, PreServe, Goroutines, Only, Same, Synced, Keeps
<1>4. \A k \in Handlers : SaveBusy(k) => SaveBusy(k)'
  BY <1>0, <1>a
     DEF PrepareTo, SaveBusy, Rebuilding, Places, LoopAt, HandlerAt, At, SavePlaces,
         SyncLabels, HoldLabels, PreServe, Goroutines, Only, Same, Synced, Keeps, cfgVars,
         wishVars, guardVars
<1>5. \A k \in Goroutines : Bound(k) => Bound(k)'
  BY <1>0, <1>4, <1>a
     DEF PrepareTo, Bound, CoreStopped, CoreLabels, Goroutines, Only, Same, Synced, Keeps
<1>6. SaveKnows'
  BY <1>0, <1>a
     DEF PrepareTo, SaveKnows, Goroutines, Only, Same, Synced, Keeps, cfgVars, wishVars,
         guardVars
<1>7. HoldIsOwned'
  BY <1>3, HoldKept, <1>a DEF cfgVars, wishVars, guardVars
<1>8. Judging(Goroutines)
  BY <1>0, <1>a
     DEF PrepareTo, Judging, Deciding, CoreStopped, CoreLabels, Goroutines, Only, Same,
         Synced, Keeps
<1>9. Accurate'
  BY <1>4, <1>5, <1>8, JudgingAll, PendingKept, AccurateKept, <1>a
     DEF GuardWanted, WantConnected, cfgVars, wishVars, guardVars
<1>10. BootAccurate' /\ RecordIsFw'
  BY <1>0, <1>a
     DEF PrepareTo, BootAccurate, RecordIsFw, GuardWanted, WantConnected, CoreStopped,
         CoreLabels, Places, LoopAt, HandlerAt, At, SavePlaces, SyncLabels, HoldLabels,
         PreServe, Goroutines, Only, Same, Synced, Keeps, cfgVars, wishVars, guardVars
<1>11. FwRecorded'
  BY <1>0, <1>a
     DEF PrepareTo, FwRecorded, RecordIsFw, CoreStopped, CoreLabels, Goroutines, Only, Same,
         Synced, Keeps, cfgVars, wishVars, guardVars
<1>12. Aligned'
  BY <1>0, <1>5, <1>8, PendingKept, AlignedKept, <1>a
     DEF PrepareTo, Target, GuardWanted, WantConnected, Only, Same, Synced, Keeps,
         Goroutines, cfgVars, wishVars, guardVars
<1> QED
  BY <1>1, <1>2, <1>3, <1>4, <1>5, <1>6, <1>7, <1>8, <1>9, <1>10, <1>11, <1>12

\* The filter is what it should be, or somebody is still to align it, after a disconnection releasing the hold.
LEMMA UnholdSettling ==
    ASSUME Tame, Shape, Judged, Settling, NEW h \in Handlers, Unhold(h)
    PROVE  Settling'
<1>0. UnholdTo(h)
  BY UnholdMoves
<1> USE GuardConstants DEF Tame, Shape, Judged, Settling, Order
<1>1. OneHolder'
  BY <1>0
     DEF Unhold, UnholdTo, OneHolder, Places, LoopAt, HandlerAt, At, SavePlaces,
         SyncLabels, HoldLabels, PreServe, Goroutines, Only, Same, Synced, Keeps
<1>2. OneSave' /\ CoreStopped' /\ RefreshWanted'
  BY <1>0
     DEF Unhold, UnholdTo, OneSave, CoreStopped, RefreshWanted, CoreLabels, Goroutines,
         CoreAlone, Only, Same, Synced, Keeps, cfgVars, wishVars, runVars
<1>3. \A k \in Handlers : Rebuilding(k) => Rebuilding(k)'
  BY <1>0
     DEF Unhold, UnholdTo, Rebuilding, Places, LoopAt, HandlerAt, At, SavePlaces,
         SyncLabels, HoldLabels, PreServe, Goroutines, Only, Same, Synced, Keeps
<1>4. \A k \in Handlers : SaveBusy(k) => SaveBusy(k)'
  BY <1>0
     DEF Unhold, UnholdTo, SaveBusy, Rebuilding, Places, LoopAt, HandlerAt, At, SavePlaces,
         SyncLabels, HoldLabels, PreServe, Goroutines, Only, Same, Synced, Keeps, cfgVars,
         wishVars, runVars
<1>5. \A k \in Goroutines : Bound(k) => Bound(k)'
  BY <1>0, <1>4
     DEF Unhold, UnholdTo, Bound, CoreStopped, CoreLabels, Goroutines, Only, Same, Synced,
         Keeps
<1>6. SaveKnows'
  BY <1>0
     DEF Unhold, UnholdTo, SaveKnows, Goroutines, Only, Same, Synced, Keeps, cfgVars,
         wishVars, runVars
<1>7. HoldIsOwned'
  BY <1>3, HoldKept DEF Unhold, cfgVars, wishVars, runVars
<1>8. Judging(Goroutines)
  BY <1>0
     DEF Unhold, UnholdTo, Judging, Deciding, CoreStopped, CoreLabels, Goroutines, Only,
         Same, Synced, Keeps
<1>9. Accurate'
  BY <1>4, <1>5, <1>8, JudgingAll, PendingKept, AccurateKept
     DEF Unhold, GuardWanted, WantConnected, cfgVars, wishVars, runVars
<1>10. BootAccurate' /\ RecordIsFw'
  BY <1>0
     DEF Unhold, UnholdTo, BootAccurate, RecordIsFw, GuardWanted, WantConnected,
         CoreStopped, CoreLabels, Goroutines, Only, Same, Synced, Keeps, cfgVars, wishVars,
         runVars
<1>11. FwRecorded'
  BY <1>0
     DEF Unhold, UnholdTo, FwRecorded, RecordIsFw, CoreStopped, CoreLabels, Goroutines,
         Only, Same, Synced, Keeps, cfgVars, wishVars, runVars
<1>12. Aligned'
  BY <1>0, <1>5, <1>8, PendingKept, AlignedKept
     DEF Unhold, UnholdTo, Target, GuardWanted, WantConnected, Only, Same, Synced, Keeps,
         Goroutines, cfgVars, wishVars, runVars
<1> QED
  BY <1>1, <1>2, <1>3, <1>4, <1>5, <1>6, <1>7, <1>8, <1>9, <1>10, <1>11, <1>12

\* The filter is what it should be, or somebody is still to align it, after a restart's configuration being built.
LEMMA BuiltSettling ==
    ASSUME Tame, Shape, Judged, Settling, NEW h \in Handlers, Built(h)
    PROVE  Settling'
<1>0. BuiltTo(h)
  BY BuiltMoves
<1> USE GuardConstants DEF Tame, Shape, Judged, Settling, Order
<1>1. OneHolder'
  BY <1>0
     DEF Built, Fault, NoFault, BuiltTo, OneHolder, Places, LoopAt, HandlerAt,
         At, SavePlaces, SyncLabels, HoldLabels, PreServe, Goroutines, Only, Same, Moved,
         Answered, Keeps, Fresh
<1>2. OneSave' /\ CoreStopped' /\ RefreshWanted'
  BY <1>0
     DEF Built, Fault, NoFault, BuiltTo, OneSave, CoreStopped, RefreshWanted, CoreLabels,
         Goroutines, CoreAlone, Only, Same, Moved, Answered, Keeps, Fresh, cfgVars,
         wishVars, runVars, guardVars
<1>3. \A k \in Handlers : Rebuilding(k) => Rebuilding(k)'
  BY <1>0
     DEF Built, Fault, NoFault, BuiltTo, Rebuilding, Places, LoopAt, HandlerAt, At,
         SavePlaces, SyncLabels, HoldLabels, PreServe, Goroutines, Only, Same, Moved,
         Answered, Keeps, Fresh
<1>4. \A k \in Handlers : SaveBusy(k) => SaveBusy(k)'
  BY <1>0
     DEF Built, Fault, NoFault, BuiltTo, SaveBusy, Rebuilding, Places, LoopAt, HandlerAt,
         At, SavePlaces, SyncLabels, HoldLabels, PreServe, Goroutines, Only, Same, Moved,
         Answered, Keeps, Fresh, cfgVars, wishVars, runVars, guardVars
<1>5. \A k \in Goroutines : Bound(k) => Bound(k)'
  BY <1>0, <1>4
     DEF Built, Fault, NoFault, BuiltTo, Bound, CoreStopped, CoreLabels, Goroutines, Only,
         Same, Moved, Answered, Keeps, Fresh
<1>6. SaveKnows'
  BY <1>0
     DEF Built, Fault, NoFault, BuiltTo, SaveKnows, Goroutines, Only, Same, Moved, Answered,
         Keeps, Fresh, cfgVars, wishVars, runVars, guardVars
<1>7. HoldIsOwned'
  BY <1>3, HoldKept DEF Built, Fault, NoFault, cfgVars, wishVars, runVars, guardVars
<1>8. Judging(Goroutines)
  BY <1>0
     DEF Built, Fault, NoFault, BuiltTo, Judging, Deciding, CoreStopped, CoreLabels,
         Goroutines, Only, Same, Moved, Answered, Keeps, Fresh
<1>9. Accurate'
  BY <1>4, <1>5, <1>8, JudgingAll, PendingKept, AccurateKept
     DEF Built, Fault, NoFault, GuardWanted, WantConnected, cfgVars, wishVars, runVars,
         guardVars
<1>10. BootAccurate' /\ RecordIsFw'
  BY <1>0
     DEF Built, Fault, NoFault, BuiltTo, BootAccurate, RecordIsFw, GuardWanted,
         WantConnected, CoreStopped, CoreLabels, Goroutines, Only, Same, Moved, Answered,
         Keeps, Fresh, cfgVars, wishVars, runVars, guardVars
<1>11. FwRecorded'
  BY <1>0
     DEF Built, Fault, NoFault, BuiltTo, FwRecorded, RecordIsFw, CoreStopped, CoreLabels,
         Goroutines, Only, Same, Moved, Answered, Keeps, Fresh, cfgVars, wishVars, runVars,
         guardVars
<1>12. Aligned'
  BY <1>0, <1>5, <1>8, PendingKept, AlignedKept
     DEF Built, Fault, NoFault, BuiltTo, Target, GuardWanted, WantConnected, Only, Same,
         Moved, Answered, Keeps, Fresh, Goroutines, cfgVars, wishVars, runVars, guardVars
<1> QED
  BY <1>1, <1>2, <1>3, <1>4, <1>5, <1>6, <1>7, <1>8, <1>9, <1>10, <1>11, <1>12

\* The filter is what it should be, or somebody is still to align it, after a restart taking opMu.
LEMMA SwapSettling ==
    ASSUME Tame, Shape, Judged, Settling, NEW h \in Handlers, Swap(h)
    PROVE  Settling'
<1>0. SwapTo(h)
  BY SwapMoves
<1> USE GuardConstants DEF Tame, Shape, Judged, Settling, Order
<1>1. OneHolder'
  BY <1>0
     DEF Swap, SwapTo, OneHolder, Places, LoopAt, HandlerAt, At, SavePlaces,
         SyncLabels, HoldLabels, PreServe, Goroutines, Only, Same, Moved, Answered, Keeps,
         Fresh
<1>2. OneSave' /\ CoreStopped' /\ RefreshWanted'
  BY <1>0
     DEF Swap, SwapTo, OneSave, CoreStopped, RefreshWanted, CoreLabels, Goroutines,
         OpMuFree, CoreAlone, Only, Same, Moved, Answered, Keeps, Fresh, cfgVars, wishVars,
         guardVars
<1>3. \A k \in Handlers : Rebuilding(k) => Rebuilding(k)'
  BY <1>0
     DEF Swap, SwapTo, Rebuilding, Places, LoopAt, HandlerAt, At, SavePlaces, SyncLabels,
         HoldLabels, PreServe, Goroutines, Only, Same, Moved, Answered, Keeps, Fresh
<1>4. \A k \in Handlers : SaveBusy(k) => SaveBusy(k)'
  BY <1>0
     DEF Swap, SwapTo, SaveBusy, Rebuilding, Places, LoopAt, HandlerAt, At, SavePlaces,
         SyncLabels, HoldLabels, PreServe, Goroutines, Only, Same, Moved, Answered, Keeps,
         Fresh, cfgVars, wishVars, guardVars
<1>5. \A k \in Goroutines : Bound(k) => Bound(k)'
  BY <1>0, <1>4
     DEF Swap, SwapTo, Bound, CoreStopped, CoreLabels, Goroutines, Only, Same, Moved,
         Answered, Keeps, Fresh
<1>6. SaveKnows'
  BY <1>0
     DEF Swap, SwapTo, SaveKnows, Goroutines, Only, Same, Moved, Answered, Keeps, Fresh,
         cfgVars, wishVars, guardVars
<1>7. HoldIsOwned'
  BY <1>3, HoldKept DEF Swap, cfgVars, wishVars, guardVars
<1>8. Judging(Goroutines)
  BY <1>0
     DEF Swap, SwapTo, Judging, Deciding, CoreStopped, CoreLabels, Goroutines, Only, Same,
         Moved, Answered, Keeps, Fresh
<1>9. Accurate'
  BY <1>4, <1>5, <1>8, JudgingAll, PendingKept, AccurateKept
     DEF Swap, GuardWanted, WantConnected, cfgVars, wishVars, guardVars
<1>10. BootAccurate' /\ RecordIsFw'
  BY <1>0
     DEF Swap, SwapTo, BootAccurate, RecordIsFw, GuardWanted, WantConnected, CoreStopped,
         CoreLabels, Goroutines, Only, Same, Moved, Answered, Keeps, Fresh, cfgVars,
         wishVars, guardVars
<1>11. FwRecorded'
  BY <1>0
     DEF Swap, SwapTo, FwRecorded, RecordIsFw, CoreStopped, CoreLabels, Goroutines, Only,
         Same, Moved, Answered, Keeps, Fresh, cfgVars, wishVars, guardVars
<1>12. Aligned'
  BY <1>0, <1>5, <1>8, PendingKept, AlignedKept
     DEF Swap, SwapTo, Target, GuardWanted, WantConnected, Only, Same, Moved, Answered,
         Keeps, Fresh, Goroutines, cfgVars, wishVars, guardVars
<1> QED
  BY <1>1, <1>2, <1>3, <1>4, <1>5, <1>6, <1>7, <1>8, <1>9, <1>10, <1>11, <1>12

\* The filter is what it should be, or somebody is still to align it, after the choice whether a change of settings needs a restart.
LEMMA ChooseSettling ==
    ASSUME Tame, Shape, Judged, Settling, NEW h \in Handlers, Choose(h)
    PROVE  Settling'
<1>0. ChooseTo(h)
  BY ChooseMoves
<1> USE GuardConstants DEF Tame, Shape, Judged, Settling, Order
<1>1. OneHolder'
  BY <1>0
     DEF Choose, ChooseTo, OneHolder, Places, LoopAt, HandlerAt, At, SavePlaces,
         SyncLabels, HoldLabels, PreServe, Goroutines, Only, Same, Moved, Answered, Synced,
         Keeps, Fresh
<1>2. OneSave' /\ CoreStopped' /\ RefreshWanted'
  BY <1>0
     DEF Choose, ChooseTo, OneSave, CoreStopped, RefreshWanted, CoreLabels, Goroutines,
         CoreAlone, Only, Same, Moved, Answered, Synced, Keeps, Fresh, cfgVars, wishVars,
         runVars, guardVars
<1>3. \A k \in Handlers : Rebuilding(k) => Rebuilding(k)'
  BY <1>0
     DEF Choose, ChooseTo, Rebuilding, Places, LoopAt, HandlerAt, At, SavePlaces,
         SyncLabels, HoldLabels, PreServe, Goroutines, Only, Same, Moved, Answered, Synced,
         Keeps, Fresh
<1>3a. loc[h].op = "save" /\ loc[h].new = settings /\ UNCHANGED cfgVars
  BY DEF Choose, SaveKnows, Places, HandlerAt, At, SavePlaces, SyncLabels, HoldLabels
<1>4. \A k \in Handlers : SaveBusy(k) => SaveBusy(k)'
  <2>1. ASSUME SaveBusy(h)  PROVE SaveBusy(h)'
    <3>1. loc[h].prev # loc[h].new
      BY <1>3a, <2>1 DEF Choose, SaveBusy, Rebuilding, At, SavePlaces, SyncLabels, HoldLabels
    <3>2. Moved(h, "hold") \/ Synced(h, "idle")
      BY <1>0, <3>1 DEF Choose, ChooseTo
    <3> QED  BY <1>3a, <3>2
             DEF SaveBusy, Rebuilding, At, SavePlaces, Moved, Synced, Keeps
  <2>2. ASSUME NEW k \in Handlers \ {h}, SaveBusy(k)  PROVE SaveBusy(k)'
    BY <1>0, <1>3a, <2>2
       DEF ChooseTo, SaveBusy, Rebuilding, At, Goroutines, Only, Same, cfgVars
  <2> QED  BY <2>1, <2>2
<1>5. \A k \in Goroutines : Bound(k) => Bound(k)'
  BY <1>0, <1>4
     DEF Choose, ChooseTo, Bound, CoreStopped, CoreLabels, Goroutines, Only, Same, Moved,
         Answered, Synced, Keeps, Fresh
<1>6. SaveKnows'
  BY <1>0
     DEF Choose, ChooseTo, SaveKnows, Goroutines, Only, Same, Moved, Answered, Synced,
         Keeps, Fresh, cfgVars, wishVars, runVars, guardVars
<1>7. HoldIsOwned'
  BY <1>3, HoldKept DEF Choose, cfgVars, wishVars, runVars, guardVars
<1>8. Judging(Goroutines)
  BY <1>0
     DEF Choose, ChooseTo, Judging, Deciding, CoreStopped, CoreLabels, Goroutines, Only,
         Same, Moved, Answered, Synced, Keeps, Fresh
<1>9. Accurate'
  BY <1>4, <1>5, <1>8, JudgingAll, PendingKept, AccurateKept
     DEF Choose, GuardWanted, WantConnected, cfgVars, wishVars, runVars, guardVars
<1>10. BootAccurate' /\ RecordIsFw'
  BY <1>0
     DEF Choose, ChooseTo, BootAccurate, RecordIsFw, GuardWanted, WantConnected,
         CoreStopped, CoreLabels, Goroutines, Only, Same, Moved, Answered, Synced, Keeps,
         Fresh, cfgVars, wishVars, runVars, guardVars
<1>11. FwRecorded'
  BY <1>0
     DEF Choose, ChooseTo, FwRecorded, RecordIsFw, CoreStopped, CoreLabels, Goroutines,
         Only, Same, Moved, Answered, Synced, Keeps, Fresh, cfgVars, wishVars, runVars,
         guardVars
<1>12. Aligned'
  BY <1>0, <1>5, <1>8, PendingKept, AlignedKept
     DEF Choose, ChooseTo, Target, GuardWanted, WantConnected, Only, Same, Moved, Answered,
         Synced, Keeps, Fresh, Goroutines, cfgVars, wishVars, runVars, guardVars
<1> QED
  BY <1>1, <1>2, <1>3, <1>4, <1>5, <1>6, <1>7, <1>8, <1>9, <1>10, <1>11, <1>12

\* The filter is what it should be, or somebody is still to align it, after the hold of the guard before a restart.
LEMMA HoldSettling ==
    ASSUME Tame, Shape, Judged, Settling, NEW h \in Handlers, Hold(h)
    PROVE  Settling'
<1>0. HoldTo(h)
  BY HoldMoves
<1> USE GuardConstants DEF Tame, Shape, Judged, Settling, Order
<1>1. OneHolder'
  BY <1>0
     DEF Hold, HoldTo, OneHolder, Places, LoopAt, HandlerAt, At, SavePlaces,
         SyncLabels, HoldLabels, PreServe, Goroutines, Only, Same, Moved, Keeps
<1>2. OneSave' /\ CoreStopped' /\ RefreshWanted'
  BY <1>0
     DEF Hold, HoldTo, OneSave, CoreStopped, RefreshWanted, CoreLabels, Goroutines,
         CoreAlone, Only, Same, Moved, Keeps, cfgVars, wishVars, runVars
<1>3. \A k \in Handlers : Rebuilding(k) => Rebuilding(k)'
  BY <1>0
     DEF Hold, HoldTo, Rebuilding, Places, LoopAt, HandlerAt, At, SavePlaces, SyncLabels,
         HoldLabels, PreServe, Goroutines, Only, Same, Moved, Keeps
<1>4. \A k \in Handlers : SaveBusy(k) => SaveBusy(k)'
  BY <1>0
     DEF Hold, HoldTo, SaveBusy, Rebuilding, Places, LoopAt, HandlerAt, At, SavePlaces,
         SyncLabels, HoldLabels, PreServe, Goroutines, Only, Same, Moved, Keeps, cfgVars,
         wishVars, runVars
<1>5. \A k \in Goroutines : Bound(k) => Bound(k)'
  BY <1>0, <1>4
     DEF Hold, HoldTo, Bound, CoreStopped, CoreLabels, Goroutines, Only, Same, Moved, Keeps
<1>6. SaveKnows'
  BY <1>0
     DEF Hold, HoldTo, SaveKnows, Goroutines, Only, Same, Moved, Keeps, cfgVars, wishVars,
         runVars
<1>7. HoldIsOwned'
  <2>1. CASE guardHold'
    <3>1. wanted /\ pc[h] = "hold" /\ h \in Goroutines
      BY <2>1 DEF Hold, Goroutines
    <3>2. pc'[h] = "prep" /\ loc'[h].op = loc[h].op
      BY <1>0, <3>1 DEF Hold, HoldTo, Moved, Keeps, Goto, PlaceTypes
    <3>3. loc[h].op = "save"
      BY <3>1 DEF Places, HandlerAt, At, SyncLabels, HoldLabels
    <3> QED  BY <3>2, <3>3 DEF HoldIsOwned, Rebuilding, At, SavePlaces
  <2>2. CASE ~guardHold'
    BY <2>2 DEF HoldIsOwned
  <2> QED  BY <2>1, <2>2
<1>8. Judging(Goroutines)
  BY <1>0
     DEF Hold, HoldTo, Judging, Deciding, CoreStopped, CoreLabels, Goroutines, Only, Same,
         Moved, Keeps
<1>9. Accurate'
  BY <1>4, <1>5, <1>8, JudgingAll, PendingKept, AccurateKept
     DEF Hold, GuardWanted, WantConnected, cfgVars, wishVars, runVars
<1>10. BootAccurate' /\ RecordIsFw'
  BY <1>0
     DEF Hold, HoldTo, BootAccurate, RecordIsFw, GuardWanted, WantConnected, CoreStopped,
         CoreLabels, Goroutines, Only, Same, Moved, Keeps, cfgVars, wishVars, runVars
<1>11. FwRecorded'
  BY <1>0
     DEF Hold, HoldTo, FwRecorded, RecordIsFw, CoreStopped, CoreLabels, Goroutines, Only,
         Same, Moved, Keeps, cfgVars, wishVars, runVars
<1>12. Aligned'
  BY <1>0, <1>5, <1>8, PendingKept, AlignedKept
     DEF Hold, HoldTo, Target, GuardWanted, WantConnected, Only, Same, Moved, Keeps,
         Goroutines, cfgVars, wishVars, runVars
<1> QED
  BY <1>1, <1>2, <1>3, <1>4, <1>5, <1>6, <1>7, <1>8, <1>9, <1>10, <1>11, <1>12

\* The filter is what it should be, or somebody is still to align it, after RestartChecked's start of the new data plane.
LEMMA StartCheckedSettling ==
    ASSUME Tame, Shape, Judged, Settling, NEW h \in Handlers, StartChecked(h)
    PROVE  Settling'
<1>0. StartCheckedTo(h)
  BY StartCheckedMoves
<1> USE GuardConstants DEF Tame, Shape, Judged, Settling, Order
<1>1. OneHolder'
  BY <1>0
     DEF StartChecked, PlaneFor, Fault, NoFault, StartCheckedTo, OneHolder,
         Places, LoopAt, HandlerAt, At, SavePlaces, SyncLabels, HoldLabels, PreServe,
         Goroutines, Only, Same, Moved, Keeps
<1>2. OneSave' /\ CoreStopped' /\ RefreshWanted'
  BY <1>0
     DEF StartChecked, PlaneFor, Fault, NoFault, StartCheckedTo, OneSave, CoreStopped,
         RefreshWanted, CoreLabels, Goroutines, CoreAlone, Only, Same, Moved, Keeps,
         cfgVars, wishVars, guardVars
<1>3. \A k \in Handlers : Rebuilding(k) => Rebuilding(k)'
  BY <1>0
     DEF StartChecked, PlaneFor, Fault, NoFault, StartCheckedTo, Rebuilding, Places, LoopAt,
         HandlerAt, At, SavePlaces, SyncLabels, HoldLabels, PreServe, Goroutines, Only,
         Same, Moved, Keeps
<1>4. \A k \in Handlers : SaveBusy(k) => SaveBusy(k)'
  BY <1>0
     DEF StartChecked, PlaneFor, Fault, NoFault, StartCheckedTo, SaveBusy, Rebuilding,
         Places, LoopAt, HandlerAt, At, SavePlaces, SyncLabels, HoldLabels, PreServe,
         Goroutines, Only, Same, Moved, Keeps, cfgVars, wishVars, guardVars
<1>5. \A k \in Goroutines : Bound(k) => Bound(k)'
  BY <1>0, <1>4
     DEF StartChecked, PlaneFor, Fault, NoFault, StartCheckedTo, Bound, CoreStopped,
         CoreLabels, Goroutines, Only, Same, Moved, Keeps
<1>6. SaveKnows'
  BY <1>0
     DEF StartChecked, PlaneFor, Fault, NoFault, StartCheckedTo, SaveKnows, Goroutines,
         Only, Same, Moved, Keeps, cfgVars, wishVars, guardVars
<1>7. HoldIsOwned'
  BY <1>3, HoldKept DEF StartChecked, PlaneFor, Fault, NoFault, cfgVars, wishVars, guardVars
<1>8. Judging(Goroutines)
  BY <1>0
     DEF StartChecked, PlaneFor, Fault, NoFault, StartCheckedTo, Judging, Deciding,
         CoreStopped, CoreLabels, Goroutines, Only, Same, Moved, Keeps
<1>9. Accurate'
  BY <1>4, <1>5, <1>8, JudgingAll, PendingKept, AccurateKept
     DEF StartChecked, PlaneFor, Fault, NoFault, GuardWanted, WantConnected, cfgVars,
         wishVars, guardVars
<1>10. BootAccurate' /\ RecordIsFw'
  BY <1>0
     DEF StartChecked, PlaneFor, Fault, NoFault, StartCheckedTo, BootAccurate, RecordIsFw,
         GuardWanted, WantConnected, CoreStopped, CoreLabels, Goroutines, Only, Same, Moved,
         Keeps, cfgVars, wishVars, guardVars
<1>11. FwRecorded'
  BY <1>0
     DEF StartChecked, PlaneFor, Fault, NoFault, StartCheckedTo, FwRecorded, RecordIsFw,
         CoreStopped, CoreLabels, Goroutines, Only, Same, Moved, Keeps, cfgVars, wishVars,
         guardVars
<1>12. Aligned'
  BY <1>0, <1>5, <1>8, PendingKept, AlignedKept
     DEF StartChecked, PlaneFor, Fault, NoFault, StartCheckedTo, Target, GuardWanted,
         WantConnected, Only, Same, Moved, Keeps, Goroutines, cfgVars, wishVars, guardVars
<1> QED
  BY <1>1, <1>2, <1>3, <1>4, <1>5, <1>6, <1>7, <1>8, <1>9, <1>10, <1>11, <1>12

\* The filter is what it should be, or somebody is still to align it, after the end of a privacy transaction.
LEMMA SettleSettling ==
    ASSUME Tame, Shape, Judged, Settling, NEW h \in Handlers, Settle(h)
    PROVE  Settling'
<1>0. SettleTo(h)
  BY SettleMoves
<1> USE GuardConstants DEF Tame, Shape, Judged, Settling, Order
<1>1. OneHolder'
  BY <1>0
     DEF Settle, SettleTo, OneHolder, Places, LoopAt, HandlerAt, At, SavePlaces,
         SyncLabels, HoldLabels, PreServe, Goroutines, Only, Same, Synced, Keeps
<1>2. OneSave' /\ CoreStopped' /\ RefreshWanted'
  BY <1>0
     DEF Settle, SettleTo, OneSave, CoreStopped, RefreshWanted, CoreLabels, Goroutines,
         CoreAlone, Only, Same, Synced, Keeps, cfgVars, wishVars, runVars
<1>3. guardHold' = FALSE
  BY DEF Settle
<1>4. \A k \in Handlers : SaveBusy(k) => SaveBusy(k)'
  BY <1>0
     DEF Settle, SettleTo, SaveBusy, Rebuilding, Places, LoopAt, HandlerAt, At, SavePlaces,
         SyncLabels, HoldLabels, PreServe, Goroutines, Only, Same, Synced, Keeps, cfgVars,
         wishVars, runVars
<1>5. \A k \in Goroutines : Bound(k) => Bound(k)'
  BY <1>0, <1>4
     DEF Settle, SettleTo, Bound, CoreStopped, CoreLabels, Goroutines, Only, Same, Synced,
         Keeps
<1>6. SaveKnows'
  BY <1>0
     DEF Settle, SettleTo, SaveKnows, Goroutines, Only, Same, Synced, Keeps, cfgVars,
         wishVars, runVars
<1>7. HoldIsOwned'
  BY <1>3 DEF Settle, cfgVars, wishVars, runVars, HoldIsOwned
<1>8. Judging(Goroutines)
  BY <1>0
     DEF Settle, SettleTo, Judging, Deciding, CoreStopped, CoreLabels, Goroutines, Only,
         Same, Synced, Keeps
<1>9. Accurate'
  BY <1>4, <1>5, <1>8, JudgingAll, PendingKept, AccurateKept
     DEF Settle, GuardWanted, WantConnected, cfgVars, wishVars, runVars
<1>10. BootAccurate' /\ RecordIsFw'
  BY <1>0
     DEF Settle, SettleTo, BootAccurate, RecordIsFw, GuardWanted, WantConnected,
         CoreStopped, CoreLabels, Goroutines, Only, Same, Synced, Keeps, cfgVars, wishVars,
         runVars
<1>11. FwRecorded'
  BY <1>0
     DEF Settle, SettleTo, FwRecorded, RecordIsFw, CoreStopped, CoreLabels, Goroutines,
         Only, Same, Synced, Keeps, cfgVars, wishVars, runVars
<1>12. Aligned'
  BY <1>0, <1>5, <1>8, PendingKept, AlignedKept
     DEF Settle, SettleTo, Target, GuardWanted, WantConnected, Only, Same, Synced, Keeps,
         Goroutines, cfgVars, wishVars, runVars
<1> QED
  BY <1>1, <1>2, <1>3, <1>4, <1>5, <1>6, <1>7, <1>8, <1>9, <1>10, <1>11, <1>12

\* The filter is what it should be, or somebody is still to align it, after the loop of the run goroutine.
LEMMA RunLoopSettling ==
    ASSUME Tame, Shape, Judged, Settling, RunLoop
    PROVE  Settling'
<1>0. RunLoopTo
  BY RunLoopMoves
<1> USE GuardConstants DEF Tame, Shape, Judged, Settling, Order
<1>1. OneHolder'
  BY <1>0
     DEF RunLoop, RunLoopTo, OneHolder, Places, LoopAt, HandlerAt, At,
         SavePlaces, SyncLabels, HoldLabels, PreServe, Goroutines, Only, Same, Moved, Keeps
<1>2. OneSave' /\ CoreStopped' /\ RefreshWanted'
  BY <1>0
     DEF RunLoop, RunLoopTo, OneSave, CoreStopped, RefreshWanted, CoreLabels, Goroutines,
         CoreAlone, Only, Same, Moved, Keeps, cfgVars, wishVars, runVars, guardVars
<1>3. \A k \in Handlers : Rebuilding(k) => Rebuilding(k)'
  BY <1>0
     DEF RunLoop, RunLoopTo, Rebuilding, Places, LoopAt, HandlerAt, At, SavePlaces,
         SyncLabels, HoldLabels, PreServe, Goroutines, Only, Same, Moved, Keeps
<1>4. \A k \in Handlers : SaveBusy(k) => SaveBusy(k)'
  BY <1>0
     DEF RunLoop, RunLoopTo, SaveBusy, Rebuilding, Places, LoopAt, HandlerAt, At,
         SavePlaces, SyncLabels, HoldLabels, PreServe, Goroutines, Only, Same, Moved, Keeps,
         cfgVars, wishVars, runVars, guardVars
<1>5. \A k \in Goroutines : Bound(k) => Bound(k)'
  BY <1>0, <1>4
     DEF RunLoop, RunLoopTo, Bound, CoreStopped, CoreLabels, Goroutines, Only, Same, Moved,
         Keeps
<1>6. SaveKnows'
  BY <1>0
     DEF RunLoop, RunLoopTo, SaveKnows, Goroutines, Only, Same, Moved, Keeps, cfgVars,
         wishVars, runVars, guardVars
<1>7. HoldIsOwned'
  BY <1>3, HoldKept DEF RunLoop, cfgVars, wishVars, runVars, guardVars
<1>8. Judging(Goroutines)
  BY <1>0
     DEF RunLoop, RunLoopTo, Judging, Deciding, CoreStopped, CoreLabels, Goroutines, Only,
         Same, Moved, Keeps
<1>9. Accurate'
  BY <1>4, <1>5, <1>8, JudgingAll, PendingKept, AccurateKept
     DEF RunLoop, GuardWanted, WantConnected, cfgVars, wishVars, runVars, guardVars
<1>10. BootAccurate' /\ RecordIsFw'
  BY <1>0
     DEF RunLoop, RunLoopTo, BootAccurate, RecordIsFw, GuardWanted, WantConnected,
         CoreStopped, CoreLabels, Goroutines, Only, Same, Moved, Keeps, cfgVars, wishVars,
         runVars, guardVars
<1>11. FwRecorded'
  BY <1>0
     DEF RunLoop, RunLoopTo, FwRecorded, RecordIsFw, CoreStopped, CoreLabels, Goroutines,
         Only, Same, Moved, Keeps, cfgVars, wishVars, runVars, guardVars
<1>12. Aligned'
  BY <1>0, <1>5, <1>8, PendingKept, AlignedKept
     DEF RunLoop, RunLoopTo, Target, GuardWanted, WantConnected, Only, Same, Moved, Keeps,
         Goroutines, cfgVars, wishVars, runVars, guardVars
<1> QED
  BY <1>1, <1>2, <1>3, <1>4, <1>5, <1>6, <1>7, <1>8, <1>9, <1>10, <1>11, <1>12

\* The filter is what it should be, or somebody is still to align it, after the run goroutine's configuration being built.
LEMMA RunBuiltSettling ==
    ASSUME Tame, Shape, Judged, Settling, RunBuilt
    PROVE  Settling'
<1>0. RunBuiltTo
  BY RunBuiltMoves
<1> USE GuardConstants DEF Tame, Shape, Judged, Settling, Order
<1>1. OneHolder'
  BY <1>0
     DEF RunBuilt, Fault, NoFault, RunBuiltTo, OneHolder, Places, LoopAt,
         HandlerAt, At, SavePlaces, SyncLabels, HoldLabels, PreServe, Goroutines, Only, Same
<1>2. OneSave' /\ CoreStopped' /\ RefreshWanted'
  BY <1>0
     DEF RunBuilt, Fault, NoFault, RunBuiltTo, OneSave, CoreStopped, RefreshWanted,
         CoreLabels, Goroutines, CoreAlone, Only, Same, cfgVars, wishVars, runVars,
         guardVars
<1>3. \A k \in Handlers : Rebuilding(k) => Rebuilding(k)'
  BY <1>0
     DEF RunBuilt, Fault, NoFault, RunBuiltTo, Rebuilding, Places, LoopAt, HandlerAt, At,
         SavePlaces, SyncLabels, HoldLabels, PreServe, Goroutines, Only, Same
<1>4. \A k \in Handlers : SaveBusy(k) => SaveBusy(k)'
  BY <1>0
     DEF RunBuilt, Fault, NoFault, RunBuiltTo, SaveBusy, Rebuilding, Places, LoopAt,
         HandlerAt, At, SavePlaces, SyncLabels, HoldLabels, PreServe, Goroutines, Only,
         Same, cfgVars, wishVars, runVars, guardVars
<1>5. \A k \in Goroutines : Bound(k) => Bound(k)'
  BY <1>0, <1>4
     DEF RunBuilt, Fault, NoFault, RunBuiltTo, Bound, CoreStopped, CoreLabels, Goroutines,
         Only, Same
<1>6. SaveKnows'
  BY <1>0
     DEF RunBuilt, Fault, NoFault, RunBuiltTo, SaveKnows, Goroutines, Only, Same, cfgVars,
         wishVars, runVars, guardVars
<1>7. HoldIsOwned'
  BY <1>3, HoldKept DEF RunBuilt, Fault, NoFault, cfgVars, wishVars, runVars, guardVars
<1>8. Judging(Goroutines)
  BY <1>0
     DEF RunBuilt, Fault, NoFault, RunBuiltTo, Judging, Deciding, CoreStopped, CoreLabels,
         Goroutines, Only, Same
<1>9. Accurate'
  BY <1>4, <1>5, <1>8, JudgingAll, PendingKept, AccurateKept
     DEF RunBuilt, Fault, NoFault, GuardWanted, WantConnected, cfgVars, wishVars, runVars,
         guardVars
<1>10. BootAccurate' /\ RecordIsFw'
  BY <1>0
     DEF RunBuilt, Fault, NoFault, RunBuiltTo, BootAccurate, RecordIsFw, GuardWanted,
         WantConnected, CoreStopped, CoreLabels, Goroutines, Only, Same, cfgVars, wishVars,
         runVars, guardVars
<1>11. FwRecorded'
  BY <1>0
     DEF RunBuilt, Fault, NoFault, RunBuiltTo, FwRecorded, RecordIsFw, CoreStopped,
         CoreLabels, Goroutines, Only, Same, cfgVars, wishVars, runVars, guardVars
<1>12. Aligned'
  BY <1>0, <1>5, <1>8, PendingKept, AlignedKept
     DEF RunBuilt, Fault, NoFault, RunBuiltTo, Target, GuardWanted, WantConnected, Only,
         Same, Goroutines, cfgVars, wishVars, runVars, guardVars
<1> QED
  BY <1>1, <1>2, <1>3, <1>4, <1>5, <1>6, <1>7, <1>8, <1>9, <1>10, <1>11, <1>12

\* The filter is what it should be, or somebody is still to align it, after the run goroutine's start of the core.
LEMMA RunStartSettling ==
    ASSUME Tame, Shape, Judged, Settling, RunStart
    PROVE  Settling'
<1>0. RunStartTo
  BY RunStartMoves
<1> USE GuardConstants DEF Tame, Shape, Judged, Settling, Order
<1>1. OneHolder'
  BY <1>0
     DEF RunStart, PlaneFor, Fault, NoFault, RunStartTo, OneHolder, Places,
         LoopAt, HandlerAt, At, SavePlaces, SyncLabels, HoldLabels, PreServe, Goroutines,
         Only, Same
<1>2. OneSave' /\ CoreStopped' /\ RefreshWanted'
  BY <1>0
     DEF RunStart, PlaneFor, Fault, NoFault, RunStartTo, OneSave, CoreStopped,
         RefreshWanted, CoreLabels, Goroutines, CoreAlone, Only, Same, cfgVars, wishVars,
         guardVars
<1>3. \A k \in Handlers : Rebuilding(k) => Rebuilding(k)'
  BY <1>0
     DEF RunStart, PlaneFor, Fault, NoFault, RunStartTo, Rebuilding, Places, LoopAt,
         HandlerAt, At, SavePlaces, SyncLabels, HoldLabels, PreServe, Goroutines, Only, Same
<1>4. \A k \in Handlers : SaveBusy(k) => SaveBusy(k)'
  BY <1>0
     DEF RunStart, PlaneFor, Fault, NoFault, RunStartTo, SaveBusy, Rebuilding, Places,
         LoopAt, HandlerAt, At, SavePlaces, SyncLabels, HoldLabels, PreServe, Goroutines,
         Only, Same, cfgVars, wishVars, guardVars
<1>5. \A k \in Goroutines : Bound(k) => Bound(k)'
  BY <1>0, <1>4
     DEF RunStart, PlaneFor, Fault, NoFault, RunStartTo, Bound, CoreStopped, CoreLabels,
         Goroutines, Only, Same
<1>6. SaveKnows'
  BY <1>0
     DEF RunStart, PlaneFor, Fault, NoFault, RunStartTo, SaveKnows, Goroutines, Only, Same,
         cfgVars, wishVars, guardVars
<1>7. HoldIsOwned'
  BY <1>3, HoldKept DEF RunStart, PlaneFor, Fault, NoFault, cfgVars, wishVars, guardVars
<1>8. Judging(Goroutines)
  BY <1>0
     DEF RunStart, PlaneFor, Fault, NoFault, RunStartTo, Judging, Deciding, CoreStopped,
         CoreLabels, Goroutines, Only, Same
<1>9. Accurate'
  BY <1>4, <1>5, <1>8, JudgingAll, PendingKept, AccurateKept
     DEF RunStart, PlaneFor, Fault, NoFault, GuardWanted, WantConnected, cfgVars, wishVars,
         guardVars
<1>10. BootAccurate' /\ RecordIsFw'
  BY <1>0
     DEF RunStart, PlaneFor, Fault, NoFault, RunStartTo, BootAccurate, RecordIsFw,
         GuardWanted, WantConnected, CoreStopped, CoreLabels, Goroutines, Only, Same,
         cfgVars, wishVars, guardVars
<1>11. FwRecorded'
  BY <1>0
     DEF RunStart, PlaneFor, Fault, NoFault, RunStartTo, FwRecorded, RecordIsFw,
         CoreStopped, CoreLabels, Goroutines, Only, Same, cfgVars, wishVars, guardVars
<1>12. Aligned'
  BY <1>0, <1>5, <1>8, PendingKept, AlignedKept
     DEF RunStart, PlaneFor, Fault, NoFault, RunStartTo, Target, GuardWanted, WantConnected,
         Only, Same, Goroutines, cfgVars, wishVars, guardVars
<1> QED
  BY <1>1, <1>2, <1>3, <1>4, <1>5, <1>6, <1>7, <1>8, <1>9, <1>10, <1>11, <1>12

\* The filter is what it should be, or somebody is still to align it, after the watch over a running core.
LEMMA RunUpSettling ==
    ASSUME Tame, Shape, Judged, Settling, RunUp
    PROVE  Settling'
<1>0. RunUpTo
  BY RunUpMoves
<1> USE GuardConstants DEF Tame, Shape, Judged, Settling, Order
<1>1. OneHolder'
  BY <1>0
     DEF RunUp, Fault, NoFault, RunUpTo, OneHolder, Places, LoopAt, HandlerAt,
         At, SavePlaces, SyncLabels, HoldLabels, PreServe, Goroutines, Only, Same, Moved,
         Keeps
<1>2. OneSave' /\ CoreStopped' /\ RefreshWanted'
  BY <1>0
     DEF RunUp, Fault, NoFault, RunUpTo, OneSave, CoreStopped, RefreshWanted, CoreLabels,
         Goroutines, CoreAlone, Only, Same, Moved, Keeps, cfgVars, wishVars, guardVars
<1>3. \A k \in Handlers : Rebuilding(k) => Rebuilding(k)'
  BY <1>0
     DEF RunUp, Fault, NoFault, RunUpTo, Rebuilding, Places, LoopAt, HandlerAt, At,
         SavePlaces, SyncLabels, HoldLabels, PreServe, Goroutines, Only, Same, Moved, Keeps
<1>4. \A k \in Handlers : SaveBusy(k) => SaveBusy(k)'
  BY <1>0
     DEF RunUp, Fault, NoFault, RunUpTo, SaveBusy, Rebuilding, Places, LoopAt, HandlerAt,
         At, SavePlaces, SyncLabels, HoldLabels, PreServe, Goroutines, Only, Same, Moved,
         Keeps, cfgVars, wishVars, guardVars
<1>5. \A k \in Goroutines : Bound(k) => Bound(k)'
  BY <1>0, <1>4
     DEF RunUp, Fault, NoFault, RunUpTo, Bound, CoreStopped, CoreLabels, Goroutines, Only,
         Same, Moved, Keeps
<1>6. SaveKnows'
  BY <1>0
     DEF RunUp, Fault, NoFault, RunUpTo, SaveKnows, Goroutines, Only, Same, Moved, Keeps,
         cfgVars, wishVars, guardVars
<1>7. HoldIsOwned'
  BY <1>3, HoldKept DEF RunUp, Fault, NoFault, cfgVars, wishVars, guardVars
<1>8. Judging(Goroutines)
  BY <1>0
     DEF RunUp, Fault, NoFault, RunUpTo, Judging, Deciding, CoreStopped, CoreLabels,
         Goroutines, Only, Same, Moved, Keeps
<1>9. Accurate'
  BY <1>4, <1>5, <1>8, JudgingAll, PendingKept, AccurateKept
     DEF RunUp, Fault, NoFault, GuardWanted, WantConnected, cfgVars, wishVars, guardVars
<1>10. BootAccurate' /\ RecordIsFw'
  BY <1>0
     DEF RunUp, Fault, NoFault, RunUpTo, BootAccurate, RecordIsFw, GuardWanted,
         WantConnected, CoreStopped, CoreLabels, Goroutines, Only, Same, Moved, Keeps,
         cfgVars, wishVars, guardVars
<1>11. FwRecorded'
  BY <1>0
     DEF RunUp, Fault, NoFault, RunUpTo, FwRecorded, RecordIsFw, CoreStopped, CoreLabels,
         Goroutines, Only, Same, Moved, Keeps, cfgVars, wishVars, guardVars
<1>12. Aligned'
  BY <1>0, <1>5, <1>8, PendingKept, AlignedKept
     DEF RunUp, Fault, NoFault, RunUpTo, Target, GuardWanted, WantConnected, Only, Same,
         Moved, Keeps, Goroutines, cfgVars, wishVars, guardVars
<1> QED
  BY <1>1, <1>2, <1>3, <1>4, <1>5, <1>6, <1>7, <1>8, <1>9, <1>10, <1>11, <1>12

\* The filter is what it should be, or somebody is still to align it, after guardWatchLoop.
LEMMA WatchSettling ==
    ASSUME Tame, Shape, Judged, Settling, Watch
    PROVE  Settling'
<1>0. WatchTo
  BY WatchMoves
<1> USE GuardConstants DEF Tame, Shape, Judged, Settling, Order
<1>1. OneHolder'
  BY <1>0
     DEF Watch, WatchTo, OneHolder, Places, LoopAt, HandlerAt, At, SavePlaces,
         SyncLabels, HoldLabels, PreServe, Goroutines, Only, Same, Synced, Keeps
<1>2. OneSave' /\ CoreStopped' /\ RefreshWanted'
  BY <1>0
     DEF Watch, WatchTo, OneSave, CoreStopped, RefreshWanted, CoreLabels, Goroutines,
         CoreAlone, Only, Same, Synced, Keeps, cfgVars, wishVars, runVars, guardVars
<1>3. \A k \in Handlers : Rebuilding(k) => Rebuilding(k)'
  BY <1>0
     DEF Watch, WatchTo, Rebuilding, Places, LoopAt, HandlerAt, At, SavePlaces, SyncLabels,
         HoldLabels, PreServe, Goroutines, Only, Same, Synced, Keeps
<1>4. \A k \in Handlers : SaveBusy(k) => SaveBusy(k)'
  BY <1>0
     DEF Watch, WatchTo, SaveBusy, Rebuilding, Places, LoopAt, HandlerAt, At, SavePlaces,
         SyncLabels, HoldLabels, PreServe, Goroutines, Only, Same, Synced, Keeps, cfgVars,
         wishVars, runVars, guardVars
<1>5. \A k \in Goroutines : Bound(k) => Bound(k)'
  BY <1>0, <1>4
     DEF Watch, WatchTo, Bound, CoreStopped, CoreLabels, Goroutines, Only, Same, Synced,
         Keeps
<1>6. SaveKnows'
  BY <1>0
     DEF Watch, WatchTo, SaveKnows, Goroutines, Only, Same, Synced, Keeps, cfgVars,
         wishVars, runVars, guardVars
<1>7. HoldIsOwned'
  BY <1>3, HoldKept DEF Watch, cfgVars, wishVars, runVars, guardVars
<1>8. Judging(Goroutines)
  BY <1>0
     DEF Watch, WatchTo, Judging, Deciding, CoreStopped, CoreLabels, Goroutines, Only, Same,
         Synced, Keeps
<1>9. Accurate'
  BY <1>4, <1>5, <1>8, JudgingAll, PendingKept, AccurateKept
     DEF Watch, GuardWanted, WantConnected, cfgVars, wishVars, runVars, guardVars
<1>10. BootAccurate' /\ RecordIsFw'
  BY <1>0
     DEF Watch, WatchTo, BootAccurate, RecordIsFw, GuardWanted, WantConnected, CoreStopped,
         CoreLabels, Goroutines, Only, Same, Synced, Keeps, cfgVars, wishVars, runVars,
         guardVars
<1>11. FwRecorded'
  BY <1>0
     DEF Watch, WatchTo, FwRecorded, RecordIsFw, CoreStopped, CoreLabels, Goroutines, Only,
         Same, Synced, Keeps, cfgVars, wishVars, runVars, guardVars
<1>12. Aligned'
  BY <1>0, <1>5, <1>8, PendingKept, AlignedKept
     DEF Watch, WatchTo, Target, GuardWanted, WantConnected, Only, Same, Synced, Keeps,
         Goroutines, cfgVars, wishVars, runVars, guardVars
<1> QED
  BY <1>1, <1>2, <1>3, <1>4, <1>5, <1>6, <1>7, <1>8, <1>9, <1>10, <1>11, <1>12

\* The filter is what it should be, or somebody is still to align it, after the shutdown.
LEMMA ShutdownSettling ==
    ASSUME Tame, Shape, Judged, Settling, Shutdown
    PROVE  Settling'
<1>0. ShutdownTo
  BY ShutdownMoves
<1> USE GuardConstants DEF Tame, Shape, Judged, Settling, Order
<1>1. OneHolder'
  BY <1>0
     DEF Shutdown, ShutdownTo, OneHolder, Goroutines, Only, Same, Moved, Keeps
<1>2. OneSave' /\ CoreStopped' /\ RefreshWanted'
  BY <1>0
     DEF Shutdown, ShutdownTo, OneSave, CoreStopped, RefreshWanted, CoreLabels, Goroutines,
         OpMuFree, CoreAlone, Only, Same, Moved, Keeps, cfgVars, wishVars, guardVars
<1>3. \A k \in Handlers : Rebuilding(k) => Rebuilding(k)'
  BY <1>0
     DEF Shutdown, ShutdownTo, Rebuilding, Places, LoopAt, HandlerAt, At, SavePlaces,
         SyncLabels, HoldLabels, PreServe, Goroutines, Only, Same, Moved, Keeps
<1>4. \A k \in Handlers : SaveBusy(k) => SaveBusy(k)'
  BY <1>0
     DEF Shutdown, ShutdownTo, SaveBusy, Rebuilding, Places, LoopAt, HandlerAt, At,
         SavePlaces, SyncLabels, HoldLabels, PreServe, Goroutines, Only, Same, Moved, Keeps,
         cfgVars, wishVars, guardVars
<1>5. \A k \in Goroutines : Bound(k) => Bound(k)'
  BY <1>0, <1>4
     DEF Shutdown, ShutdownTo, Bound, CoreStopped, CoreLabels, Goroutines, Only, Same,
         Moved, Keeps
<1>6. SaveKnows'
  BY <1>0
     DEF Shutdown, ShutdownTo, SaveKnows, Goroutines, Only, Same, Moved, Keeps, cfgVars,
         wishVars, guardVars
<1>7. HoldIsOwned'
  BY <1>3, HoldKept DEF Shutdown, cfgVars, wishVars, guardVars
<1>8. Judging(Goroutines)
  BY <1>0
     DEF Shutdown, ShutdownTo, Judging, Deciding, CoreStopped, CoreLabels, Goroutines, Only,
         Same, Moved, Keeps
<1>9. Accurate'
  BY <1>4, <1>5, <1>8, JudgingAll, PendingKept, AccurateKept
     DEF Shutdown, GuardWanted, WantConnected, cfgVars, wishVars, guardVars
<1>10. BootAccurate' /\ RecordIsFw'
  BY <1>0
     DEF Shutdown, ShutdownTo, BootAccurate, RecordIsFw, GuardWanted, WantConnected,
         CoreStopped, CoreLabels, Places, LoopAt, HandlerAt, At, SavePlaces, SyncLabels,
         HoldLabels, PreServe, Goroutines, Only, Same, Moved, Keeps, cfgVars, wishVars,
         guardVars
<1>11. FwRecorded'
  BY <1>0
     DEF Shutdown, ShutdownTo, FwRecorded, RecordIsFw, CoreStopped, CoreLabels, Goroutines,
         Only, Same, Moved, Keeps, cfgVars, wishVars, guardVars
<1>12. Aligned'
  BY <1>0, <1>5, <1>8, PendingKept, AlignedKept
     DEF Shutdown, ShutdownTo, Target, GuardWanted, WantConnected, Only, Same, Moved, Keeps,
         Goroutines, cfgVars, wishVars, guardVars
<1> QED
  BY <1>1, <1>2, <1>3, <1>4, <1>5, <1>6, <1>7, <1>8, <1>9, <1>10, <1>11, <1>12

\* The filter is what it should be, or somebody is still to align it, after the new data plane handed to a run goroutine.
LEMMA StartedSettling ==
    ASSUME Tame, Shape, Judged, Settling, NEW h \in Handlers, Started(h)
    PROVE  Settling'
<1>0. StartedTo(h)
  BY StartedMoves
<1> USE GuardConstants DEF Tame, Shape, Judged, Settling, Order
<1>a. pc[h] = "started" /\ UNCHANGED <<cfgVars, wishVars, late, guardVars>>
  BY DEF Started
<1>1. OneHolder'
  BY <1>0, <1>a
     DEF StartedTo, OneHolder, Places, LoopAt, HandlerAt, At, SavePlaces,
         SyncLabels, HoldLabels, PreServe, Goroutines, Same, Moved, Keeps, OnlyRun
<1>2. OneSave' /\ CoreStopped' /\ RefreshWanted'
  BY <1>0, <1>a
     DEF StartedTo, OneSave, CoreStopped, RefreshWanted, CoreLabels, Goroutines, CoreAlone,
         Same, Moved, Keeps, OnlyRun, cfgVars, wishVars, guardVars
<1>3. \A k \in Handlers : Rebuilding(k) => Rebuilding(k)'
  BY <1>0, <1>a
     DEF StartedTo, Rebuilding, Places, LoopAt, HandlerAt, At, SavePlaces, SyncLabels,
         HoldLabels, PreServe, Goroutines, Same, Moved, Keeps, OnlyRun
<1>4. \A k \in Handlers : SaveBusy(k) => SaveBusy(k)'
  BY <1>0, <1>a
     DEF StartedTo, SaveBusy, Rebuilding, Places, LoopAt, HandlerAt, At, SavePlaces,
         SyncLabels, HoldLabels, PreServe, Goroutines, Same, Moved, Keeps, OnlyRun, cfgVars,
         wishVars, guardVars
<1>5. \A k \in Goroutines : Bound(k) => Bound(k)'
  BY <1>0, <1>4, <1>a
     DEF StartedTo, Bound, CoreStopped, CoreLabels, Goroutines, Same, Moved, Keeps, OnlyRun
<1>6. SaveKnows'
  BY <1>0, <1>a
     DEF StartedTo, SaveKnows, Goroutines, Same, Moved, Keeps, OnlyRun, cfgVars, wishVars,
         guardVars
<1>7. HoldIsOwned'
  BY <1>3, HoldKept, <1>a DEF cfgVars, wishVars, guardVars
<1>8. Judging(Goroutines)
  BY <1>0, <1>a
     DEF StartedTo, Judging, Deciding, CoreStopped, CoreLabels, Goroutines, Same, Moved,
         Keeps, OnlyRun
<1>9. Accurate'
  BY <1>4, <1>5, <1>8, JudgingAll, PendingKept, AccurateKept, <1>a
     DEF GuardWanted, WantConnected, cfgVars, wishVars, guardVars
<1>10. BootAccurate' /\ RecordIsFw'
  BY <1>0, <1>a
     DEF StartedTo, BootAccurate, RecordIsFw, GuardWanted, WantConnected, CoreStopped,
         CoreLabels, Goroutines, Same, Moved, Keeps, OnlyRun, cfgVars, wishVars, guardVars
<1>11. FwRecorded'
  BY <1>0, <1>a
     DEF StartedTo, FwRecorded, RecordIsFw, CoreStopped, CoreLabels, Goroutines, Same,
         Moved, Keeps, OnlyRun, cfgVars, wishVars, guardVars
<1>12. Aligned'
  BY <1>0, <1>5, <1>8, PendingKept, AlignedKept, <1>a
     DEF StartedTo, Target, GuardWanted, WantConnected, Same, Moved, Keeps, OnlyRun,
         Goroutines, cfgVars, wishVars, guardVars
<1> QED
  BY <1>1, <1>2, <1>3, <1>4, <1>5, <1>6, <1>7, <1>8, <1>9, <1>10, <1>11, <1>12

\* The filter is what it should be, or somebody is still to align it, after the entry to syncGuard.
LEMMA SyncEnterSettling ==
    ASSUME Tame, Shape, Judged, Settling, NEW g \in Goroutines, SyncEnter(g)
    PROVE  Settling'
<1>0. SyncEnterTo(g)
  BY SyncEnterMoves
<1> USE GuardConstants DEF Tame, Shape, Judged, Settling, Order
<1>1. OneHolder'
  BY <1>0
     DEF SyncEnter, SyncEnterTo, OneHolder, Places, LoopAt, HandlerAt, At,
         SavePlaces, SyncLabels, HoldLabels, PreServe, Goroutines, Only, Same, Moved,
         Returned, Answered, Keeps, Fresh
<1>2. OneSave' /\ CoreStopped' /\ RefreshWanted'
  BY <1>0
     DEF SyncEnter, SyncEnterTo, OneSave, CoreStopped, RefreshWanted, CoreLabels, CoreAlone,
         Places, LoopAt, HandlerAt, At, SavePlaces, SyncLabels, HoldLabels, PreServe,
         Goroutines, Only, Same, Moved, Returned, Answered, Keeps, Fresh, cfgVars, wishVars,
         runVars
<1>3. \A k \in Handlers : Rebuilding(k) => Rebuilding(k)'
  BY <1>0
     DEF SyncEnter, SyncEnterTo, Rebuilding, Places, LoopAt, HandlerAt, At, SavePlaces,
         SyncLabels, HoldLabels, PreServe, Goroutines, Only, Same, Moved, Returned,
         Answered, Keeps, Fresh
<1>4. \A k \in Handlers : SaveBusy(k) => SaveBusy(k)' \/ closed
  BY <1>0
     DEF SyncEnter, SyncEnterTo, SaveKnows, SaveBusy, Rebuilding, Places, LoopAt, HandlerAt,
         At, SavePlaces, SyncLabels, HoldLabels, PreServe, Goroutines, Only, Same, Moved,
         Returned, Answered, Keeps, Fresh, cfgVars, wishVars, runVars
<1>5. \A k \in Goroutines : Bound(k) => Bound(k)' \/ owed' = TRUE
  BY <1>0
     DEF SyncEnter, SyncEnterTo, Bound, SaveBusy, Rebuilding, Places, LoopAt, HandlerAt, At,
         SavePlaces, SyncLabels, HoldLabels, PreServe, Goroutines, Only, Same, Moved,
         Returned, Answered, Keeps, Fresh, cfgVars, wishVars, runVars
<1>5a. UNCHANGED <<closed, late, settings, wanted, bootWanted, disk, fw>> /\ (owed => owed')
  BY DEF SyncEnter, cfgVars, wishVars, runVars, FlagTypes
<1>6. SaveKnows'
  BY <1>0
     DEF SyncEnter, SyncEnterTo, SaveKnows, Places, LoopAt, HandlerAt, At, SavePlaces,
         SyncLabels, HoldLabels, PreServe, Goroutines, Only, Same, Moved, Returned,
         Answered, Keeps, Fresh, cfgVars, wishVars, runVars
<1>7. HoldIsOwned'
  BY <1>3, HoldKept DEF SyncEnter, cfgVars, wishVars, runVars
<1>8. Judging(Goroutines)
  BY <1>0
     DEF SyncEnter, SyncEnterTo, Judging, Deciding, CoreStopped, CoreLabels, Places, LoopAt,
         HandlerAt, At, SavePlaces, SyncLabels, HoldLabels, PreServe, Goroutines, Only,
         Same, Moved, Returned, Answered, Keeps, Fresh
<1>9. Accurate'
  <2>1. closed \/ SavePending => closed' \/ SavePending'
    BY <1>4, <1>5a DEF SavePending
  <2>2. Pending \/ owed => Pending' \/ owed'
    BY <1>5, <1>5a DEF Pending
  <2> QED  BY <1>5a, <1>8, <2>1, <2>2, JudgingAll, AccurateKept
              DEF GuardWanted, WantConnected
<1>10. BootAccurate' /\ RecordIsFw'
  BY <1>0
     DEF SyncEnter, SyncEnterTo, BootAccurate, RecordIsFw, GuardWanted, WantConnected,
         CoreStopped, CoreLabels, Dormant, Quiet, Places, LoopAt, HandlerAt, At, SavePlaces,
         SyncLabels, HoldLabels, PreServe, Goroutines, Only, Same, Moved, Returned,
         Answered, Keeps, Fresh, cfgVars, wishVars, runVars
<1>11. FwRecorded'
  BY <1>0
     DEF SyncEnter, SyncEnterTo, FwRecorded, RecordIsFw, CoreStopped, CoreLabels,
         Goroutines, Only, Same, Moved, Returned, Answered, Keeps, Fresh, cfgVars, wishVars,
         runVars
<1>12. Aligned'
  <2>1. closed \/ owed \/ Pending => closed' \/ owed' \/ Pending'
    BY <1>5, <1>5a DEF Pending
  <2>2. Target' = Target
    BY <1>5a DEF Target, GuardWanted, WantConnected
  <2>3. pc["boot"] \in {"dead", "reconcile"} => pc'["boot"] = pc["boot"]
    BY <1>0 DEF SyncEnter, SyncEnterTo, Only, Same, Goroutines
  <2> QED  BY <1>5a, <1>8, <2>1, <2>2, <2>3, AlignedKept
<1> QED
  BY <1>1, <1>2, <1>3, <1>4, <1>5, <1>5a, <1>6, <1>7, <1>8, <1>9, <1>10, <1>11, <1>12

\* The filter is what it should be, or somebody is still to align it, after taking guardMu and reading what is wanted.
LEMMA SyncLockSettling ==
    ASSUME Tame, Shape, Judged, Settling, NEW g \in Goroutines, SyncLock(g)
    PROVE  Settling'
<1>0. SyncLockTo(g)
  BY SyncLockMoves
<1> USE GuardConstants DEF Tame, Shape, Judged, Settling, Order
<1>a. /\ pc[g] = "queue" /\ GuardMuFree
      /\ UNCHANGED <<cfgVars, wishVars, guardVars>>
  BY DEF SyncLock, cfgVars, wishVars, guardVars
<1>1. OneHolder'
  BY <1>0, <1>a
     DEF SyncLockTo, OneHolder, GuardMuFree, Goroutines, Only, Same, Keeps
<1>2. OneSave' /\ CoreStopped' /\ RefreshWanted'
  BY <1>0, <1>a
     DEF SyncLockTo, OneSave, CoreStopped, RefreshWanted, CoreLabels, CoreAlone, Goroutines,
         Only, Same, Keeps, cfgVars, wishVars, guardVars
<1>3. \A k \in Handlers : Rebuilding(k) => Rebuilding(k)'
  BY <1>0, <1>a
     DEF SyncLockTo, Rebuilding, Places, LoopAt, HandlerAt, At, SavePlaces, SyncLabels,
         HoldLabels, PreServe, Goroutines, Only, Same, Keeps
<1>6. SaveKnows'
  BY <1>0, <1>a
     DEF SyncLockTo, SaveKnows, Goroutines, Only, Same, Keeps, cfgVars, wishVars, guardVars
<1>7. HoldIsOwned'
  BY <1>3, HoldKept, <1>a DEF cfgVars, wishVars, guardVars
<1>9. Accurate'
  <2>1. \A k \in Goroutines \ {"boot", g} : pc'[k] \notin Deciding
    BY <1>0, <1>a DEF SyncLockTo, GuardMuFree, Only, Same, Deciding, HoldLabels
  <2>2. pc'[g] = "decide" /\ (loc'[g].act = "want" <=> GuardWanted)
    BY <1>0 DEF SyncLockTo
  <2>3. GuardWanted' <=> GuardWanted
    BY <1>a DEF GuardWanted, WantConnected, cfgVars, wishVars
  <2> QED  BY <2>1, <2>2, <2>3 DEF Accurate, Deciding
<1>10. BootAccurate' /\ RecordIsFw'
  BY <1>0, <1>a
     DEF SyncLockTo, BootAccurate, RecordIsFw, GuardWanted, WantConnected, CoreStopped,
         CoreLabels, Dormant, Quiet, Places, LoopAt, HandlerAt, At, SavePlaces, SyncLabels,
         HoldLabels, PreServe, Goroutines, Only, Same, Keeps, cfgVars, wishVars, guardVars
<1>11. FwRecorded'
  BY <1>0, <1>a
     DEF SyncLockTo, FwRecorded, RecordIsFw, CoreStopped, CoreLabels, Goroutines, Only,
         Same, Keeps, cfgVars, wishVars, guardVars
<1>12. Aligned'
  BY <1>0 DEF SyncLockTo, Aligned, Deciding
<1> QED
  BY <1>1, <1>2, <1>3, <1>6, <1>7, <1>9, <1>10, <1>11, <1>12

\* The filter is what it should be, or somebody is still to align it, after the second shutdown check and the four cases.
LEMMA SyncDecideSettling ==
    ASSUME Tame, Shape, Judged, Settling, NEW g \in Goroutines, SyncDecide(g)
    PROVE  Settling'
<1>0. SyncDecideTo(g)
  BY SyncDecideMoves
<1> USE GuardConstants DEF Tame, Shape, Judged, Settling, Order
<1>1. OneHolder'
  BY <1>0
     DEF SyncDecide, Fault, NoFault, SyncDecideTo, OneHolder, Places, LoopAt,
         HandlerAt, At, SavePlaces, SyncLabels, HoldLabels, PreServe, Goroutines, Only,
         Same, Moved, Returned, Answered, Keeps, Fresh
<1>2. OneSave' /\ CoreStopped' /\ RefreshWanted'
  BY <1>0
     DEF SyncDecide, Fault, NoFault, SyncDecideTo, OneSave, CoreStopped, RefreshWanted,
         CoreLabels, CoreAlone, Places, LoopAt, HandlerAt, At, SavePlaces, SyncLabels,
         HoldLabels, PreServe, Goroutines, Only, Same, Moved, Returned, Answered, Keeps,
         Fresh, cfgVars, wishVars, runVars
<1>3. \A k \in Handlers : Rebuilding(k) => Rebuilding(k)'
  BY <1>0
     DEF SyncDecide, Fault, NoFault, SyncDecideTo, Rebuilding, Places, LoopAt, HandlerAt,
         At, SavePlaces, SyncLabels, HoldLabels, PreServe, Goroutines, Only, Same, Moved,
         Returned, Answered, Keeps, Fresh
<1>4. \A k \in Handlers : SaveBusy(k) => SaveBusy(k)'
  BY <1>0
     DEF SyncDecide, Fault, NoFault, SyncDecideTo, SaveBusy, Rebuilding, Places, LoopAt,
         HandlerAt, At, SavePlaces, SyncLabels, HoldLabels, PreServe, Goroutines, Only,
         Same, Moved, Returned, Answered, Keeps, Fresh, cfgVars, wishVars, runVars
<1>5. \A k \in Goroutines : Bound(k) => Bound(k)'
  BY <1>0, <1>4
     DEF SyncDecide, Fault, NoFault, SyncDecideTo, Bound, CoreStopped, CoreLabels,
         Goroutines, Only, Same, Moved, Returned, Answered, Keeps, Fresh
<1>6. SaveKnows'
  BY <1>0
     DEF SyncDecide, Fault, NoFault, SyncDecideTo, SaveKnows, Places, LoopAt, HandlerAt, At,
         SavePlaces, SyncLabels, HoldLabels, PreServe, Goroutines, Only, Same, Moved,
         Returned, Answered, Keeps, Fresh, cfgVars, wishVars, runVars
<1>7. HoldIsOwned'
  BY <1>3, HoldKept DEF SyncDecide, Fault, NoFault, cfgVars, wishVars, runVars
<1>8a. \A k \in Goroutines \ {"boot", g} : pc'[k] \notin Deciding
  BY <1>0
     DEF SyncDecide, SyncDecideTo, OneHolder, Only, Same, Deciding, HoldLabels, Places,
         LoopAt, PreServe, Goroutines
<1>8c. SavePending => SavePending' /\ Pending'
  BY <1>4, PendingKept, BusyIsBound
<1>8d. Pending => Pending'
  BY <1>5, PendingKept
<1>8e. /\ UNCHANGED <<closed, late, disk, fw, settings, wanted, bootWanted>>
      /\ pc[g] = "decide" /\ g # "boot"
  BY DEF SyncDecide, cfgVars, wishVars, runVars, Places, LoopAt, PreServe
<1>9. Accurate'
  <2>1. (GuardWanted' <=> GuardWanted)
    BY <1>8e DEF GuardWanted, WantConnected
  <2>2. ASSUME pc'[g] = "install"  PROVE GuardWanted' \/ Excused'
    <3>1. owed' = owed /\ ~closed /\ (guardHold \/ loc[g].act = "want")
      BY <1>0, <2>2, <1>8e
         DEF SyncDecide, SyncDecideTo, Returned, Answered, Moved, Places, LoopAt, HandlerAt,
             At, SavePlaces, SyncLabels, HoldLabels, Goroutines
    <3>2. guardHold => SavePending
      BY DEF HoldIsOwned, SavePending, SaveBusy
    <3>3. Excused => Excused'
      BY <3>1, <1>8c, <1>8d, <1>8e DEF Excused
    <3> QED  BY <1>8c, <1>8e, <2>1, <3>1, <3>2, <3>3 DEF Accurate, Excused
  <2>3. ASSUME pc'[g] = "clear"  PROVE ~GuardWanted' \/ Excused'
    <3>1. owed' = owed /\ loc[g].act # "want"
      BY <1>0, <2>3, <1>8e
         DEF SyncDecide, SyncDecideTo, Returned, Answered, Moved, Places, LoopAt, HandlerAt,
             At, SavePlaces, SyncLabels, HoldLabels, Goroutines
    <3>2. Excused => Excused'
      BY <3>1, <1>8c, <1>8d, <1>8e DEF Excused
    <3> QED  BY <1>8e, <2>1, <3>1, <3>2 DEF Accurate
  <2>4. pc'[g] # "decide"
    BY <1>0, <1>8e
       DEF SyncDecide, SyncDecideTo, Returned, Answered, Moved, Places, LoopAt, HandlerAt,
           At, SavePlaces, SyncLabels, HoldLabels, Goroutines
  <2> QED  BY <1>8a, <2>2, <2>3, <2>4 DEF Accurate, Deciding
<1>10. BootAccurate' /\ RecordIsFw'
  BY <1>0
     DEF SyncDecide, Fault, NoFault, SyncDecideTo, BootAccurate, RecordIsFw, GuardWanted,
         WantConnected, CoreStopped, CoreLabels, Dormant, Quiet, Places, LoopAt, HandlerAt,
         At, SavePlaces, SyncLabels, HoldLabels, PreServe, Goroutines, Only, Same, Moved,
         Returned, Answered, Keeps, Fresh, cfgVars, wishVars, runVars
<1>11. FwRecorded'
  BY <1>0
     DEF SyncDecide, Fault, NoFault, SyncDecideTo, FwRecorded, RecordIsFw, CoreStopped,
         CoreLabels, Goroutines, Only, Same, Moved, Returned, Answered, Keeps, Fresh,
         cfgVars, wishVars, runVars
<1>12. Aligned'
  <2>1. CASE pc'[g] \in Deciding
    BY <2>1 DEF Aligned
  <2>2. CASE pc'[g] \notin Deciding
    <3> DEFINE want == loc[g].act = "want"
    <3>1. \/ closed
          \/ guardHold
          \/ owed' = TRUE
          \/ ~want /\ fw = "none" /\ owed' = StillOwed
          \/ /\ want /\ fw # "none" /\ guardApplied = GuardSpec(settings)
             /\ owed' = StillOwed
      BY <1>0, <2>2 DEF SyncDecide, SyncDecideTo, Moved, Deciding, FlagTypes, StillOwed
    <3>2. guardHold => Pending'
      BY <1>8c DEF HoldIsOwned, SavePending, SaveBusy
    <3>3. want /\ fw # "none" /\ guardApplied = GuardSpec(settings) => fw = GuardSpec(settings)
      <4>1. ASSUME NEW k \in Goroutines, pc[k] = "record"
            PROVE  k = "boot"
        BY <4>1, <1>8e DEF OneHolder, HoldLabels
      <4> QED  BY <4>1 DEF FwRecorded, RecordIsFw, GuardSpec, PreServe
    <3>4. (want <=> GuardWanted) \/ Excused
      BY <1>8e DEF Accurate
    <3>5. Target' = Target
      BY <1>8e DEF Target, GuardWanted, WantConnected
    <3>6. Excused => closed' \/ Pending' \/ (late /\ owed)
      BY <1>8c, <1>8d, <1>8e DEF Excused
    <3> QED  BY <1>8e, <3>1, <3>2, <3>3, <3>4, <3>5, <3>6 DEF Aligned, Target, StillOwed
  <2> QED  BY <2>1, <2>2
<1> QED
  BY <1>1, <1>2, <1>3, <1>4, <1>5, <1>6, <1>7, <1>8a, <1>8c, <1>8d, <1>8e, <1>9, <1>10,
     <1>11, <1>12

\* The filter is what it should be, or somebody is still to align it, after applyGuard's transaction.
LEMMA InstallSettling ==
    ASSUME Tame, Shape, Judged, Settling, NEW g \in Goroutines, Install(g)
    PROVE  Settling'
<1>0. InstallTo(g)
  BY InstallMoves
<1> USE GuardConstants DEF Tame, Shape, Judged, Settling, Order
<1>1. OneHolder'
  BY <1>0
     DEF Install, Fault, NoFault, InstallTo, OneHolder, Places, LoopAt,
         HandlerAt, At, SavePlaces, SyncLabels, HoldLabels, PreServe, Goroutines, Only,
         Same, Returned, Answered, Keeps, Fresh
<1>2. OneSave' /\ CoreStopped' /\ RefreshWanted'
  BY <1>0
     DEF Install, Fault, NoFault, InstallTo, OneSave, CoreStopped, RefreshWanted,
         CoreLabels, CoreAlone, Places, LoopAt, HandlerAt, At, SavePlaces, SyncLabels,
         HoldLabels, PreServe, Goroutines, Only, Same, Returned, Answered, Keeps, Fresh,
         cfgVars, wishVars, runVars
<1>3. \A k \in Handlers : Rebuilding(k) => Rebuilding(k)'
  BY <1>0
     DEF Install, Fault, NoFault, InstallTo, Rebuilding, Places, LoopAt, HandlerAt, At,
         SavePlaces, SyncLabels, HoldLabels, PreServe, Goroutines, Only, Same, Returned,
         Answered, Keeps, Fresh
<1>4. \A k \in Handlers : SaveBusy(k) => SaveBusy(k)'
  BY <1>0
     DEF Install, Fault, NoFault, InstallTo, SaveBusy, Rebuilding, Places, LoopAt,
         HandlerAt, At, SavePlaces, SyncLabels, HoldLabels, PreServe, Goroutines, Only,
         Same, Returned, Answered, Keeps, Fresh, cfgVars, wishVars, runVars
<1>5. \A k \in Goroutines : Bound(k) => Bound(k)'
  BY <1>0, <1>4
     DEF Install, Fault, NoFault, InstallTo, Bound, CoreStopped, CoreLabels, Goroutines,
         Only, Same, Returned, Answered, Keeps, Fresh
<1>6. SaveKnows'
  BY <1>0
     DEF Install, Fault, NoFault, InstallTo, SaveKnows, Places, LoopAt, HandlerAt, At,
         SavePlaces, SyncLabels, HoldLabels, PreServe, Goroutines, Only, Same, Returned,
         Answered, Keeps, Fresh, cfgVars, wishVars, runVars
<1>7. HoldIsOwned'
  BY <1>3, HoldKept DEF Install, Fault, NoFault, cfgVars, wishVars, runVars
<1>8c. SavePending => SavePending' /\ Pending'
  BY <1>4, PendingKept, BusyIsBound
<1>8d. Pending => Pending'
  BY <1>5, PendingKept
<1>8e. /\ UNCHANGED <<closed, late, disk, settings, wanted, bootWanted>>
      /\ pc[g] = "install"
      /\ \/ fw' = GuardSpec(settings) /\ owed' = StillOwed
         \/ fw' = fw /\ owed' = TRUE
  BY DEF Install, cfgVars, wishVars, runVars
<1>8f. pc'[g] \notin Deciding
  BY <1>0, <1>8e
     DEF Install, Fault, NoFault, InstallTo, Deciding, Places, LoopAt, HandlerAt, At,
         SavePlaces, SyncLabels, HoldLabels, PreServe, Goroutines, Only, Same, Returned,
         Answered, Keeps, Fresh
<1>9. Accurate'
  <2>1. CASE g = "boot"
    <3>1. Judging(Goroutines \ {"boot"})
      BY <1>0, <2>1 DEF Judging, InstallTo, Only, Same
    <3>2. late /\ (Pending \/ owed) => Pending' \/ owed'
      BY <1>8d, <1>8e DEF StillOwed
    <3> QED  BY <1>8c, <1>8e, <3>1, <3>2, AccurateKept DEF GuardWanted, WantConnected
  <2>2. CASE g # "boot"
    <3>1. \A k \in Goroutines \ {"boot"} : pc'[k] \notin Deciding
      BY <1>0, <1>8e, <1>8f, <2>2 DEF InstallTo, OneHolder, Only, Same, Deciding, HoldLabels
    <3> QED  BY <3>1 DEF Accurate, Deciding
  <2> QED  BY <2>1, <2>2
<1>10. BootAccurate' /\ RecordIsFw'
  <2>1. BootAccurate'
    BY <1>0, <1>8e
       DEF InstallTo, BootAccurate, GuardWanted, WantConnected, Only, Same, Returned,
           Answered, Goroutines
  <2>2. ASSUME NEW k \in Goroutines, pc'[k] = "record"
        PROVE  /\ fw' \in {"none", loc'[k].act}
               /\ pc'["boot"] \in PreServe => loc'[k].act = GuardSpec(settings)
    <3>1. CASE k = g
      BY <1>0, <1>8e, <2>2, <3>1
         DEF InstallTo, Returned, Answered, HandlerAt, Places, LoopAt, At, SavePlaces,
             SyncLabels, HoldLabels, Goroutines
    <3>2. CASE k # g
      <4>1. pc[k] = "record" /\ loc'[k].act = loc[k].act
        BY <1>0, <2>2, <3>2 DEF InstallTo, Only, Same
      <4>2. pc["boot"] \in PreServe
        BY <1>8e, <3>2, <4>1 DEF OneHolder, HoldLabels, PreServe
      <4>3. loc'[k].act = GuardSpec(settings)
        BY <4>1, <4>2 DEF RecordIsFw
      <4> QED  BY <1>8e, <4>1, <4>3 DEF RecordIsFw
    <3> QED  BY <3>1, <3>2
  <2> QED  BY <1>8e, <2>1, <2>2 DEF RecordIsFw
<1>11. FwRecorded'
  BY <1>0
     DEF Install, Fault, NoFault, InstallTo, FwRecorded, RecordIsFw, CoreStopped,
         CoreLabels, Goroutines, Only, Same, Returned, Answered, Keeps, Fresh, cfgVars,
         wishVars, runVars
<1>12. Aligned'
  <2>1. Target' = Target
    BY <1>8e DEF Target, GuardWanted, WantConnected
  <2>2. GuardWanted \/ disk = "unknown" \/ (g # "boot" /\ Excused)
    BY <1>8e DEF Accurate, BootAccurate
  <2>3. Excused => closed' \/ Pending' \/ (late /\ owed)
    BY <1>8c, <1>8d, <1>8e DEF Excused
  <2> QED  BY <1>8e, <2>1, <2>2, <2>3 DEF Aligned, Target, StillOwed
<1> QED
  BY <1>1, <1>2, <1>3, <1>4, <1>5, <1>6, <1>7, <1>8c, <1>8d, <1>8e, <1>8f, <1>9, <1>10,
     <1>11, <1>12

\* The filter is what it should be, or somebody is still to align it, after ClearGuard, taking the filter away.
LEMMA ClearSettling ==
    ASSUME Tame, Shape, Judged, Settling, NEW g \in Goroutines, Clear(g)
    PROVE  Settling'
<1>0. ClearTo(g)
  BY ClearMoves
<1> USE GuardConstants DEF Tame, Shape, Judged, Settling, Order
<1>1. OneHolder'
  BY <1>0
     DEF Clear, Fault, NoFault, ClearTo, OneHolder, Places, LoopAt, HandlerAt,
         At, SavePlaces, SyncLabels, HoldLabels, PreServe, Goroutines, Only, Same, Moved,
         Returned, Answered, Keeps, Fresh
<1>2. OneSave' /\ CoreStopped' /\ RefreshWanted'
  BY <1>0
     DEF Clear, Fault, NoFault, ClearTo, OneSave, CoreStopped, RefreshWanted, CoreLabels,
         CoreAlone, Places, LoopAt, HandlerAt, At, SavePlaces, SyncLabels, HoldLabels,
         PreServe, Goroutines, Only, Same, Moved, Returned, Answered, Keeps, Fresh, cfgVars,
         wishVars, runVars
<1>3. \A k \in Handlers : Rebuilding(k) => Rebuilding(k)'
  BY <1>0
     DEF Clear, Fault, NoFault, ClearTo, Rebuilding, Places, LoopAt, HandlerAt, At,
         SavePlaces, SyncLabels, HoldLabels, PreServe, Goroutines, Only, Same, Moved,
         Returned, Answered, Keeps, Fresh
<1>4. \A k \in Handlers : SaveBusy(k) => SaveBusy(k)'
  BY <1>0
     DEF Clear, Fault, NoFault, ClearTo, SaveBusy, Rebuilding, Places, LoopAt, HandlerAt,
         At, SavePlaces, SyncLabels, HoldLabels, PreServe, Goroutines, Only, Same, Moved,
         Returned, Answered, Keeps, Fresh, cfgVars, wishVars, runVars
<1>5. \A k \in Goroutines : Bound(k) => Bound(k)'
  BY <1>0, <1>4
     DEF Clear, Fault, NoFault, ClearTo, Bound, CoreStopped, CoreLabels, Goroutines, Only,
         Same, Moved, Returned, Answered, Keeps, Fresh
<1>6. SaveKnows'
  BY <1>0
     DEF Clear, Fault, NoFault, ClearTo, SaveKnows, Places, LoopAt, HandlerAt, At,
         SavePlaces, SyncLabels, HoldLabels, PreServe, Goroutines, Only, Same, Moved,
         Returned, Answered, Keeps, Fresh, cfgVars, wishVars, runVars
<1>7. HoldIsOwned'
  BY <1>3, HoldKept DEF Clear, Fault, NoFault, cfgVars, wishVars, runVars
<1>8c. SavePending => SavePending' /\ Pending'
  BY <1>4, PendingKept, BusyIsBound
<1>8d. Pending => Pending'
  BY <1>5, PendingKept
<1>8e. /\ UNCHANGED <<closed, late, disk, settings, wanted, bootWanted>>
      /\ pc[g] = "clear"
      /\ \/ fw' = "none" /\ owed' = StillOwed
         \/ fw' = fw /\ owed' = TRUE
  BY DEF Clear, cfgVars, wishVars, runVars
<1>8f. pc'[g] \notin Deciding
  BY <1>0, <1>8e
     DEF Clear, Fault, NoFault, ClearTo, Deciding, Places, LoopAt, HandlerAt, At,
         SavePlaces, SyncLabels, HoldLabels, PreServe, Goroutines, Only, Same, Moved,
         Returned, Answered, Keeps, Fresh
<1>9. Accurate'
  <2>1. CASE g = "boot"
    <3>1. Judging(Goroutines \ {"boot"})
      BY <1>0, <2>1 DEF Judging, ClearTo, Only, Same
    <3>2. late /\ (Pending \/ owed) => Pending' \/ owed'
      BY <1>8d, <1>8e DEF StillOwed
    <3> QED  BY <1>8c, <1>8e, <3>1, <3>2, AccurateKept DEF GuardWanted, WantConnected
  <2>2. CASE g # "boot"
    <3>1. \A k \in Goroutines \ {"boot"} : pc'[k] \notin Deciding
      BY <1>0, <1>8e, <1>8f, <2>2 DEF ClearTo, OneHolder, Only, Same, Deciding, HoldLabels
    <3> QED  BY <3>1 DEF Accurate, Deciding
  <2> QED  BY <2>1, <2>2
<1>10. BootAccurate' /\ RecordIsFw'
  BY <1>0
     DEF Clear, Fault, NoFault, ClearTo, BootAccurate, RecordIsFw, GuardWanted,
         WantConnected, CoreStopped, CoreLabels, Dormant, Quiet, Places, LoopAt, HandlerAt,
         At, SavePlaces, SyncLabels, HoldLabels, PreServe, Goroutines, Only, Same, Moved,
         Returned, Answered, Keeps, Fresh, cfgVars, wishVars, runVars
<1>11. FwRecorded'
  BY <1>0
     DEF Clear, Fault, NoFault, ClearTo, FwRecorded, RecordIsFw, CoreStopped, CoreLabels,
         Goroutines, Only, Same, Moved, Returned, Answered, Keeps, Fresh, cfgVars, wishVars,
         runVars
<1>12. Aligned'
  <2>1. Target' = Target
    BY <1>8e DEF Target, GuardWanted, WantConnected
  <2>2. ~GuardWanted \/ disk = "unknown" \/ (g # "boot" /\ Excused)
    BY <1>8e DEF Accurate, BootAccurate
  <2>3. Excused => closed' \/ Pending' \/ (late /\ owed)
    BY <1>8c, <1>8d, <1>8e DEF Excused
  <2> QED  BY <1>8e, <2>1, <2>2, <2>3 DEF Aligned, Target, StillOwed
<1> QED
  BY <1>1, <1>2, <1>3, <1>4, <1>5, <1>6, <1>7, <1>8c, <1>8d, <1>8e, <1>8f, <1>9, <1>10,
     <1>11, <1>12

\* The filter is what it should be, or somebody is still to align it, after the removal of a profile writing the settings back.
LEMMA RemoveWriteSettling ==
    ASSUME Tame, Shape, Judged, Settling, NEW h \in Handlers, RemoveWrite(h)
    PROVE  Settling'
<1>0. RemoveWriteTo(h)
  BY RemoveWriteMoves
<1> USE GuardConstants DEF Tame, Shape, Judged, Settling, Order
<1>0a. pc[h] = "remove" /\ loc[h].op = "remove" /\ settings' = settings
  BY <1>0
     DEF RemoveWrite, RemoveWriteTo, Places, HandlerAt, At, SavePlaces, SyncLabels,
         HoldLabels
<1>1. OneHolder'
  BY <1>0
     DEF RemoveWrite, RemoveWriteTo, OneHolder, Places, LoopAt, HandlerAt, At, SavePlaces, SyncLabels,
         HoldLabels, PreServe, Goroutines, Only, Same, Moved, Keeps
<1>2. OneSave' /\ CoreStopped' /\ RefreshWanted'
  BY <1>0, <1>0a
     DEF RemoveWrite, RemoveWriteTo, OneSave, CoreStopped, RefreshWanted, CoreLabels, Goroutines,
         CoreAlone, Only, Same, Moved, Keeps, wishVars, guardVars
<1>3. \A k \in Handlers : Rebuilding(k) => Rebuilding(k)'
  BY <1>0, <1>0a
     DEF RemoveWrite, RemoveWriteTo, Rebuilding, Places, LoopAt, HandlerAt, At, SavePlaces, SyncLabels,
         HoldLabels, PreServe, Goroutines, Only, Same, Moved, Keeps
<1>4. \A k \in Handlers : SaveBusy(k) => SaveBusy(k)'
  BY <1>0, <1>0a
     DEF RemoveWrite, RemoveWriteTo, SaveBusy, Rebuilding, Places, LoopAt, HandlerAt, At, SavePlaces,
         SyncLabels, HoldLabels, PreServe, Goroutines, Only, Same, Moved, Keeps, wishVars, guardVars
<1>5. \A k \in Goroutines : Bound(k) => Bound(k)'
  BY <1>0, <1>0a, <1>4
     DEF RemoveWrite, RemoveWriteTo, Bound, CoreStopped, CoreLabels, Goroutines, Only, Same, Moved, Keeps
<1>6. SaveKnows'
  BY <1>0, <1>0a
     DEF RemoveWrite, RemoveWriteTo, SaveKnows, Goroutines, Only, Same, Moved, Keeps, wishVars, guardVars
<1>7. HoldIsOwned'
  BY <1>3, HoldKept DEF RemoveWrite, guardVars
<1>8. Judging(Goroutines)
  BY <1>0
     DEF RemoveWrite, RemoveWriteTo, Judging, Deciding, CoreStopped, CoreLabels, Goroutines, Only, Same,
         Moved, Keeps
<1>8a. Judging(Goroutines \ {"boot"})
  BY <1>8, JudgingAll
<1>9. Accurate'
  BY <1>0, <1>0a, <1>4, <1>5, <1>8a, PendingKept, AccurateKept
     DEF RemoveWrite, RemoveWriteTo, GuardWanted, WantConnected, wishVars, guardVars
<1>10. BootAccurate' /\ RecordIsFw'
  BY <1>0, <1>0a
     DEF RemoveWrite, RemoveWriteTo, BootAccurate, RecordIsFw, GuardWanted, WantConnected, CoreStopped,
         CoreLabels, Dormant, Quiet, PreServe, Goroutines, Only, Same, Moved, Keeps, wishVars, guardVars
<1>11. FwRecorded'
  BY <1>0, <1>0a
     DEF RemoveWrite, RemoveWriteTo, FwRecorded, RecordIsFw, CoreStopped, CoreLabels, Goroutines, Only,
         Same, Moved, Keeps, wishVars, guardVars
<1>12. Aligned'
  BY <1>0, <1>0a, <1>5, <1>8, PendingKept, AlignedKept
     DEF RemoveWrite, RemoveWriteTo, Target, GuardWanted, WantConnected, Only, Same, Moved,
         Goroutines, wishVars, guardVars
<1> QED
  BY <1>1, <1>2, <1>4, <1>5, <1>6, <1>7, <1>9, <1>10, <1>11, <1>12

\* The filter is what it should be, or somebody is still to align it, after the removal of the last profile clearing the wish.
LEMMA RemoveForgetSettling ==
    ASSUME Tame, Shape, Judged, Settling, NEW h \in Handlers, RemoveForget(h)
    PROVE  Settling'
<1>0. RemoveForgetTo(h)
  BY RemoveForgetMoves
<1> USE GuardConstants DEF Tame, Shape, Judged, Settling, Order
<1>0a. pc[h] = "forget" /\ loc[h].op = "remove"
  BY DEF RemoveForget, Places, HandlerAt, At, SavePlaces, SyncLabels, HoldLabels
<1>1. OneHolder'
  BY <1>0
     DEF RemoveForget, RemoveForgetTo, OneHolder, Places, LoopAt, HandlerAt, At, SavePlaces, SyncLabels,
         HoldLabels, PreServe, Goroutines, Only, Same, Moved, Keeps
<1>2. OneSave' /\ CoreStopped' /\ RefreshWanted'
  BY <1>0, <1>0a
     DEF RemoveForget, RemoveForgetTo, OneSave, CoreStopped, RefreshWanted, CoreLabels, Goroutines,
         CoreAlone, Only, Same, Moved, Keeps, wishVars, runVars, guardVars
<1>3. \A k \in Handlers : Rebuilding(k) => Rebuilding(k)'
  BY <1>0, <1>0a
     DEF RemoveForget, RemoveForgetTo, Rebuilding, Places, LoopAt, HandlerAt, At, SavePlaces, SyncLabels,
         HoldLabels, PreServe, Goroutines, Only, Same, Moved, Keeps
<1>4. \A k \in Handlers : SaveBusy(k) => SaveBusy(k)'
  BY <1>0, <1>0a
     DEF RemoveForget, RemoveForgetTo, SaveBusy, Rebuilding, Places, LoopAt, HandlerAt, At, SavePlaces,
         SyncLabels, HoldLabels, PreServe, Goroutines, Only, Same, Moved, Keeps, wishVars, runVars, guardVars
<1>5. \A k \in Goroutines : Bound(k) => Bound(k)'
  BY <1>0, <1>0a, <1>4
     DEF RemoveForget, RemoveForgetTo, Bound, CoreStopped, CoreLabels, Goroutines, Only, Same, Moved, Keeps
<1>6. SaveKnows'
  BY <1>0, <1>0a
     DEF RemoveForget, RemoveForgetTo, SaveKnows, Goroutines, Only, Same, Moved, Keeps, wishVars, runVars, guardVars
<1>7. HoldIsOwned'
  BY <1>3, HoldKept DEF RemoveForget, guardVars
<1>8. Judging(Goroutines)
  BY <1>0
     DEF RemoveForget, RemoveForgetTo, Judging, Deciding, CoreStopped, CoreLabels, Goroutines, Only, Same,
         Moved, Keeps
<1>8a. Judging(Goroutines \ {"boot"})
  BY <1>8, JudgingAll
<1>9. Accurate'
  BY <1>4, <1>5, <1>8a, PendingKept, AccurateKept
     DEF RemoveForget, GuardWanted, WantConnected, wishVars, runVars, guardVars
<1>10. BootAccurate' /\ RecordIsFw'
  BY <1>0, <1>0a
     DEF RemoveForget, RemoveForgetTo, BootAccurate, RecordIsFw, GuardWanted, WantConnected, CoreStopped,
         CoreLabels, Dormant, Quiet, PreServe, Goroutines, Only, Same, Moved, Keeps, wishVars, runVars, guardVars
<1>11. FwRecorded'
  BY <1>0, <1>0a
     DEF RemoveForget, RemoveForgetTo, FwRecorded, RecordIsFw, CoreStopped, CoreLabels, Goroutines, Only,
         Same, Moved, Keeps, wishVars, runVars, guardVars
<1>12. Aligned'
  <2>1. pc'[h] = "disconnect" /\ loc'[h].op = "remove"
    BY <1>0, <1>0a DEF RemoveForgetTo, RemoveForget, Moved, Keeps
  <2>2. Pending'
    BY <2>1 DEF Pending, Bound, Goroutines
  <2> QED  BY <2>2 DEF Aligned
<1> QED
  BY <1>1, <1>2, <1>4, <1>5, <1>6, <1>7, <1>9, <1>10, <1>11, <1>12

\* The filter is what it should be, or somebody is still to align it, after its early return.
LEMMA AbandonSettling ==
    ASSUME Tame, Shape, Judged, Settling, NEW h \in Handlers, Abandon(h)
    PROVE  Settling'
<1>0. AbandonTo(h)
  BY AbandonMoves
<1> USE GuardConstants DEF Tame, Shape, Judged, Settling, Order
<1>0a. /\ pc[h] = "abandon" /\ loc[h].op = "save" /\ owed' /\ ~guardHold'
       /\ late' = ~GuardMuFree
  BY DEF Abandon, Places, HandlerAt, At, SavePlaces, SyncLabels, HoldLabels
<1>1. OneHolder'
  BY <1>0
     DEF Abandon, AbandonTo, OneHolder, Places, LoopAt, HandlerAt, At, SavePlaces, SyncLabels,
         HoldLabels, PreServe, Goroutines, Only, Same, Answered, Fresh
<1>2. OneSave' /\ CoreStopped' /\ RefreshWanted'
  BY <1>0, <1>0a
     DEF Abandon, AbandonTo, OneSave, CoreStopped, RefreshWanted, CoreLabels, Goroutines,
         CoreAlone, Only, Same, Answered, Fresh, cfgVars, wishVars
<1>6. SaveKnows'
  BY <1>0, <1>0a
     DEF Abandon, AbandonTo, SaveKnows, Goroutines, Only, Same, Answered, Fresh, cfgVars, wishVars
<1>7. HoldIsOwned'
  BY <1>0a DEF HoldIsOwned
<1>8. Judging(Goroutines)
  BY <1>0
     DEF Abandon, AbandonTo, Judging, Deciding, CoreStopped, CoreLabels, Goroutines, Only, Same,
         Answered, Fresh
<1>8a. Judging(Goroutines \ {"boot"})
  BY <1>8, JudgingAll
<1>9. Accurate'
  BY <1>0a, <1>8a, AccurateLate
<1>10. BootAccurate' /\ RecordIsFw'
  BY <1>0, <1>0a
     DEF Abandon, AbandonTo, BootAccurate, RecordIsFw, GuardWanted, WantConnected, CoreStopped,
         CoreLabels, Dormant, Quiet, PreServe, Goroutines, Only, Same, Answered, Fresh, cfgVars, wishVars
<1>11. FwRecorded'
  BY <1>0, <1>0a
     DEF Abandon, AbandonTo, FwRecorded, RecordIsFw, CoreStopped, CoreLabels, Goroutines, Only,
         Same, Answered, Fresh, cfgVars, wishVars
<1>12. Aligned'
  BY <1>0a DEF Aligned
<1> QED
  BY <1>1, <1>2, <1>6, <1>7, <1>9, <1>10, <1>11, <1>12

\* The filter is what it should be, or somebody is still to align it, after a request to stop the service.
LEMMA StopSettling ==
    ASSUME Tame, Shape, Judged, Settling, Stop
    PROVE  Settling'
<1>0. StopTo
  BY StopMoves
<1> USE GuardConstants DEF Tame, Shape, Judged, Settling, Order
<1>1. OneHolder'
  BY <1>0
     DEF Stop, Fault, StopTo, OneHolder, Goroutines, Only, Same, Moved, Keeps
<1>2. OneSave' /\ CoreStopped' /\ RefreshWanted'
  BY <1>0
     DEF Stop, Fault, StopTo, OneSave, CoreStopped, RefreshWanted, CoreLabels, CoreAlone,
         Goroutines, Only, Same, Moved, Keeps, cfgVars, runVars, guardVars
<1>3. \A k \in Handlers : Rebuilding(k) => Rebuilding(k)'
  BY <1>0
     DEF Stop, Fault, StopTo, Rebuilding, Places, LoopAt, HandlerAt, At, SavePlaces,
         SyncLabels, HoldLabels, PreServe, Goroutines, Only, Same, Moved, Keeps
<1>4. \A k \in Handlers : SaveBusy(k) => SaveBusy(k)'
  BY <1>0
     DEF Stop, Fault, StopTo, SaveBusy, Rebuilding, Places, LoopAt, HandlerAt, At,
         SavePlaces, SyncLabels, HoldLabels, PreServe, Goroutines, Only, Same, Moved, Keeps,
         cfgVars, runVars, guardVars
<1>5. \A k \in Goroutines : Bound(k) => Bound(k)'
  BY <1>0, <1>4
     DEF Stop, Fault, StopTo, Bound, CoreStopped, CoreLabels, Goroutines, Only, Same, Moved,
         Keeps
<1>6. SaveKnows'
  BY <1>0
     DEF Stop, Fault, StopTo, SaveKnows, Goroutines, Only, Same, Moved, Keeps, cfgVars,
         runVars, guardVars
<1>7. HoldIsOwned'
  BY <1>3, HoldKept DEF Stop, Fault, cfgVars, runVars, guardVars
<1>9. Accurate'
  BY DEF Stop, Accurate, Excused
<1>10. BootAccurate' /\ RecordIsFw'
  BY <1>0
     DEF Stop, Fault, StopTo, BootAccurate, RecordIsFw, GuardWanted, WantConnected,
         CoreStopped, CoreLabels, Dormant, Quiet, Places, LoopAt, HandlerAt, At, SavePlaces,
         SyncLabels, HoldLabels, PreServe, Goroutines, Only, Same, Moved, Keeps, cfgVars,
         runVars, guardVars
<1>11. FwRecorded'
  BY <1>0
     DEF Stop, Fault, StopTo, FwRecorded, RecordIsFw, CoreStopped, CoreLabels, Goroutines,
         Only, Same, Moved, Keeps, cfgVars, runVars, guardVars
<1>12. Aligned'
  BY DEF Stop, Aligned
<1> QED
  BY <1>1, <1>2, <1>3, <1>4, <1>5, <1>6, <1>7, <1>9, <1>10, <1>11, <1>12

\* The filter is what it should be, or somebody is still to align it, after a request coming in.
LEMMA CallSettling ==
    ASSUME Tame, Shape, Judged, Settling, NEW h \in Handlers, NEW op \in AllOps, Call(h, op)
    PROVE  Settling'
<1>0. CallTo(h, op)
  BY CallMoves
<1> USE GuardConstants DEF Tame, Shape, Judged, Settling, Order
<1>a. /\ pc[h] = "idle" /\ pc["boot"] = "serve" /\ op \in Ops
      /\ UNCHANGED <<file, settings, trusted, wanted, bootWanted, closed, late,
                     fw, guardOn, guardApplied, guardHold, owed>>
  BY DEF Call, Serving, runVars, wishVars, guardVars
<1>1. OneHolder'
  BY <1>0, <1>a
     DEF CallTo, OneHolder, Places, LoopAt, HandlerAt, At, SavePlaces,
         SyncLabels, HoldLabels, PreServe, Goroutines, Only, Same
<1>2. OneSave' /\ CoreStopped' /\ RefreshWanted'
  BY <1>0, <1>a
     DEF CallTo, OneSave, CoreStopped, RefreshWanted, CoreLabels, CoreAlone, SettingsOpFree,
         Goroutines, Only, Same
<1>3. \A k \in Handlers : Rebuilding(k) => Rebuilding(k)'
  BY <1>0, <1>a
     DEF CallTo, Rebuilding, Places, LoopAt, HandlerAt, At, SavePlaces, SyncLabels,
         HoldLabels, PreServe, Goroutines, Only, Same
<1>4. \A k \in Handlers : SaveBusy(k) => SaveBusy(k)'
  BY <1>0, <1>a
     DEF CallTo, SaveBusy, Rebuilding, Places, LoopAt, HandlerAt, At, SavePlaces,
         SyncLabels, HoldLabels, PreServe, Goroutines, Only, Same
<1>5. \A k \in Goroutines : Bound(k) => Bound(k)'
  BY <1>0, <1>4, <1>a DEF CallTo, Bound, CoreStopped, CoreLabels, Goroutines, Only, Same
<1>6. SaveKnows'
  BY <1>0, <1>a DEF CallTo, SaveKnows, Goroutines, Only, Same
<1>7. HoldIsOwned'
  BY <1>3, HoldKept, <1>a
<1>8. Judging(Goroutines)
  BY <1>0, <1>a
     DEF CallTo, Judging, Deciding, CoreStopped, CoreLabels, Goroutines, Only, Same
<1>9. Accurate'
  BY <1>4, <1>5, <1>8, JudgingAll, PendingKept, AccurateKept, <1>a
     DEF GuardWanted, WantConnected
<1>10. BootAccurate' /\ RecordIsFw'
  BY <1>0, <1>a
     DEF CallTo, BootAccurate, RecordIsFw, GuardWanted, WantConnected, CoreStopped,
         CoreLabels, Dormant, Quiet, Goroutines, Only, Same
<1>11. FwRecorded'
  BY <1>0, <1>a
     DEF CallTo, FwRecorded, RecordIsFw, CoreStopped, CoreLabels, Goroutines, Only, Same
<1>12. Aligned'
  <2>1. CASE disk' = disk
    <3>1. closed \/ owed \/ Pending => closed' \/ owed' \/ Pending'
      BY <1>a, <1>5, PendingKept
    <3>2. Target' = Target /\ pc'["boot"] = pc["boot"]
      BY <1>0, <1>a DEF Target, GuardWanted, WantConnected, CallTo, Only, Same, Goroutines
    <3> QED  BY <1>a, <1>8, <2>1, <3>1, <3>2, AlignedKept
  <2>2. CASE disk' # disk
    <3>1. \/ pc'[h] = "connect" /\ loc'[h].op = "connect"
          \/ pc'[h] = "disconnect" /\ loc'[h].op = "disconnect"
      BY <1>0, <2>2 DEF CallTo
    <3> QED  BY <3>1 DEF Aligned, Pending, Bound, Goroutines
  <2> QED  BY <2>1, <2>2
<1> QED
  BY <1>1, <1>2, <1>3, <1>4, <1>5, <1>6, <1>7, <1>8, <1>9, <1>10, <1>11, <1>12

\* The filter is what it should be, or somebody is still to align it, after MConnect.
LEMMA ConnectSettling ==
    ASSUME Tame, Shape, Judged, Settling, NEW h \in Handlers, Connect(h)
    PROVE  Settling'
<1>0. ConnectTo(h)
  BY ConnectMoves
<1> USE GuardConstants DEF Tame, Shape, Judged, Settling, Order
<1>1. OneHolder'
  BY <1>0
     DEF Connect, ConnectTo, OneHolder, Places, LoopAt, HandlerAt, At,
         SavePlaces, SyncLabels, HoldLabels, PreServe, Goroutines, Same, Synced, Keeps,
         Fresh, OnlyRun, RunKept
<1>2. OneSave' /\ CoreStopped' /\ RefreshWanted'
  BY <1>0
     DEF Connect, Wished, NotWished, ConnectTo, OneSave, CoreStopped, RefreshWanted,
         CoreLabels, OpMuFree, CoreAlone, Goroutines, Same, Synced, Keeps, Fresh, OnlyRun,
         RunKept, cfgVars, guardVars
<1>3. \A k \in Handlers : Rebuilding(k) => Rebuilding(k)'
  BY <1>0
     DEF Connect, ConnectTo, Rebuilding, Places, LoopAt, HandlerAt, At, SavePlaces,
         SyncLabels, HoldLabels, PreServe, Goroutines, Same, Synced, Keeps, Fresh, OnlyRun,
         RunKept
<1>4. \A k \in Handlers : SaveBusy(k) => SaveBusy(k)'
  BY <1>0
     DEF Connect, ConnectTo, SaveBusy, Rebuilding, Places, LoopAt, HandlerAt, At,
         SavePlaces, SyncLabels, HoldLabels, PreServe, Goroutines, Same, Synced, Keeps,
         Fresh, OnlyRun, RunKept, cfgVars, guardVars
<1>5. \A k \in Goroutines : Bound(k) => Bound(k)'
  BY <1>0, <1>4
     DEF Connect, ConnectTo, Bound, CoreStopped, CoreLabels, Goroutines, Same, Synced,
         Keeps, Fresh, OnlyRun, RunKept
<1>6. SaveKnows'
  BY <1>0
     DEF Connect, Wished, NotWished, ConnectTo, SaveKnows, Goroutines, Same, Synced, Keeps,
         Fresh, OnlyRun, RunKept, cfgVars, guardVars
<1>7. HoldIsOwned'
  BY <1>3, HoldKept DEF Connect, cfgVars, guardVars
<1>8b. Judging(Goroutines \ {"boot"})
  BY <1>0
     DEF Connect, ConnectTo, Judging, Deciding, CoreStopped, CoreLabels, Goroutines, Same,
         Synced, Keeps, Fresh, OnlyRun, RunKept
<1>8p. Pending'
  BY <1>0 DEF ConnectTo, Synced, Pending, Bound, Goroutines
<1>9. Accurate'
  <2>1. CASE NotWished
    BY <1>4, <1>8b, <1>8p, <2>1, PendingKept, AccurateKept
       DEF Connect, NotWished, GuardWanted, WantConnected, cfgVars
  <2>2. CASE late' = ~GuardMuFree
    BY <1>8b, <1>8p, <2>2, AccurateLate
  <2> QED  BY <1>0, <2>1, <2>2 DEF ConnectTo, Wished
<1>10a. pc["boot"] \notin PreServe /\ pc'["boot"] = pc["boot"]
  BY <1>0 DEF Connect, ConnectTo, OnlyRun, Same, Dormant, Quiet, Goroutines
<1>10. BootAccurate' /\ RecordIsFw'
  BY <1>0, <1>10a
     DEF Connect, ConnectTo, BootAccurate, RecordIsFw, PreServe, OnlyRun, Same, RunKept,
         Synced, guardVars
<1>11. FwRecorded'
  BY <1>0
     DEF Connect, ConnectTo, FwRecorded, RecordIsFw, CoreStopped, CoreLabels, Goroutines,
         Same, Synced, Keeps, Fresh, OnlyRun, RunKept, cfgVars, guardVars
<1>12. Aligned'
  BY <1>8p DEF Aligned
<1> QED
  BY <1>1, <1>2, <1>3, <1>4, <1>5, <1>6, <1>7, <1>8b, <1>8p, <1>9, <1>10a, <1>10, <1>11,
     <1>12

\* The filter is what it should be, or somebody is still to align it, after a disconnection clearing the wish.
LEMMA DisconnectSettling ==
    ASSUME Tame, Shape, Judged, Settling, NEW h \in Handlers, Disconnect(h)
    PROVE  Settling'
<1>0. DisconnectTo(h)
  BY DisconnectMoves
<1> USE GuardConstants DEF Tame, Shape, Judged, Settling, Order
<1>1. OneHolder'
  BY <1>0
     DEF Disconnect, DisconnectTo, OneHolder, Places, LoopAt, HandlerAt, At,
         SavePlaces, SyncLabels, HoldLabels, PreServe, Goroutines, Only, Same, Moved, Keeps
<1>2. OneSave' /\ CoreStopped' /\ RefreshWanted'
  BY <1>0
     DEF Disconnect, DisconnectTo, OneSave, CoreStopped, RefreshWanted, CoreLabels,
         OpMuFree, CoreAlone, Places, LoopAt, HandlerAt, At, SavePlaces, SyncLabels,
         HoldLabels, PreServe, Goroutines, Only, Same, Moved, Keeps, cfgVars, guardVars
<1>3. \A k \in Handlers : Rebuilding(k) => Rebuilding(k)'
  BY <1>0
     DEF Disconnect, DisconnectTo, Rebuilding, Places, LoopAt, HandlerAt, At, SavePlaces,
         SyncLabels, HoldLabels, PreServe, Goroutines, Only, Same, Moved, Keeps
<1>4. \A k \in Handlers : SaveBusy(k) => SaveBusy(k)'
  BY <1>0
     DEF Disconnect, DisconnectTo, SaveBusy, Rebuilding, Places, LoopAt, HandlerAt, At,
         SavePlaces, SyncLabels, HoldLabels, PreServe, Goroutines, Only, Same, Moved, Keeps,
         cfgVars, guardVars
<1>5. \A k \in Goroutines : Bound(k) => Bound(k)'
  BY <1>0, <1>4
     DEF Disconnect, DisconnectTo, Bound, CoreStopped, CoreLabels, Goroutines, Only, Same,
         Moved, Keeps
<1>6. SaveKnows'
  BY <1>0
     DEF Disconnect, DisconnectTo, SaveKnows, Goroutines, Only, Same, Moved, Keeps, cfgVars,
         guardVars
<1>7. HoldIsOwned'
  BY <1>3, HoldKept DEF Disconnect, cfgVars, guardVars
<1>8b. Judging(Goroutines \ {"boot"})
  BY <1>0
     DEF Disconnect, DisconnectTo, Judging, Deciding, CoreStopped, CoreLabels, Goroutines,
         Only, Same, Moved, Keeps
<1>8p. Pending'
  <2>1. loc[h].op \in {"disconnect", "remove"}
    BY DEF Disconnect, Places, HandlerAt, At, SavePlaces, SyncLabels, HoldLabels
  <2>2. pc'[h] = "halt" /\ loc'[h].op = loc[h].op
    BY <1>0 DEF Disconnect, DisconnectTo, Moved, Keeps
  <2> QED  BY <2>1, <2>2 DEF Pending, Bound, Goroutines
<1>9. Accurate'
  BY <1>8b, <1>8p, AccurateLate DEF Disconnect
<1>10a. pc["boot"] \notin PreServe /\ pc'["boot"] = pc["boot"]
  BY <1>0 DEF Disconnect, DisconnectTo, Only, Same, Dormant, Quiet, Goroutines
<1>10. BootAccurate' /\ RecordIsFw'
  BY <1>0, <1>10a
     DEF Disconnect, DisconnectTo, BootAccurate, RecordIsFw, PreServe, Only, Same, Moved,
         guardVars
<1>11. FwRecorded'
  BY <1>0
     DEF Disconnect, DisconnectTo, FwRecorded, RecordIsFw, CoreStopped, CoreLabels,
         Goroutines, Only, Same, Moved, Keeps, cfgVars, guardVars
<1>12. Aligned'
  BY <1>8p DEF Aligned
<1> QED
  BY <1>1, <1>2, <1>3, <1>4, <1>5, <1>6, <1>7, <1>8b, <1>8p, <1>9, <1>10a, <1>10, <1>11,
     <1>12

\* The filter is what it should be, or somebody is still to align it, after stopLoop, once the run goroutine has ended.
LEMMA HaltSettling ==
    ASSUME Tame, Shape, Judged, Settling, NEW h \in Handlers, Halt(h)
    PROVE  Settling'
<1>0. HaltTo(h)
  BY HaltMoves
<1> USE GuardConstants DEF Tame, Shape, Judged, Settling, Order
<1>1. OneHolder'
  BY <1>0
     DEF Halt, HaltTo, OneHolder, Places, LoopAt, HandlerAt, At, SavePlaces,
         SyncLabels, HoldLabels, PreServe, Goroutines, Same, Moved, Answered, Synced, Keeps,
         Fresh, OnlyRun, RunKept
<1>2a. OneSave'
  BY <1>0
     DEF HaltTo, OneSave, OnlyRun, RunKept, Same, Moved, Answered, Synced, Keeps, Fresh,
         Goroutines
<1>2b. \A k \in Handlers \ {h} : pc'[k] = pc[k] /\ pc'[k] \notin CoreLabels /\ loc'[k].op = loc[k].op
  BY <1>0 DEF HaltTo, OnlyRun, Same, CoreAlone, CoreLabels, Goroutines
<1>2c. CoreStopped'
  BY <1>0, <1>2b DEF HaltTo, CoreStopped, CoreLabels, Same, Moved, Synced, Answered
<1>2d. RefreshWanted'
  BY <1>0, <1>2b DEF HaltTo, RefreshWanted, CoreLabels, Moved, Synced, Answered
<1>3. \A k \in Handlers : Rebuilding(k) => Rebuilding(k)'
  BY <1>0
     DEF Halt, HaltTo, Rebuilding, Places, LoopAt, HandlerAt, At, SavePlaces, SyncLabels,
         HoldLabels, PreServe, Goroutines, Same, Moved, Answered, Synced, Keeps, Fresh,
         OnlyRun, RunKept
<1>4. \A k \in Handlers : SaveBusy(k) => SaveBusy(k)'
  BY <1>0
     DEF Halt, HaltTo, SaveBusy, Rebuilding, Places, LoopAt, HandlerAt, At, SavePlaces,
         SyncLabels, HoldLabels, PreServe, Goroutines, Same, Moved, Answered, Synced, Keeps,
         Fresh, OnlyRun, RunKept, cfgVars, guardVars
<1>5. \A k \in Goroutines : Bound(k) => Bound(k)'
  BY <1>0, <1>4
     DEF Halt, HaltTo, Bound, CoreStopped, CoreLabels, Goroutines, Same, Moved, Answered,
         Synced, Keeps, Fresh, OnlyRun, RunKept
<1>5a. wanted' = wanted /\ (late' = late \/ late' = ~GuardMuFree)
  BY <1>0 DEF HaltTo, Wished, NotWished, RefreshWanted, FlagTypes
<1>5b. UNCHANGED <<disk, settings, trusted, bootWanted, closed, fw, owed>>
  BY DEF Halt, cfgVars, guardVars
<1>6. SaveKnows'
  BY <1>0, <1>5b
     DEF HaltTo, SaveKnows, OnlyRun, RunKept, Same, Moved, Answered, Synced, Keeps, Fresh,
         Goroutines
<1>7. HoldIsOwned'
  BY <1>3, HoldKept DEF Halt, cfgVars, guardVars
<1>8. Judging(Goroutines)
  BY <1>0
     DEF Halt, HaltTo, Judging, Deciding, CoreStopped, CoreLabels, Goroutines, Same, Moved,
         Answered, Synced, Keeps, Fresh, OnlyRun, RunKept
<1>9. Accurate'
  BY <1>4, <1>5, <1>5a, <1>5b, <1>8, JudgingAll, PendingKept, AccurateKept
     DEF GuardWanted, WantConnected
<1>10a. pc["boot"] \notin PreServe /\ pc'["boot"] = pc["boot"]
  BY <1>0 DEF HaltTo, OnlyRun, Same, Dormant, Quiet, Goroutines
<1>10. BootAccurate' /\ RecordIsFw'
  BY <1>0, <1>5b, <1>10a
     DEF HaltTo, BootAccurate, RecordIsFw, PreServe, OnlyRun, Same, RunKept, Moved, Synced,
         Answered, Goroutines
<1>11. FwRecorded'
  BY <1>0 DEF Halt, HaltTo, FwRecorded, OnlyRun, Same, Goroutines, guardVars
<1>12. Aligned'
  BY <1>5, <1>5a, <1>5b, <1>8, <1>10a, PendingKept, AlignedKept
     DEF Target, GuardWanted, WantConnected
<1> QED
  BY <1>1, <1>2a, <1>2b, <1>2c, <1>2d, <1>3, <1>4, <1>5, <1>5a, <1>5b, <1>6, <1>7, <1>8,
     <1>9, <1>10a, <1>10, <1>11, <1>12

\* The filter is what it should be, or somebody is still to align it, after MSetSettings publishing the settings.
LEMMA SaveSettling ==
    ASSUME Tame, Shape, Judged, Settling, NEW h \in Handlers, NEW s \in Choices, Save(h, s)
    PROVE  Settling'
<1>0. SaveTo(h, s)
  BY SaveMoves
<1> USE GuardConstants DEF Tame, Shape, Judged, Settling, Order
<1>1. OneHolder'
  BY <1>0
     DEF Save, SaveTo, OneHolder, Places, LoopAt, HandlerAt, At, SavePlaces,
         SyncLabels, HoldLabels, PreServe, Goroutines, Only, Same, Moved, Keeps
<1>2. OneSave' /\ CoreStopped' /\ RefreshWanted'
  BY <1>0
     DEF Save, SaveTo, OneSave, CoreStopped, RefreshWanted, CoreLabels, CoreAlone,
         Goroutines, Only, Same, Moved, Keeps, wishVars, guardVars
<1>3. \A k \in Handlers : Rebuilding(k) => Rebuilding(k)'
  BY <1>0
     DEF Save, SaveTo, Rebuilding, Places, LoopAt, HandlerAt, At, SavePlaces, SyncLabels,
         HoldLabels, PreServe, Goroutines, Only, Same, Moved, Keeps
<1>4. \A k \in Handlers : SaveBusy(k) => SaveBusy(k)'
  BY <1>0
     DEF Save, SaveTo, OneSave, SaveBusy, Rebuilding, Places, LoopAt, HandlerAt, At,
         SavePlaces, SyncLabels, HoldLabels, PreServe, Goroutines, Only, Same, Moved, Keeps
<1>5. \A k \in Goroutines : Bound(k) => Bound(k)'
  BY <1>0, <1>4
     DEF Save, SaveTo, Bound, CoreStopped, CoreLabels, Goroutines, Only, Same, Moved, Keeps
<1>6. SaveKnows'
  <2>1. loc[h].op = "save"
    BY DEF Save, Places, HandlerAt, At, SavePlaces, SyncLabels, HoldLabels
  <2> QED  BY <1>0, <2>1
              DEF SaveTo, SaveKnows, OneSave, Only, Same, Moved, Keeps, Goroutines
<1>7. HoldIsOwned'
  BY <1>3, HoldKept DEF Save, wishVars, guardVars
<1>8. Judging(Goroutines)
  BY <1>0
     DEF Save, SaveTo, Judging, Deciding, CoreStopped, CoreLabels, Goroutines, Only, Same,
         Moved, Keeps
<1>8p. settings' # settings => Pending'
  <2>1. loc[h].op = "save" /\ loc[h].prev = settings
    BY DEF Save, SaveKnows, Places, HandlerAt, At, SavePlaces, SyncLabels, HoldLabels
  <2> QED  BY <1>0, <2>1 DEF SaveTo, Moved, Keeps, Pending, Bound, SaveBusy, Goroutines
<1>8q. UNCHANGED <<disk, wanted, bootWanted, closed, fw, owed>> /\ late' = ~GuardMuFree
  BY <1>0 DEF Save, SaveTo, wishVars, guardVars
<1>9. Accurate'
  <2>1. CASE settings' = settings
    BY <1>4, <1>5, <1>8, <1>8q, <2>1, JudgingAll, PendingKept, AccurateKept
       DEF GuardWanted, WantConnected
  <2>2. CASE settings' # settings
    BY <1>8, <1>8p, <1>8q, <2>2, JudgingAll, AccurateLate
  <2> QED  BY <2>1, <2>2
<1>10a. pc["boot"] \notin PreServe /\ pc'["boot"] = pc["boot"]
  BY <1>0 DEF Save, SaveTo, Only, Same, Dormant, Quiet, Goroutines
<1>10. BootAccurate' /\ RecordIsFw'
  BY <1>0, <1>8q, <1>10a DEF SaveTo, BootAccurate, RecordIsFw, PreServe, Only, Same, Moved
<1>11. FwRecorded'
  BY <1>0
     DEF Save, SaveTo, FwRecorded, RecordIsFw, CoreStopped, CoreLabels, Goroutines, Only,
         Same, Moved, Keeps, wishVars, guardVars
<1>12. Aligned'
  <2>1. CASE settings' = settings
    BY <1>5, <1>8, <1>8q, <1>10a, <2>1, PendingKept, AlignedKept
       DEF Target, GuardWanted, WantConnected
  <2>2. CASE settings' # settings
    BY <1>8p, <2>2 DEF Aligned
  <2> QED  BY <2>1, <2>2
<1> QED
  BY <1>1, <1>2, <1>3, <1>4, <1>5, <1>6, <1>7, <1>8, <1>8p, <1>8q, <1>9, <1>10a, <1>10,
     <1>11, <1>12

\* The filter is what it should be, or somebody is still to align it, after the rollback of a tightening.
LEMMA RollbackSettling ==
    ASSUME Tame, Shape, Judged, Settling, NEW h \in Handlers, Rollback(h)
    PROVE  Settling'
<1>0. RollbackTo(h)
  BY RollbackMoves
<1> USE GuardConstants DEF Tame, Shape, Judged, Settling, Order
<1>0a. pc[h] \in {"undo", "rollback"} /\ loc[h].op = "save" /\ UNCHANGED <<disk, bootWanted, closed, guardVars>>
  BY DEF Rollback, Places, HandlerAt, At, SyncLabels, HoldLabels
<1>0b. ~MachineClosed \/ pc[h] = "rollback"
  BY <1>0a DEF MachineClosed, CoreAlone, CoreLabels, Dormant, Quiet
<1>0c. /\ late' = ~GuardMuFree /\ (wanted' = wanted \/ wanted' = TRUE)
      /\ \/ Moved(h, "settle")
         \/ Moved(h, "abandon")
  BY <1>0, <1>0b DEF RollbackTo, Wished
<1>1. OneHolder'
  BY <1>0, <1>0a, <1>0c
     DEF RollbackTo, OneHolder, Places, LoopAt, HandlerAt, At, SavePlaces,
         SyncLabels, HoldLabels, PreServe, Goroutines, Same, Moved, Keeps, Fresh, OnlyRun,
         RunKept
<1>2. OneSave' /\ CoreStopped' /\ RefreshWanted'
  BY <1>0, <1>0a, <1>0c
     DEF RollbackTo, OneSave, CoreStopped, RefreshWanted, CoreLabels, CoreAlone, Goroutines,
         Same, Moved, Keeps, Fresh, OnlyRun, RunKept
<1>3. \A k \in Handlers : Rebuilding(k) => Rebuilding(k)'
  BY <1>0, <1>0a, <1>0c
     DEF RollbackTo, Rebuilding, Places, LoopAt, HandlerAt, At, SavePlaces, SyncLabels,
         HoldLabels, PreServe, Goroutines, Same, Moved, Keeps, Fresh, OnlyRun, RunKept
<1>4. \A k \in Handlers : SaveBusy(k) => SaveBusy(k)'
  BY <1>0, <1>0a, <1>0c
     DEF RollbackTo, OneSave, SaveBusy, Rebuilding, Places, LoopAt, HandlerAt, At,
         SavePlaces, SyncLabels, HoldLabels, PreServe, Goroutines, Same, Moved, Keeps,
         Fresh, OnlyRun, RunKept
<1>5. \A k \in Goroutines : Bound(k) => Bound(k)'
  BY <1>0, <1>0a, <1>0c, <1>4
     DEF RollbackTo, Bound, CoreStopped, CoreLabels, Goroutines, Same, Moved, Keeps, Fresh,
         OnlyRun, RunKept
<1>6. SaveKnows'
  BY <1>0, <1>0a, <1>0c
     DEF RollbackTo, RolledBack, SaveKnows, OneSave, Goroutines, Same, Moved, Keeps, Fresh,
         OnlyRun, RunKept
<1>7. HoldIsOwned'
  BY <1>0a, <1>3, HoldKept DEF guardVars
<1>8b. Judging(Goroutines \ {"boot"})
  BY <1>0, <1>0a, <1>0c
     DEF RollbackTo, Judging, Deciding, CoreStopped, CoreLabels, Goroutines, Same, Moved,
         Keeps, Fresh, OnlyRun, RunKept
<1>8p. Pending'
  BY <1>0a, <1>0c
     DEF Moved, Keeps, Pending, Bound, SaveBusy, Rebuilding, At, SavePlaces, Goroutines
<1>9. Accurate'
  BY <1>0c, <1>8b, <1>8p, AccurateLate
<1>10a. pc["boot"] \notin PreServe /\ pc'["boot"] = pc["boot"]
  BY <1>0, <1>0a DEF RollbackTo, OnlyRun, Same, Dormant, Quiet, Goroutines
<1>10. BootAccurate' /\ RecordIsFw'
  BY <1>0, <1>0a, <1>0c, <1>10a
     DEF RollbackTo, BootAccurate, RecordIsFw, PreServe, OnlyRun, RunKept, Same, Moved,
         guardVars, Goroutines
<1>11. FwRecorded'
  BY <1>0, <1>0a DEF RollbackTo, FwRecorded, OnlyRun, RunKept, Same, Goroutines, guardVars
<1>12. Aligned'
  BY <1>8p DEF Aligned
<1> QED
  BY <1>0a, <1>0b, <1>0c, <1>1, <1>2, <1>3, <1>4, <1>5, <1>6, <1>7, <1>8b, <1>8p, <1>9,
     <1>10a, <1>10, <1>11, <1>12

\* The filter is what it should be, or somebody is still to align it, after the start of the service.
LEMMA BootSettling ==
    ASSUME Tame, Shape, Judged, Settling, Boot
    PROVE  Settling'
<1>0. BootTo
  BY BootMoves
<1> USE GuardConstants DEF Tame, Shape, Judged, Settling, Order
<1>1. /\ \A h \in Handlers : pc[h] = "idle" /\ loc[h].op = "none"
      /\ pc["run"] = "off" /\ pc["watch"] = "idle" /\ pc["boot"] = "dead"
      /\ ~guardHold /\ guardApplied = "none"
  BY DEF Boot, Dormant, Quiet, Places, HandlerAt, At, SavePlaces, SyncLabels, HoldLabels
<1>2. /\ \A g \in Goroutines : pc'[g] \in {"idle", "off", "reconcile"}
      /\ \A h \in Handlers : pc'[h] = "idle" /\ loc'[h].op = "none"
      /\ pc'["run"] = "off" /\ pc'["boot"] = "reconcile"
      /\ ~guardHold' /\ guardApplied' = "none"
  BY <1>0, <1>1 DEF Boot, BootTo, Goroutines
<1>3. Order'
  BY <1>2
     DEF OneHolder, OneSave, CoreStopped, RefreshWanted, CoreLabels, HoldLabels
<1>4. SaveKnows' /\ HoldIsOwned' /\ FwRecorded' /\ Aligned'
  BY <1>2 DEF SaveKnows, HoldIsOwned, FwRecorded, Aligned
<1>5. Accurate' /\ BootAccurate' /\ RecordIsFw'
  BY <1>2 DEF Accurate, BootAccurate, RecordIsFw
<1> QED  BY <1>3, <1>4, <1>5

\* The filter is what it should be, or somebody is still to align it, after the end of the process.
LEMMA ExitSettling ==
    ASSUME Shape, Exit
    PROVE  Settling'
<1>1. Emptied /\ ~guardHold' /\ guardApplied' = "none"
  BY DEF Exit, Die, Emptied
<1>2. /\ \A g \in Goroutines : pc'[g] \in {"idle", "off", "dead"} /\ loc'[g].op = "none"
      /\ \A h \in Handlers : pc'[h] = "idle" /\ h \in Goroutines
      /\ pc'["run"] = "off" /\ pc'["boot"] = "dead"
  BY <1>1, EmptiedMoves DEF Fresh, Goroutines
<1>3. Order'
  BY <1>2
     DEF Order, OneHolder, OneSave, CoreStopped, RefreshWanted, CoreLabels,
         HoldLabels
<1>4. SaveKnows' /\ HoldIsOwned' /\ FwRecorded' /\ Aligned'
  BY <1>1, <1>2 DEF SaveKnows, HoldIsOwned, FwRecorded, Aligned
<1>5. Accurate' /\ BootAccurate' /\ RecordIsFw'
  BY <1>2 DEF Accurate, BootAccurate, RecordIsFw
<1> QED  BY <1>3, <1>4, <1>5 DEF Settling

\* The filter is what it should be, or somebody is still to align it, after a crash or a power cut.
LEMMA KillSettling ==
    ASSUME Shape, Kill
    PROVE  Settling'
<1>1. Emptied /\ ~guardHold' /\ guardApplied' = "none"
  BY DEF Kill, Die, Emptied
<1>2. /\ \A g \in Goroutines : pc'[g] \in {"idle", "off", "dead"} /\ loc'[g].op = "none"
      /\ \A h \in Handlers : pc'[h] = "idle" /\ h \in Goroutines
      /\ pc'["run"] = "off" /\ pc'["boot"] = "dead"
  BY <1>1, EmptiedMoves DEF Fresh, Goroutines
<1>3. Order'
  BY <1>2
     DEF Order, OneHolder, OneSave, CoreStopped, RefreshWanted, CoreLabels,
         HoldLabels
<1>4. SaveKnows' /\ HoldIsOwned' /\ FwRecorded' /\ Aligned'
  BY <1>1, <1>2 DEF SaveKnows, HoldIsOwned, FwRecorded, Aligned
<1>5. Accurate' /\ BootAccurate' /\ RecordIsFw'
  BY <1>2 DEF Accurate, BootAccurate, RecordIsFw
<1> QED  BY <1>3, <1>4, <1>5 DEF Settling

\* The filter is what it should be, or somebody is still to align it, after another program flushing the filter.
LEMMA TamperSettling ==
    ASSUME Tame, Shape, Judged, Settling, Tamper
    PROVE  Settling'
<1>1. /\ UNCHANGED <<cfgVars, wishVars, runVars, pc, loc, guardApplied, guardHold>>
      /\ fw' = "none" /\ owed' = TRUE
  BY DEF Tamper
<1>2. Order' /\ SaveKnows' /\ HoldIsOwned'
  BY <1>1
     DEF Settling, Order, OneHolder, OneSave, CoreStopped, RefreshWanted,
         SaveKnows, HoldIsOwned, Rebuilding, At, wishVars, cfgVars
<1>3. Pending' <=> Pending
  BY <1>1 DEF Pending, Bound, SaveBusy, Rebuilding, At, cfgVars
<1>4. SavePending' <=> SavePending
  BY <1>1 DEF SavePending, SaveBusy, Rebuilding, At, cfgVars
<1>5. Excused => Excused'
  BY <1>1, <1>3, <1>4 DEF Excused, wishVars, runVars
<1>6. Accurate' /\ BootAccurate'
  BY <1>1, <1>5
     DEF Settling, Accurate, BootAccurate, GuardWanted, WantConnected, cfgVars, wishVars
<1>7. RecordIsFw' /\ FwRecorded' /\ Aligned'
  BY <1>1 DEF Settling, RecordIsFw, FwRecorded, Aligned, cfgVars
<1> QED  BY <1>2, <1>6, <1>7 DEF Settling

\* The filter is what it should be, or somebody is still to align it, after the reconciliation of the filter found in place.
LEMMA ReconcileSettling ==
    ASSUME Tame, Shape, Judged, Settling, Reconcile
    PROVE  Settling'
<1>0. ReconcileTo
  BY ReconcileMoves
<1> USE GuardConstants DEF Tame, Shape, Judged, Settling, Order
<1>0a. pc["boot"] = "reconcile" /\ UNCHANGED <<cfgVars, wishVars, runVars, fw, guardApplied, guardHold>>
  BY DEF Reconcile
<1>0b. /\ disk \in {"yes", "no", "unknown"} /\ "boot" \in Goroutines
      /\ ~wanted /\ (bootWanted <=> (disk = "yes" /\ trusted))
  BY <1>0a DEF FileTypes, Dormant, Quiet, PreServe, Goroutines
<1>0c. \A k \in Goroutines \ {"boot"} : Same(k)
  BY <1>0 DEF ReconcileTo, Only
<1>0d. \A k \in Handlers : Same(k)
  BY <1>0c DEF Goroutines
<1>1. OneHolder'
  BY <1>0c, <1>0d DEF OneHolder, Same
<1>2. OneSave' /\ CoreStopped' /\ RefreshWanted'
  BY <1>0a, <1>0c, <1>0d DEF OneSave, CoreStopped, RefreshWanted, Same, wishVars, Goroutines
<1>3. \A k \in Handlers : Rebuilding(k) => Rebuilding(k)'
  BY <1>0d DEF Rebuilding, At, Same
<1>4. \A k \in Handlers : SaveBusy(k) => SaveBusy(k)'
  BY <1>0a, <1>0d, <1>3 DEF SaveBusy, Same, cfgVars
<1>5. \A k \in Goroutines : Bound(k) => Bound(k)'
  <2>1. ~Bound("boot")
    BY <1>0a DEF Bound
  <2>2. ASSUME NEW k \in Goroutines \ {"boot"}, Bound(k) PROVE Bound(k)'
    BY <1>0c, <1>4, <2>2 DEF Bound, Same
  <2> QED  BY <2>1, <2>2
<1>6. SaveKnows'
  BY <1>0a, <1>0d DEF SaveKnows, Same, cfgVars
<1>7. HoldIsOwned'
  BY <1>0a, <1>3, HoldKept
<1>8b. Judging(Goroutines \ {"boot"})
  BY <1>0c DEF Judging, Same
<1>8c. owed => owed'
  BY DEF Reconcile
<1>9. Accurate'
  BY <1>0a, <1>4, <1>5, <1>8b, <1>8c, PendingKept, AccurateKept
     DEF GuardWanted, WantConnected, cfgVars, wishVars, runVars
<1>9a. pc'["boot"] = "install" => disk = "unknown" \/ (disk = "yes" /\ trusted /\ GuardOn(settings))
  BY <1>0a, <1>0b DEF Reconcile, Goto, PlaceTypes
<1>9b. pc'["boot"] = "clear" => ~(disk = "yes" /\ GuardOn(settings))
  BY <1>0a, <1>0b DEF Reconcile, Goto, PlaceTypes
<1>9c. pc'["boot"] \in Deciding \/ owed' = TRUE
  BY <1>0a, <1>0b DEF Reconcile, Goto, PlaceTypes, Deciding
<1>9d. BootAccurate'
  BY <1>0a, <1>0b, <1>9a, <1>9b
     DEF BootAccurate, GuardWanted, WantConnected, cfgVars, wishVars
<1>9e. \A k \in Goroutines : pc'[k] = "record" => pc[k] = "record" /\ loc'[k].act = loc[k].act
  BY <1>0 DEF ReconcileTo, Moved, Only, Same
<1>10. BootAccurate' /\ RecordIsFw'
  BY <1>0a, <1>9d, <1>9e DEF RecordIsFw, PreServe, cfgVars
<1>11. FwRecorded'
  BY <1>0a, <1>0c DEF FwRecorded, Same
<1>12. Aligned'
  BY <1>0b, <1>9c DEF Aligned
<1> QED
  BY <1>0a, <1>0b, <1>0c, <1>0d, <1>1, <1>2, <1>3, <1>4, <1>5, <1>6, <1>7, <1>8b, <1>8c,
     <1>9, <1>9a, <1>9b, <1>9c, <1>9d, <1>9e, <1>10, <1>11, <1>12

\* The filter is what it should be, or somebody is still to align it, after the automatic connection.
LEMMA AutoConnectSettling ==
    ASSUME Tame, Shape, Judged, Settling, AutoConnect
    PROVE  Settling'
<1>0. AutoConnectTo
  BY AutoConnectMoves
<1> USE GuardConstants DEF Tame, Shape, Judged, Settling, Order
<1>0a. /\ pc["boot"] = "auto" /\ ConnOpFree /\ OpMuFree /\ bootWanted' = FALSE
      /\ UNCHANGED <<cfgVars, closed, guardVars>>
  BY DEF AutoConnect
<1>0b. /\ "boot" \in Goroutines /\ ~wanted /\ ~guardHold
      /\ (bootWanted <=> (disk = "yes" /\ trusted))
  BY <1>0a DEF Dormant, Quiet, PreServe, Goroutines
<1>0i. \A k \in Handlers : pc[k] = "idle" /\ loc[k].op = "none"
  BY <1>0a
     DEF Dormant, Quiet, PreServe, Places, HandlerAt, At, SavePlaces, SyncLabels, HoldLabels
<1>0c. \A k \in Goroutines \ {"boot", "run"} : Same(k)
  BY <1>0 DEF AutoConnectTo, OnlyRun
<1>0d. \A k \in Handlers : Same(k)
  BY <1>0c DEF Goroutines
<1>0e. RunKept /\ Moved("boot", "serve")
  BY <1>0 DEF AutoConnectTo
<1>0f. wanted' <=> (disk = "yes" /\ trusted)
  <2>1. CASE disk = "yes" /\ trusted
    BY <1>0, <1>0a, <2>1 DEF AutoConnectTo, Wished, MachineClosed
  <2>2. CASE ~(disk = "yes" /\ trusted)
    <3>1. wanted' = wanted
      BY <1>0, <2>2 DEF AutoConnectTo
    <3> QED  BY <1>0b, <2>2, <3>1
  <2> QED  BY <2>1, <2>2
<1>0h. late' = late \/ late' = ~GuardMuFree
  BY <1>0 DEF AutoConnectTo, Wished, NotWished
<1>0g. GuardWanted' <=> GuardWanted
  <2>1. settings' = settings /\ bootWanted' = FALSE
    BY <1>0a DEF cfgVars
  <2> QED  BY <1>0b, <1>0f, <2>1 DEF GuardWanted, WantConnected
<1>1. OneHolder'
  <2>1. ASSUME NEW k \in Goroutines \ {"boot"}, pc'[k] \in HoldLabels  PROVE pc[k] \in HoldLabels
    BY <1>0c, <1>0e, <2>1 DEF RunKept, Same, HoldLabels
  <2> QED  BY <1>0d, <2>1 DEF OneHolder, Same
<1>2. OneSave' /\ CoreStopped' /\ RefreshWanted'
  BY <1>0i, <1>0d DEF OneSave, CoreStopped, RefreshWanted, Same, CoreLabels
<1>3. \A k \in Handlers : Rebuilding(k) => Rebuilding(k)'
  BY <1>0d DEF Rebuilding, At, Same
<1>4. \A k \in Handlers : SaveBusy(k) => SaveBusy(k)'
  BY <1>0a, <1>0d, <1>3 DEF SaveBusy, Same, cfgVars
<1>5. \A k \in Goroutines : Bound(k) => Bound(k)'
  <2>1. ~Bound("boot")
    BY <1>0a DEF Bound
  <2>2. Bound("run") => Bound("run")'
    BY <1>0e, GuardConstants DEF Bound, RunKept, Same
  <2>3. ASSUME NEW k \in Goroutines \ {"boot", "run"}, Bound(k) PROVE Bound(k)'
    BY <1>0c, <1>4, <2>3 DEF Bound, Same
  <2> QED  BY <2>1, <2>2, <2>3
<1>6. SaveKnows'
  BY <1>0i, <1>0d DEF SaveKnows, Same
<1>7. HoldIsOwned'
  BY <1>0a, <1>3, HoldKept DEF guardVars
<1>8. Judging(Goroutines)
  <2>1. ASSUME NEW k \in Goroutines \ {"boot", "run"}
        PROVE  pc'[k] = pc[k] /\ loc'[k].act = loc[k].act
    BY <1>0c DEF Same
  <2>2. /\ pc["run"] \in Deciding \/ pc'["run"] \in Deciding => pc'["run"] = pc["run"]
        /\ pc'["run"] = "decide" => loc'["run"].act = loc["run"].act
    BY <1>0e DEF RunKept, Same, Deciding
  <2>3. pc["boot"] \notin Deciding /\ pc'["boot"] \notin Deciding
    BY <1>0a, <1>0e DEF Moved, Deciding
  <2> QED  BY <2>1, <2>2, <2>3 DEF Judging, Deciding
<1>9. Accurate'
  BY <1>0a, <1>0h, <1>0g, <1>4, <1>5, <1>8, JudgingAll, PendingKept, AccurateKept
     DEF guardVars
<1>10. BootAccurate' /\ RecordIsFw'
  <2>1. \A k \in Goroutines : pc'[k] = "record" => pc[k] = "record" /\ loc'[k].act = loc[k].act
    BY <1>0c, <1>0e DEF RunKept, Moved, Same
  <2> QED  BY <1>0a, <1>0e, <2>1 DEF Moved, BootAccurate, RecordIsFw, PreServe, guardVars
<1>11. FwRecorded'
  <2>1. \A k \in Goroutines : pc[k] = "record" => pc'[k] = "record"
    BY <1>0a, <1>0c, <1>0e DEF RunKept, Same
  <2> QED  BY <1>0a, <2>1 DEF FwRecorded, guardVars
<1>12. Aligned'
  BY <1>0a, <1>0g, <1>5, <1>8, PendingKept, AlignedKept DEF Target, cfgVars, guardVars
<1> QED
  BY <1>0a, <1>0b, <1>0i, <1>0c, <1>0d, <1>0e, <1>0f, <1>0h, <1>0g, <1>1, <1>2, <1>3, <1>4,
     <1>5, <1>6, <1>7, <1>8, <1>9, <1>10, <1>11, <1>12

\* Before the first start there is nothing to align.
LEMMA SettlingInit ==
    ASSUME Init
    PROVE  Settling
<1>1. /\ pc["boot"] = "dead" /\ pc["run"] = "off"
      /\ \A g \in Goroutines : pc[g] \in {"idle", "off", "dead"}
      /\ \A h \in Handlers : pc[h] = "idle"
  BY GuardConstants DEF Init, Goroutines
<1>2. /\ \A h \in Handlers : loc[h].op = "none"
      /\ ~guardHold /\ guardApplied = "none"
  BY DEF Init, Goroutines, NoLocal
<1>3. Order
  BY <1>1, <1>2
     DEF Order, OneHolder, OneSave, CoreStopped, RefreshWanted, CoreLabels,
         HoldLabels
<1>4. SaveKnows /\ HoldIsOwned /\ FwRecorded /\ Aligned
  BY <1>1, <1>2 DEF SaveKnows, HoldIsOwned, FwRecorded, Aligned
<1>5. Accurate /\ BootAccurate /\ RecordIsFw
  BY <1>1 DEF Accurate, BootAccurate, RecordIsFw
<1> QED  BY <1>3, <1>4, <1>5 DEF Settling

\* What a process was excused for it stays excused for.
LEMMA ExcusesLast ==
    ASSUME [Next]_vars, ~Exit, ~Kill
    PROVE  (early => early') /\ (undone => undone')
<1>1. ASSUME NEW g \in Goroutines, GoroutineStep(g)  PROVE UNCHANGED <<early, undone>>
  BY <1>1 DEF GoroutineStep, SyncStep, SyncEnter, SyncLock, SyncDecide, Install, Record,
              Clear, Cleared, GuardReady, GuardGone, TunUp, Prepare, cfgVars
<1>2. ASSUME NEW h \in Handlers, HandlerStep(h)
      PROVE  (early => early') /\ (undone => undone')
  <2>1. CASE Connect(h) \/ Disconnect(h) \/ Unhold(h) \/ Halt(h) \/ Started(h)
    <3>1. UNCHANGED cfgVars
      BY <2>1 DEF Connect, Disconnect, Unhold, Halt, Started
    <3> QED  BY <3>1 DEF cfgVars
  <2>2. CASE RemoveWrite(h)
    BY <2>2 DEF RemoveWrite
  <2>3. CASE RemoveForget(h)
    BY <2>3 DEF RemoveForget
  <2>3b. ASSUME NEW s \in Choices, Save(h, s)  PROVE UNCHANGED <<early, undone>>
    BY <2>3b DEF Save
  <2>3a. ASSUME Rollback(h)  PROVE UNCHANGED <<early, undone>>
    BY <2>3a DEF Rollback
  <2>4. CASE Built(h) \/ Swap(h) \/ Choose(h) \/ Hold(h) \/ StartChecked(h)
    BY <2>4 DEF Built, Swap, Choose, Hold, StartChecked, cfgVars
  <2>5. CASE Settle(h) \/ Abandon(h)
    BY <2>5 DEF Settle, Abandon, cfgVars
  <2> QED  BY <1>2, <2>1, <2>2, <2>3, <2>3a, <2>3b, <2>4, <2>5 DEF HandlerStep
<1>3. CASE RunStep \/ Watch
  BY <1>3 DEF RunStep, RunLoop, RunBuilt, RunStart, RunUp, Watch, cfgVars
<1>4. CASE BootStep
  <2>1. CASE Boot \/ Shutdown
    BY <2>1 DEF Boot, Shutdown, cfgVars
  <2>2. CASE Reconcile \/ AutoConnect
    <3>1. UNCHANGED cfgVars
      BY <2>2 DEF Reconcile, AutoConnect
    <3> QED  BY <3>1 DEF cfgVars
  <2> QED  BY <1>4, <2>1, <2>2 DEF BootStep
<1>5. ASSUME NEW h \in Handlers, NEW op \in AllOps, Call(h, op)
      PROVE  (early => early') /\ (undone => undone')
  BY <1>5 DEF Call
<1>6. CASE Stop \/ Tamper
  BY <1>6 DEF Stop, Tamper, cfgVars
<1>7. CASE UNCHANGED vars
  BY <1>7 DEF vars, cfgVars
<1> QED  BY <1>1, <1>2, <1>3, <1>4, <1>5, <1>6, <1>7 DEF Next, Progress

\* Every step leaves the filter aligned or somebody to align it.
LEMMA SettlingNext ==
    ASSUME Shape, Judged, Excusable \/ Settling, [Next]_vars
    PROVE  Excusable' \/ Settling'
<1>0. CASE Exit \/ Kill
  BY <1>0, ExitSettling, KillSettling
<1> SUFFICES ASSUME ~Exit, ~Kill, ~Excusable'  PROVE Settling'
  BY <1>0
<1> Tame /\ Settling
  BY ExcusesLast DEF Excusable, Tame
<1>1. ASSUME NEW g \in Goroutines, GoroutineStep(g)  PROVE Settling'
  BY <1>1, SyncEnterSettling, SyncLockSettling, SyncDecideSettling, InstallSettling,
     RecordSettling, ClearSettling, ClearedSettling, GuardReadySettling, GuardGoneSettling,
     TunUpSettling, PrepareSettling DEF GoroutineStep, SyncStep
<1>2. ASSUME NEW h \in Handlers, HandlerStep(h)  PROVE Settling'
  BY <1>2, ConnectSettling, RemoveWriteSettling, RemoveForgetSettling, DisconnectSettling,
     UnholdSettling, HaltSettling, BuiltSettling, SwapSettling, SaveSettling,
     ChooseSettling, HoldSettling, StartCheckedSettling, StartedSettling, RollbackSettling,
     SettleSettling, AbandonSettling DEF HandlerStep
<1>3. CASE RunStep \/ Watch
  BY <1>3, RunLoopSettling, RunBuiltSettling, RunStartSettling, RunUpSettling, WatchSettling
     DEF RunStep
<1>4. CASE BootStep
  BY <1>4, BootSettling, ReconcileSettling, AutoConnectSettling, ShutdownSettling
     DEF BootStep
<1>5. ASSUME NEW h \in Handlers, NEW op \in AllOps, Call(h, op)  PROVE Settling'
  BY <1>5, CallSettling
<1>6. CASE Stop \/ Tamper
  BY <1>6, StopSettling, TamperSettling
<1>7. CASE UNCHANGED vars
  <2>1. Order' /\ SaveKnows' /\ HoldIsOwned'
    BY <1>7
       DEF Settling, Order, OneHolder, OneSave, CoreStopped, RefreshWanted,
           SaveKnows, HoldIsOwned, Rebuilding, At, vars, cfgVars, wishVars, guardVars
  <2>2. (Pending' <=> Pending) /\ (SavePending' <=> SavePending)
    BY <1>7 DEF Pending, SavePending, Bound, SaveBusy, Rebuilding, At, vars, cfgVars
  <2>3. Excused' <=> Excused
    BY <1>7, <2>2 DEF Excused, vars, wishVars, runVars, guardVars
  <2>4. Accurate' /\ BootAccurate'
    BY <1>7, <2>3
       DEF Settling, Accurate, BootAccurate, GuardWanted, WantConnected, vars, cfgVars,
           wishVars
  <2>5. RecordIsFw' /\ FwRecorded' /\ Aligned'
    BY <1>7, <2>2
       DEF Settling, RecordIsFw, FwRecorded, Aligned, Target, GuardWanted, WantConnected,
           vars, cfgVars, wishVars, guardVars
  <2> QED  BY <2>1, <2>4, <2>5 DEF Settling
<1> QED  BY <1>1, <1>2, <1>3, <1>4, <1>5, <1>6, <1>7 DEF Next, Progress

\* Once every handler has answered, the filter in the kernel is the one the settings and
\* the wish call for (syncGuard: "align the guard with whether it should be there"), in
\* every life of the process in which no handler was called before the boot sequence was
\* over and no removal of a profile wrote its older settings over newer ones.  Of the
\* constants nothing is assumed.
THEOREM GuardSettles == Spec => [](~early /\ ~undone => GuardMatches)
<1> DEFINE Inv == Shape /\ Judged /\ (Excusable \/ Settling)
<1>1. Init => Inv
  BY ShapeInit, JudgedInit, SettlingInit
<1>2. Inv /\ [Next]_vars => Inv'
  BY ShapeNext, JudgedNext, SettlingNext
<1>3. Inv => (~early /\ ~undone => GuardMatches)
  <2> SUFFICES ASSUME Inv, ~Excusable, Settled, disk # "unknown", ~owed
               PROVE  fw = Target
    BY DEF GuardMatches, Target, Excusable
  <2>1. /\ pc["boot"] = "serve" /\ pc["watch"] = "idle" /\ pc["run"] \notin SyncLabels
        /\ \A h \in Handlers : pc[h] = "idle" /\ loc[h].op = "none"
    BY DEF Settled, Shape, Places, HandlerAt, At, SavePlaces, SyncLabels, HoldLabels
  <2>2. ~closed
    BY <2>1 DEF Judged, Dormant
  <2>3. ~Pending
    BY <2>1, GuardConstants
       DEF Pending, Bound, SaveBusy, Rebuilding, At, Goroutines, SyncLabels
  <2>4. \A g \in Goroutines : pc[g] \notin Deciding
    BY <2>1 DEF Goroutines, Deciding, SyncLabels, HoldLabels
  <2> QED  BY <2>1, <2>2, <2>3, <2>4 DEF Settling, Aligned
<1> HIDE DEF Inv
<1> QED  BY <1>1, <1>2, <1>3, PTL DEF Spec

=============================================================================

---------------------------- MODULE FiltersProofs ----------------------------
(***************************************************************************)
(* Proofs about what decides which way a packet takes (MCFilters): the WFP *)
(* transactions, the changes of settings, and the configuration rendered   *)
(* for the core together with what the firewall lets out instead.          *)
(*                                                                         *)
(* The last part is about data: lists of rule groups of any length.  The   *)
(* rules of a list, and the addresses laid over one another, are recursive *)
(* functions; what holds of them is shown by induction in the form of a    *)
(* least counterexample (LeastOf, UpTo), which is first-order.             *)
(***************************************************************************)
EXTENDS MCFilters, WellFoundedInduction, SequenceTheorems, TLAPS

-----------------------------------------------------------------------------
(* The WFP transactions *)

\* The old generation of the guard's filters.
Old == {"oldrun", "oldboot"}

\* The steps a goroutine takes with wfp.mu in its hand.
HoldSteps == {"legacy", "boot", "bootforward", "permit", "count", "cleanup", "dropnow"}
Holding == \A a \in Service : pc[a] \in HoldSteps => mu = a

\* What the other process does is a Disable.
ToolSteps == {"idle", "clear", "count", "cleanup"}

\* Once the old provider was dealt with, it is gone or the guard is reported with a
\* warning.
OldIsGone ==
  pc["guard"] \in {"boot", "bootforward", "ready"} =>
    warned \/ (store \cap Old = {} /\ "old" \notin base)

\* What the counters may hold.
SpentSet == [fault : 0..MaxWfpFaults, apply : 0..MaxApplies,
             start : 0..MaxStarts, tool : 0..MaxTools]

\* The inductive invariant.
WfpInv ==
  /\ WfpTypeOK /\ pc["tool"] \in ToolSteps
  /\ Holding /\ OldIsGone /\ ClearedMeansGone

\* What one step of the guard may never do, of any kind.
StepRight ==
  /\ Sealed(store) /\ ~Sealed(store') =>
       \E a \in {"guard", "tool"} : pc[a] = "clear" /\ pc'[a] = "count"
  /\ pc["guard"] = "ready" /\ pc'["guard"] = "applied" /\ ~warned' =>
       {"boot", "bootforward"} \subseteq store /\ store \cap Old = {} /\ "old" \notin base

\* Whoever holds the mutex is the only one.
LEMMA OneHolds ==
  ASSUME Holding, NEW a \in Service, NEW b \in Service,
         pc[a] \in HoldSteps, pc[b] \in HoldSteps
  PROVE  a = b
BY DEF Holding

\* What the counters allow: nothing, or one more of a kind.
LEMMA SpentFits ==
  ASSUME WfpTypeOK
  PROVE  /\ MayFail /\ Spent("fault") => spent' \in SpentSet
         /\ spent.apply < MaxApplies /\ Spent("apply") => spent' \in SpentSet
         /\ spent.start < MaxStarts /\ Spent("start") => spent' \in SpentSet
         /\ spent.tool < MaxTools /\ Spent("tool") => spent' \in SpentSet
         /\ spent' = spent => spent' \in SpentSet
BY WfpConstants DEF WfpTypeOK, SpentSet, Spent, MayFail

\* The two transactions that fail count twice.
LEMMA SpentTwice ==
  ASSUME WfpTypeOK, SwapFails
  PROVE  spent' \in SpentSet
<1> DEFINE s == [spent EXCEPT !.apply = @ + 1]
<1>1. s \in SpentSet /\ s.fault = spent.fault
  BY WfpConstants DEF WfpTypeOK, SpentSet, SwapFails
<1>2. spent' = [s EXCEPT !.fault = @ + 1]
  BY DEF WfpTypeOK, SpentSet, SwapFails
<1> HIDE DEF s
<1>3. s.fault < MaxWfpFaults
  BY <1>1 DEF SwapFails, MayFail
<1> QED BY <1>1, <1>2, <1>3, WfpConstants DEF SpentSet

\* The types after a step, put together.
LEMMA TypedAgain ==
  ASSUME pc' \in [Actors -> Steps], index' \in [Actors -> 0 .. MaxStarts],
         store' \subseteq Groups /\ base' \subseteq {"old", "new"},
         running' \in BOOLEAN /\ guardOn' \in BOOLEAN /\ pending' \in BOOLEAN,
         wiped' \in BOOLEAN /\ warned' \in BOOLEAN,
         mu' \in Service \cup {NoOne}, spent' \in SpentSet,
         permit' \in 0 .. MaxStarts, adapter' \in 0 .. MaxStarts
  PROVE  WfpTypeOK'
BY DEF WfpTypeOK, SpentSet

\* The transaction that replaces every filter keeps the invariant and opens no gap.
LEMMA SwapRight ==
  ASSUME WfpInv, Swap
  PROVE  WfpInv' /\ StepRight
<1> USE DEF WfpInv
<1>a. 0 \in 0 .. MaxStarts
  BY WfpConstants
<1>0. spent' \in SpentSet
  BY SpentFits, SpentTwice DEF Swap
<1>1. WfpTypeOK'
  <2>1. pc' \in [Actors -> Steps]
    BY DEF WfpTypeOK, Swap, Goto, Service, Actors, Steps, Lock
  <2>2. index' \in [Actors -> 0 .. MaxStarts]
    BY <1>a DEF WfpTypeOK, Swap, Service, Actors
  <2>6. adapter' \in 0 .. MaxStarts
    BY <1>a, WfpConstants DEF WfpTypeOK, SpentSet, Swap
  <2>7. permit' \in 0 .. MaxStarts
    BY <1>a DEF WfpTypeOK, Swap, Service
  <2>3. store' \subseteq Groups /\ base' \subseteq {"old", "new"}
    BY DEF WfpTypeOK, Swap, Groups, OurFilters
  <2>4. /\ running' \in BOOLEAN /\ guardOn' \in BOOLEAN /\ pending' \in BOOLEAN
        /\ wiped' \in BOOLEAN /\ warned' \in BOOLEAN
    BY DEF WfpTypeOK, Swap
  <2>5. mu' \in Service \cup {NoOne}
    BY DEF WfpTypeOK, Swap, Service, Actors, NoOne, Lock
  <2> QED BY <1>0, <2>1, <2>2, <2>3, <2>4, <2>5, <2>6, <2>7, TypedAgain
<1>2. Holding' /\ pc'["tool"] \in ToolSteps
  BY DEF WfpTypeOK, Holding, Swap, Goto, Service, Actors, HoldSteps, ToolSteps,
         NoOne, Lock
<1>3. OldIsGone'
  BY DEF WfpTypeOK, Holding, OldIsGone, Swap, Goto, Service, Actors, HoldSteps, Old,
         OurFilters, Lock, memory, engine
<1>4. ClearedMeansGone'
  BY DEF WfpTypeOK, Holding, ClearedMeansGone, Swap, Goto, Service, Actors,
         HoldSteps, OurFilters, Lock, memory, engine
<1>5. StepRight
  BY DEF WfpTypeOK, OldIsGone, StepRight, Swap, Goto, Service, Actors, Old,
         OurFilters, Sealed, Lock, memory, engine
<1> QED BY <1>1, <1>2, <1>3, <1>4, <1>5

\* That transaction failing as a whole keeps the invariant and opens no gap.
LEMMA SwapFailsRight ==
  ASSUME WfpInv, SwapFails
  PROVE  WfpInv' /\ StepRight
<1> USE DEF WfpInv
<1>a. 0 \in 0 .. MaxStarts
  BY WfpConstants
<1>0. spent' \in SpentSet
  BY SpentFits, SpentTwice DEF SwapFails
<1>1. WfpTypeOK'
  <2>1. pc' \in [Actors -> Steps]
    BY DEF WfpTypeOK, SwapFails, Service, Actors, Steps
  <2>2. index' \in [Actors -> 0 .. MaxStarts]
    BY <1>a DEF WfpTypeOK, SwapFails, Service, Actors
  <2>6. adapter' \in 0 .. MaxStarts
    BY <1>a, WfpConstants DEF WfpTypeOK, SpentSet, SwapFails, engine
  <2>7. permit' \in 0 .. MaxStarts
    BY <1>a DEF WfpTypeOK, SwapFails, Service, engine
  <2>3. store' \subseteq Groups /\ base' \subseteq {"old", "new"}
    BY DEF WfpTypeOK, SwapFails, Groups, engine
  <2>4. /\ running' \in BOOLEAN /\ guardOn' \in BOOLEAN /\ pending' \in BOOLEAN
        /\ wiped' \in BOOLEAN /\ warned' \in BOOLEAN
    BY DEF WfpTypeOK, SwapFails, memory
  <2>5. mu' \in Service \cup {NoOne}
    BY DEF WfpTypeOK, SwapFails, Service, Actors, NoOne
  <2> QED BY <1>0, <2>1, <2>2, <2>3, <2>4, <2>5, <2>6, <2>7, TypedAgain
<1>2. Holding' /\ pc'["tool"] \in ToolSteps
  BY DEF WfpTypeOK, Holding, SwapFails, Service, Actors, HoldSteps, ToolSteps, NoOne
<1>3. OldIsGone'
  BY DEF WfpTypeOK, Holding, OldIsGone, SwapFails, Service, Actors, HoldSteps, Old,
         memory, engine
<1>4. ClearedMeansGone'
  BY DEF WfpTypeOK, Holding, ClearedMeansGone, SwapFails, Service, Actors,
         HoldSteps, memory, engine
<1>5. StepRight
  BY DEF WfpTypeOK, OldIsGone, StepRight, SwapFails, Service, Actors, Old, Sealed,
         memory, engine
<1> QED BY <1>1, <1>2, <1>3, <1>4, <1>5

\* Dealing with the old generation's provider keeps the invariant and opens no gap.
LEMMA DropLegacyRight ==
  ASSUME WfpInv, DropLegacy
  PROVE  WfpInv' /\ StepRight
<1> USE DEF WfpInv
<1>a. 0 \in 0 .. MaxStarts
  BY WfpConstants
<1>0. spent' \in SpentSet
  BY SpentFits, SpentTwice DEF DropLegacy
<1>1. WfpTypeOK'
  <2>1. pc' \in [Actors -> Steps]
    BY DEF WfpTypeOK, DropLegacy, Goto, Service, Actors, Steps
  <2>2. index' \in [Actors -> 0 .. MaxStarts]
    BY <1>a DEF WfpTypeOK, DropLegacy, Service, Actors
  <2>6. adapter' \in 0 .. MaxStarts
    BY <1>a, WfpConstants DEF WfpTypeOK, SpentSet, DropLegacy
  <2>7. permit' \in 0 .. MaxStarts
    BY <1>a DEF WfpTypeOK, DropLegacy, Service
  <2>3. store' \subseteq Groups /\ base' \subseteq {"old", "new"}
    BY DEF WfpTypeOK, DropLegacy, Groups
  <2>4. /\ running' \in BOOLEAN /\ guardOn' \in BOOLEAN /\ pending' \in BOOLEAN
        /\ wiped' \in BOOLEAN /\ warned' \in BOOLEAN
    BY DEF WfpTypeOK, DropLegacy
  <2>5. mu' \in Service \cup {NoOne}
    BY DEF WfpTypeOK, DropLegacy, Service, Actors, NoOne
  <2> QED BY <1>0, <2>1, <2>2, <2>3, <2>4, <2>5, <2>6, <2>7, TypedAgain
<1>2. Holding' /\ pc'["tool"] \in ToolSteps
  BY DEF WfpTypeOK, Holding, DropLegacy, Goto, Service, Actors, HoldSteps,
         ToolSteps, NoOne
<1>3. OldIsGone'
  BY DEF WfpTypeOK, Holding, OldIsGone, DropLegacy, Goto, Service, Actors,
         HoldSteps, Old, memory, engine
<1>4. ClearedMeansGone'
  BY DEF WfpTypeOK, Holding, ClearedMeansGone, DropLegacy, Goto, Service, Actors,
         HoldSteps, memory, engine
<1>5. StepRight
  BY DEF WfpTypeOK, OldIsGone, StepRight, DropLegacy, Goto, Service, Actors, Old,
         Sealed, memory, engine
<1> QED BY <1>1, <1>2, <1>3, <1>4, <1>5

\* The boot-time set keeps the invariant and opens no gap.
LEMMA AddBootBootRight ==
  ASSUME WfpInv, AddBoot("boot", "bootforward")
  PROVE  WfpInv' /\ StepRight
<1> USE DEF WfpInv
<1>a. 0 \in 0 .. MaxStarts
  BY WfpConstants
<1>0. spent' \in SpentSet
  BY SpentFits, SpentTwice DEF AddBoot
<1>1. WfpTypeOK'
  <2>1. pc' \in [Actors -> Steps]
    BY DEF WfpTypeOK, AddBoot, Goto, Service, Actors, Steps, Unlock
  <2>2. index' \in [Actors -> 0 .. MaxStarts]
    BY <1>a DEF WfpTypeOK, AddBoot, Service, Actors
  <2>6. adapter' \in 0 .. MaxStarts
    BY <1>a, WfpConstants DEF WfpTypeOK, SpentSet, AddBoot
  <2>7. permit' \in 0 .. MaxStarts
    BY <1>a DEF WfpTypeOK, AddBoot, Service
  <2>3. store' \subseteq Groups /\ base' \subseteq {"old", "new"}
    BY DEF WfpTypeOK, AddBoot, Groups
  <2>4. /\ running' \in BOOLEAN /\ guardOn' \in BOOLEAN /\ pending' \in BOOLEAN
        /\ wiped' \in BOOLEAN /\ warned' \in BOOLEAN
    BY DEF WfpTypeOK, AddBoot
  <2>5. mu' \in Service \cup {NoOne}
    BY DEF WfpTypeOK, AddBoot, Service, Actors, NoOne, Unlock
  <2> QED BY <1>0, <2>1, <2>2, <2>3, <2>4, <2>5, <2>6, <2>7, TypedAgain
<1>2. Holding' /\ pc'["tool"] \in ToolSteps
  BY DEF WfpTypeOK, Holding, AddBoot, Goto, Service, Actors, HoldSteps, ToolSteps,
         NoOne, Unlock
<1>3. OldIsGone'
  BY DEF WfpTypeOK, Holding, OldIsGone, AddBoot, Goto, Service, Actors, HoldSteps,
         Old, Unlock, memory, engine
<1>4. ClearedMeansGone'
  BY DEF WfpTypeOK, Holding, ClearedMeansGone, AddBoot, Goto, Service, Actors,
         HoldSteps, Unlock, memory, engine
<1>5. StepRight
  BY DEF WfpTypeOK, OldIsGone, StepRight, AddBoot, Goto, Service, Actors, Old,
         Sealed, Unlock, memory, engine
<1> QED BY <1>1, <1>2, <1>3, <1>4, <1>5

\* The boot-time set for what is forwarded keeps the invariant and opens no gap.
LEMMA AddBootForwardRight ==
  ASSUME WfpInv, AddBoot("bootforward", "ready")
  PROVE  WfpInv' /\ StepRight
<1> USE DEF WfpInv
<1>a. 0 \in 0 .. MaxStarts
  BY WfpConstants
<1>0. spent' \in SpentSet
  BY SpentFits, SpentTwice DEF AddBoot
<1>1. WfpTypeOK'
  <2>1. pc' \in [Actors -> Steps]
    BY DEF WfpTypeOK, AddBoot, Goto, Service, Actors, Steps, Unlock
  <2>2. index' \in [Actors -> 0 .. MaxStarts]
    BY <1>a DEF WfpTypeOK, AddBoot, Service, Actors
  <2>6. adapter' \in 0 .. MaxStarts
    BY <1>a, WfpConstants DEF WfpTypeOK, SpentSet, AddBoot
  <2>7. permit' \in 0 .. MaxStarts
    BY <1>a DEF WfpTypeOK, AddBoot, Service
  <2>3. store' \subseteq Groups /\ base' \subseteq {"old", "new"}
    BY DEF WfpTypeOK, AddBoot, Groups
  <2>4. /\ running' \in BOOLEAN /\ guardOn' \in BOOLEAN /\ pending' \in BOOLEAN
        /\ wiped' \in BOOLEAN /\ warned' \in BOOLEAN
    BY DEF WfpTypeOK, AddBoot
  <2>5. mu' \in Service \cup {NoOne}
    BY DEF WfpTypeOK, AddBoot, Service, Actors, NoOne, Unlock
  <2> QED BY <1>0, <2>1, <2>2, <2>3, <2>4, <2>5, <2>6, <2>7, TypedAgain
<1>b. /\ pc["guard"] = "bootforward"
      /\ \A b \in Actors : pc'[b] = IF b = "guard" THEN "ready" ELSE pc[b]
      /\ store' \in {store, store \cup {"bootforward"}} /\ (warned => warned')
      /\ UNCHANGED <<base, permit>> /\ mu' = NoOne
  <2>1. /\ pc["guard"] = "bootforward"
        /\ \A b \in Actors : pc'[b] = IF b = "guard" THEN "ready" ELSE pc[b]
        /\ UNCHANGED <<base, permit>> /\ mu' = NoOne
    BY DEF WfpTypeOK, AddBoot, Goto, Unlock, Actors
  <2>2. store' \in {store, store \cup {"bootforward"}}
    BY DEF AddBoot
  <2>3. warned => warned'
    BY Zenon DEF AddBoot
  <2> QED BY <2>1, <2>2, <2>3
<1>2. Holding' /\ pc'["tool"] \in ToolSteps
  BY <1>b DEF WfpTypeOK, Holding, Service, Actors, HoldSteps, ToolSteps, NoOne
<1>3. OldIsGone'
  BY <1>b DEF WfpTypeOK, Holding, OldIsGone, Service, Actors, HoldSteps, Old
<1>4. ClearedMeansGone'
  BY <1>b DEF WfpTypeOK, Holding, ClearedMeansGone, Service, Actors, HoldSteps
<1>5. StepRight
  BY DEF WfpTypeOK, OldIsGone, StepRight, AddBoot, Goto, Service, Actors, Old,
         Sealed, Unlock, memory, engine
<1> QED BY <1>1, <1>2, <1>3, <1>4, <1>5

\* The check of the boot-time sets keeps the invariant and opens no gap.
LEMMA ReadyRight ==
  ASSUME WfpInv, Ready
  PROVE  WfpInv' /\ StepRight
<1> USE DEF WfpInv
<1>a. 0 \in 0 .. MaxStarts
  BY WfpConstants
<1>0. spent' \in SpentSet
  BY SpentFits, SpentTwice DEF Ready
<1>1. WfpTypeOK'
  <2>1. pc' \in [Actors -> Steps]
    BY DEF WfpTypeOK, Ready, Goto, Service, Actors, Steps, BootGuardReady
  <2>2. index' \in [Actors -> 0 .. MaxStarts]
    BY <1>a DEF WfpTypeOK, Ready, Service, Actors, BootGuardReady
  <2>6. adapter' \in 0 .. MaxStarts
    BY <1>a, WfpConstants DEF WfpTypeOK, SpentSet, Ready, engine, BootGuardReady
  <2>7. permit' \in 0 .. MaxStarts
    BY <1>a DEF WfpTypeOK, Ready, Service, engine, BootGuardReady
  <2>3. store' \subseteq Groups /\ base' \subseteq {"old", "new"}
    BY DEF WfpTypeOK, Ready, Groups, engine, BootGuardReady
  <2>4. /\ running' \in BOOLEAN /\ guardOn' \in BOOLEAN /\ pending' \in BOOLEAN
        /\ wiped' \in BOOLEAN /\ warned' \in BOOLEAN
    BY DEF WfpTypeOK, Ready, BootGuardReady
  <2>5. mu' \in Service \cup {NoOne}
    BY DEF WfpTypeOK, Ready, Service, Actors, NoOne, BootGuardReady
  <2> QED BY <1>0, <2>1, <2>2, <2>3, <2>4, <2>5, <2>6, <2>7, TypedAgain
<1>2. Holding' /\ pc'["tool"] \in ToolSteps
  BY DEF WfpTypeOK, Holding, Ready, Goto, Service, Actors, HoldSteps, ToolSteps,
         NoOne, BootGuardReady
<1>3. OldIsGone'
  BY DEF WfpTypeOK, Holding, OldIsGone, Ready, Goto, Service, Actors, HoldSteps,
         Old, memory, engine, BootGuardReady
<1>4. ClearedMeansGone'
  BY DEF WfpTypeOK, Holding, ClearedMeansGone, Ready, Goto, Service, Actors,
         HoldSteps, memory, engine, BootGuardReady
<1>5. StepRight
  BY DEF WfpTypeOK, OldIsGone, StepRight, Ready, Goto, Service, Actors, Old, Sealed,
         memory, engine, BootGuardReady
<1> QED BY <1>1, <1>2, <1>3, <1>4, <1>5

\* The report that the guard is in force keeps the invariant and opens no gap.
LEMMA AppliedRight ==
  ASSUME WfpInv, Applied
  PROVE  WfpInv' /\ StepRight
<1> USE DEF WfpInv
<1>a. 0 \in 0 .. MaxStarts
  BY WfpConstants
<1>0. spent' \in SpentSet
  BY SpentFits, SpentTwice DEF Applied
<1>1. WfpTypeOK'
  <2>1. pc' \in [Actors -> Steps]
    BY DEF WfpTypeOK, Applied, Goto, Service, Actors, Steps
  <2>2. index' \in [Actors -> 0 .. MaxStarts]
    BY <1>a DEF WfpTypeOK, Applied, Service, Actors
  <2>6. adapter' \in 0 .. MaxStarts
    BY <1>a, WfpConstants DEF WfpTypeOK, SpentSet, Applied, engine
  <2>7. permit' \in 0 .. MaxStarts
    BY <1>a DEF WfpTypeOK, Applied, Service, engine
  <2>3. store' \subseteq Groups /\ base' \subseteq {"old", "new"}
    BY DEF WfpTypeOK, Applied, Groups, engine
  <2>4. /\ running' \in BOOLEAN /\ guardOn' \in BOOLEAN /\ pending' \in BOOLEAN
        /\ wiped' \in BOOLEAN /\ warned' \in BOOLEAN
    BY DEF WfpTypeOK, Applied
  <2>5. mu' \in Service \cup {NoOne}
    BY DEF WfpTypeOK, Applied, Service, Actors, NoOne
  <2> QED BY <1>0, <2>1, <2>2, <2>3, <2>4, <2>5, <2>6, <2>7, TypedAgain
<1>2. Holding' /\ pc'["tool"] \in ToolSteps
  BY DEF WfpTypeOK, Holding, Applied, Goto, Service, Actors, HoldSteps, ToolSteps,
         NoOne
<1>3. OldIsGone'
  BY DEF WfpTypeOK, Holding, OldIsGone, Applied, Goto, Service, Actors, HoldSteps,
         Old, memory, engine
<1>4. ClearedMeansGone'
  BY DEF WfpTypeOK, Holding, ClearedMeansGone, Applied, Goto, Service, Actors,
         HoldSteps, memory, engine
<1>5. StepRight
  BY DEF WfpTypeOK, OldIsGone, StepRight, Applied, Goto, Service, Actors, Old,
         Sealed, memory, engine
<1> QED BY <1>1, <1>2, <1>3, <1>4, <1>5

\* A Disable's count that finds nothing keeps the invariant and opens no gap.
LEMMA CountNothingRight ==
  ASSUME WfpInv, NEW a \in {"guard", "tool"}, Count(a), store = {}, permit = 0
  PROVE  WfpInv' /\ StepRight
<1> USE DEF WfpInv
<1>a. 0 \in 0 .. MaxStarts
  BY WfpConstants
<1>0. spent' \in SpentSet
  BY SpentFits, SpentTwice DEF Count
<1>1. WfpTypeOK'
  <2>1. pc' \in [Actors -> Steps]
    BY DEF WfpTypeOK, Count, Goto, Service, Actors, Steps, Nothing, Unlock
  <2>2. index' \in [Actors -> 0 .. MaxStarts]
    BY <1>a DEF WfpTypeOK, Count, Service, Actors, Nothing
  <2>6. adapter' \in 0 .. MaxStarts
    BY <1>a, WfpConstants DEF WfpTypeOK, SpentSet, Count, Nothing, engine
  <2>7. permit' \in 0 .. MaxStarts
    BY <1>a DEF WfpTypeOK, Count, Service, Nothing, engine
  <2>3. store' \subseteq Groups /\ base' \subseteq {"old", "new"}
    BY DEF WfpTypeOK, Count, Groups, OurFilters, Nothing, engine
  <2>4. /\ running' \in BOOLEAN /\ guardOn' \in BOOLEAN /\ pending' \in BOOLEAN
        /\ wiped' \in BOOLEAN /\ warned' \in BOOLEAN
    BY DEF WfpTypeOK, Count, Nothing
  <2>5. mu' \in Service \cup {NoOne}
    BY DEF WfpTypeOK, Count, Service, Actors, NoOne, Nothing, Unlock
  <2> QED BY <1>0, <2>1, <2>2, <2>3, <2>4, <2>5, <2>6, <2>7, TypedAgain
<1>b. /\ pc[a] = "count" /\ \A b \in Actors : pc'[b] = IF b = a THEN "cleanup" ELSE pc[b]
      /\ UNCHANGED <<store, base, permit, warned, mu>>
  BY DEF WfpTypeOK, Count, Goto, Service, Actors, Steps, ToolSteps, NoOne, Groups,
         OurFilters, Nothing, Unlock, memory, engine
<1>2. Holding' /\ pc'["tool"] \in ToolSteps
  BY <1>b DEF WfpTypeOK, Holding, Service, Actors, HoldSteps, ToolSteps, NoOne
<1>3. OldIsGone'
  BY <1>b DEF WfpTypeOK, Holding, OldIsGone, Service, Actors, HoldSteps, Old
<1>4. ClearedMeansGone'
  BY <1>b DEF WfpTypeOK, Holding, ClearedMeansGone, Service, Actors, HoldSteps
<1>5. StepRight
  BY DEF WfpTypeOK, OldIsGone, StepRight, Count, Goto, Service, Actors, Old,
         OurFilters, Nothing, Sealed, Unlock, memory, engine
<1> QED BY <1>1, <1>2, <1>3, <1>4, <1>5

\* TunUp without a guard keeps the invariant and opens no gap.
LEMMA TunUpNothingRight ==
  ASSUME WfpInv, NEW a \in Service, TunUp(a), store = {}, permit = 0
  PROVE  WfpInv' /\ StepRight
<1> USE DEF WfpInv
<1>a. 0 \in 0 .. MaxStarts
  BY WfpConstants
<1>0. spent' \in SpentSet
  BY SpentFits, SpentTwice DEF TunUp
<1>1. WfpTypeOK'
  <2>1. pc' \in [Actors -> Steps]
    BY DEF WfpTypeOK, TunUp, Goto, Service, Actors, Steps, Nothing, Lock
  <2>2. index' \in [Actors -> 0 .. MaxStarts]
    BY <1>a DEF WfpTypeOK, TunUp, Service, Actors, Nothing
  <2>6. adapter' \in 0 .. MaxStarts
    BY <1>a, WfpConstants DEF WfpTypeOK, SpentSet, TunUp, Nothing, engine
  <2>7. permit' \in 0 .. MaxStarts
    BY <1>a DEF WfpTypeOK, TunUp, Service, Nothing, engine
  <2>3. store' \subseteq Groups /\ base' \subseteq {"old", "new"}
    BY DEF WfpTypeOK, TunUp, Groups, OurFilters, Nothing, engine
  <2>4. /\ running' \in BOOLEAN /\ guardOn' \in BOOLEAN /\ pending' \in BOOLEAN
        /\ wiped' \in BOOLEAN /\ warned' \in BOOLEAN
    BY DEF WfpTypeOK, TunUp, memory, Nothing
  <2>5. mu' \in Service \cup {NoOne}
    BY DEF WfpTypeOK, TunUp, Service, Actors, NoOne, Nothing, Lock
  <2> QED BY <1>0, <2>1, <2>2, <2>3, <2>4, <2>5, <2>6, <2>7, TypedAgain
<1>2. Holding' /\ pc'["tool"] \in ToolSteps
  BY DEF WfpTypeOK, Holding, TunUp, Goto, Service, Actors, HoldSteps, ToolSteps,
         NoOne, Nothing, Lock
<1>3. OldIsGone'
  BY DEF WfpTypeOK, Holding, OldIsGone, TunUp, Goto, Service, Actors, HoldSteps,
         Old, OurFilters, Nothing, Lock, memory, engine
<1>4. ClearedMeansGone'
  BY DEF WfpTypeOK, Holding, ClearedMeansGone, TunUp, Goto, Service, Actors,
         HoldSteps, OurFilters, Nothing, Lock, memory, engine
<1>5. StepRight
  BY DEF WfpTypeOK, OldIsGone, StepRight, TunUp, Goto, Service, Actors, Old,
         OurFilters, Nothing, Sealed, Lock, memory, engine
<1> QED BY <1>1, <1>2, <1>3, <1>4, <1>5

\* A Disable's count that finds filters left keeps the invariant and opens no gap.
LEMMA CountSomeRight ==
  ASSUME WfpInv, NEW a \in {"guard", "tool"}, Count(a), store # {} \/ permit # 0
  PROVE  WfpInv' /\ StepRight
<1> USE DEF WfpInv
<1>a. 0 \in 0 .. MaxStarts
  BY WfpConstants
<1>0. spent' \in SpentSet
  BY SpentFits, SpentTwice DEF Count
<1>1. WfpTypeOK'
  <2>1. pc' \in [Actors -> Steps]
    BY DEF WfpTypeOK, Count, Goto, Service, Actors, Steps, Nothing, Unlock
  <2>2. index' \in [Actors -> 0 .. MaxStarts]
    BY <1>a DEF WfpTypeOK, Count, Service, Actors, Nothing
  <2>6. adapter' \in 0 .. MaxStarts
    BY <1>a, WfpConstants DEF WfpTypeOK, SpentSet, Count, Nothing, engine
  <2>7. permit' \in 0 .. MaxStarts
    BY <1>a DEF WfpTypeOK, Count, Service, Nothing, engine
  <2>3. store' \subseteq Groups /\ base' \subseteq {"old", "new"}
    BY DEF WfpTypeOK, Count, Groups, OurFilters, Nothing, engine
  <2>4. /\ running' \in BOOLEAN /\ guardOn' \in BOOLEAN /\ pending' \in BOOLEAN
        /\ wiped' \in BOOLEAN /\ warned' \in BOOLEAN
    BY DEF WfpTypeOK, Count, Nothing
  <2>5. mu' \in Service \cup {NoOne}
    BY DEF WfpTypeOK, Count, Service, Actors, NoOne, Nothing, Unlock
  <2> QED BY <1>0, <2>1, <2>2, <2>3, <2>4, <2>5, <2>6, <2>7, TypedAgain
<1>b. /\ pc[a] = "count" /\ \A b \in Actors : pc'[b] = IF b = a THEN "idle" ELSE pc[b]
      /\ UNCHANGED <<store, base, permit, warned>>
      /\ mu' = IF a = "tool" THEN mu ELSE NoOne
  BY DEF WfpTypeOK, Count, Goto, Service, Actors, Steps, ToolSteps, NoOne, Groups,
         OurFilters, Nothing, Unlock, memory, engine
<1>2. Holding' /\ pc'["tool"] \in ToolSteps
  BY <1>b DEF WfpTypeOK, Holding, Service, Actors, HoldSteps, ToolSteps, NoOne
<1>3. OldIsGone'
  BY <1>b DEF WfpTypeOK, Holding, OldIsGone, Service, Actors, HoldSteps, Old
<1>4. ClearedMeansGone'
  BY <1>b DEF WfpTypeOK, Holding, ClearedMeansGone, Service, Actors, HoldSteps
<1>5. StepRight
  BY DEF WfpTypeOK, OldIsGone, StepRight, Count, Goto, Service, Actors, Old,
         OurFilters, Nothing, Sealed, Unlock, memory, engine
<1> QED BY <1>1, <1>2, <1>3, <1>4, <1>5

\* TunUp taking the mutex keeps the invariant and opens no gap.
LEMMA TunUpSomeRight ==
  ASSUME WfpInv, NEW a \in Service, TunUp(a), store # {} \/ permit # 0
  PROVE  WfpInv' /\ StepRight
<1> USE DEF WfpInv
<1>a. 0 \in 0 .. MaxStarts
  BY WfpConstants
<1>0. spent' \in SpentSet
  BY SpentFits, SpentTwice DEF TunUp
<1>1. WfpTypeOK'
  <2>1. pc' \in [Actors -> Steps]
    BY DEF WfpTypeOK, TunUp, Goto, Service, Actors, Steps, Nothing, Lock
  <2>2. index' \in [Actors -> 0 .. MaxStarts]
    BY <1>a DEF WfpTypeOK, TunUp, Service, Actors, Nothing
  <2>6. adapter' \in 0 .. MaxStarts
    BY <1>a, WfpConstants DEF WfpTypeOK, SpentSet, TunUp, Nothing, engine
  <2>7. permit' \in 0 .. MaxStarts
    BY <1>a DEF WfpTypeOK, TunUp, Service, Nothing, engine
  <2>3. store' \subseteq Groups /\ base' \subseteq {"old", "new"}
    BY DEF WfpTypeOK, TunUp, Groups, OurFilters, Nothing, engine
  <2>4. /\ running' \in BOOLEAN /\ guardOn' \in BOOLEAN /\ pending' \in BOOLEAN
        /\ wiped' \in BOOLEAN /\ warned' \in BOOLEAN
    BY DEF WfpTypeOK, TunUp, memory, Nothing
  <2>5. mu' \in Service \cup {NoOne}
    BY DEF WfpTypeOK, TunUp, Service, Actors, NoOne, Nothing, Lock
  <2> QED BY <1>0, <2>1, <2>2, <2>3, <2>4, <2>5, <2>6, <2>7, TypedAgain
<1>b. /\ pc[a] = "tunup" /\ \A b \in Actors : pc'[b] = IF b = a THEN "permit" ELSE pc[b]
      /\ UNCHANGED <<store, base, permit, warned>> /\ mu = NoOne /\ mu' = a
  BY DEF WfpTypeOK, TunUp, Goto, Service, Actors, Steps, ToolSteps, NoOne, Groups,
         OurFilters, Nothing, Lock, memory, engine
<1>2. Holding' /\ pc'["tool"] \in ToolSteps
  BY <1>b DEF WfpTypeOK, Holding, Service, Actors, HoldSteps, ToolSteps, NoOne
<1>3. OldIsGone'
  BY <1>b DEF WfpTypeOK, Holding, OldIsGone, Service, Actors, HoldSteps, Old
<1>4. ClearedMeansGone'
  BY <1>b DEF WfpTypeOK, Holding, ClearedMeansGone, Service, Actors, HoldSteps
<1>5. StepRight
  BY DEF WfpTypeOK, OldIsGone, StepRight, TunUp, Goto, Service, Actors, Old,
         OurFilters, Nothing, Sealed, Lock, memory, engine
<1> QED BY <1>1, <1>2, <1>3, <1>4, <1>5

\* The beginning of a Disable keeps the invariant and opens no gap.
LEMMA StartClearRight ==
  ASSUME WfpInv, NEW a \in {"guard", "tool"}, StartClear(a)
  PROVE  WfpInv' /\ StepRight
<1> USE DEF WfpInv
<1>a. 0 \in 0 .. MaxStarts
  BY WfpConstants
<1>0. spent' \in SpentSet
  BY SpentFits, SpentTwice DEF StartClear
<1>1. WfpTypeOK'
  <2>1. pc' \in [Actors -> Steps]
    BY DEF WfpTypeOK, StartClear, Goto, Service, Actors, Steps
  <2>2. index' \in [Actors -> 0 .. MaxStarts]
    BY <1>a DEF WfpTypeOK, StartClear, Service, Actors
  <2>6. adapter' \in 0 .. MaxStarts
    BY <1>a, WfpConstants DEF WfpTypeOK, SpentSet, StartClear, engine
  <2>7. permit' \in 0 .. MaxStarts
    BY <1>a DEF WfpTypeOK, StartClear, Service, engine
  <2>3. store' \subseteq Groups /\ base' \subseteq {"old", "new"}
    BY DEF WfpTypeOK, StartClear, Groups, engine
  <2>4. /\ running' \in BOOLEAN /\ guardOn' \in BOOLEAN /\ pending' \in BOOLEAN
        /\ wiped' \in BOOLEAN /\ warned' \in BOOLEAN
    BY DEF WfpTypeOK, StartClear, memory
  <2>5. mu' \in Service \cup {NoOne}
    BY DEF WfpTypeOK, StartClear, Service, Actors, NoOne
  <2> QED BY <1>0, <2>1, <2>2, <2>3, <2>4, <2>5, <2>6, <2>7, TypedAgain
<1>2. Holding' /\ pc'["tool"] \in ToolSteps
  BY DEF WfpTypeOK, Holding, StartClear, Goto, Service, Actors, HoldSteps,
         ToolSteps, NoOne
<1>3. OldIsGone'
  BY DEF WfpTypeOK, Holding, OldIsGone, StartClear, Goto, Service, Actors,
         HoldSteps, Old, memory, engine
<1>4. ClearedMeansGone'
  BY DEF WfpTypeOK, Holding, ClearedMeansGone, StartClear, Goto, Service, Actors,
         HoldSteps, memory, engine
<1>5. StepRight
  BY DEF WfpTypeOK, OldIsGone, StepRight, StartClear, Goto, Service, Actors, Old,
         Sealed, memory, engine
<1> QED BY <1>1, <1>2, <1>3, <1>4, <1>5

\* The deletion on request keeps the invariant and opens no gap.
LEMMA ClearRight ==
  ASSUME WfpInv, NEW a \in {"guard", "tool"}, Clear(a)
  PROVE  WfpInv' /\ StepRight
<1> USE DEF WfpInv
<1>a. 0 \in 0 .. MaxStarts
  BY WfpConstants
<1>0. spent' \in SpentSet
  BY SpentFits, SpentTwice DEF Clear
<1>1. WfpTypeOK'
  <2>1. pc' \in [Actors -> Steps]
    BY DEF WfpTypeOK, Clear, Goto, Service, Actors, Steps, Lock
  <2>2. index' \in [Actors -> 0 .. MaxStarts]
    BY <1>a DEF WfpTypeOK, Clear, Service, Actors
  <2>6. adapter' \in 0 .. MaxStarts
    BY <1>a, WfpConstants DEF WfpTypeOK, SpentSet, Clear
  <2>7. permit' \in 0 .. MaxStarts
    BY <1>a DEF WfpTypeOK, Clear, Service
  <2>3. store' \subseteq Groups /\ base' \subseteq {"old", "new"}
    BY DEF WfpTypeOK, Clear, Groups, OurFilters
  <2>4. /\ running' \in BOOLEAN /\ guardOn' \in BOOLEAN /\ pending' \in BOOLEAN
        /\ wiped' \in BOOLEAN /\ warned' \in BOOLEAN
    BY DEF WfpTypeOK, Clear, memory
  <2>5. mu' \in Service \cup {NoOne}
    BY DEF WfpTypeOK, Clear, Service, Actors, NoOne, Lock
  <2> QED BY <1>0, <2>1, <2>2, <2>3, <2>4, <2>5, <2>6, <2>7, TypedAgain
<1>2. Holding' /\ pc'["tool"] \in ToolSteps
  BY DEF WfpTypeOK, Holding, Clear, Goto, Service, Actors, HoldSteps, ToolSteps,
         NoOne, Lock
<1>3. OldIsGone'
  BY DEF WfpTypeOK, Holding, OldIsGone, Clear, Goto, Service, Actors, HoldSteps,
         Old, OurFilters, Lock, memory, engine
<1>4. ClearedMeansGone'
  BY DEF WfpTypeOK, Holding, ClearedMeansGone, Clear, Goto, Service, Actors,
         HoldSteps, OurFilters, Lock, memory, engine
<1>5. StepRight
  BY DEF WfpTypeOK, OldIsGone, StepRight, Clear, Goto, Service, Actors, Old,
         OurFilters, Sealed, Lock, memory, engine
<1> QED BY <1>1, <1>2, <1>3, <1>4, <1>5

\* A deletion that fails keeps the invariant and opens no gap.
LEMMA ClearFailsRight ==
  ASSUME WfpInv, NEW a \in {"guard", "tool"}, ClearFails(a)
  PROVE  WfpInv' /\ StepRight
<1> USE DEF WfpInv
<1>a. 0 \in 0 .. MaxStarts
  BY WfpConstants
<1>0. spent' \in SpentSet
  BY SpentFits, SpentTwice DEF ClearFails
<1>1. WfpTypeOK'
  <2>1. pc' \in [Actors -> Steps]
    BY DEF WfpTypeOK, ClearFails, Goto, Service, Actors, Steps
  <2>2. index' \in [Actors -> 0 .. MaxStarts]
    BY <1>a DEF WfpTypeOK, ClearFails, Service, Actors
  <2>6. adapter' \in 0 .. MaxStarts
    BY <1>a, WfpConstants DEF WfpTypeOK, SpentSet, ClearFails, engine
  <2>7. permit' \in 0 .. MaxStarts
    BY <1>a DEF WfpTypeOK, ClearFails, Service, engine
  <2>3. store' \subseteq Groups /\ base' \subseteq {"old", "new"}
    BY DEF WfpTypeOK, ClearFails, Groups, engine
  <2>4. /\ running' \in BOOLEAN /\ guardOn' \in BOOLEAN /\ pending' \in BOOLEAN
        /\ wiped' \in BOOLEAN /\ warned' \in BOOLEAN
    BY DEF WfpTypeOK, ClearFails
  <2>5. mu' \in Service \cup {NoOne}
    BY DEF WfpTypeOK, ClearFails, Service, Actors, NoOne
  <2> QED BY <1>0, <2>1, <2>2, <2>3, <2>4, <2>5, <2>6, <2>7, TypedAgain
<1>2. Holding' /\ pc'["tool"] \in ToolSteps
  BY DEF WfpTypeOK, Holding, ClearFails, Goto, Service, Actors, HoldSteps,
         ToolSteps, NoOne
<1>3. OldIsGone'
  BY DEF WfpTypeOK, Holding, OldIsGone, ClearFails, Goto, Service, Actors,
         HoldSteps, Old, memory, engine
<1>4. ClearedMeansGone'
  BY DEF WfpTypeOK, Holding, ClearedMeansGone, ClearFails, Goto, Service, Actors,
         HoldSteps, memory, engine
<1>5. StepRight
  BY DEF WfpTypeOK, OldIsGone, StepRight, ClearFails, Goto, Service, Actors, Old,
         Sealed, memory, engine
<1> QED BY <1>1, <1>2, <1>3, <1>4, <1>5

\* The removal of provider and sublayer keeps the invariant and opens no gap.
LEMMA CleanupRight ==
  ASSUME WfpInv, NEW a \in {"guard", "tool"}, Cleanup(a)
  PROVE  WfpInv' /\ StepRight
<1> USE DEF WfpInv
<1>a. 0 \in 0 .. MaxStarts
  BY WfpConstants
<1>0. spent' \in SpentSet
  BY SpentFits, SpentTwice DEF Cleanup
<1>1. WfpTypeOK'
  <2>1. pc' \in [Actors -> Steps]
    BY DEF WfpTypeOK, Cleanup, Goto, Service, Actors, Steps, Unlock
  <2>2. index' \in [Actors -> 0 .. MaxStarts]
    BY <1>a DEF WfpTypeOK, Cleanup, Service, Actors
  <2>6. adapter' \in 0 .. MaxStarts
    BY <1>a, WfpConstants DEF WfpTypeOK, SpentSet, Cleanup
  <2>7. permit' \in 0 .. MaxStarts
    BY <1>a DEF WfpTypeOK, Cleanup, Service
  <2>3. store' \subseteq Groups /\ base' \subseteq {"old", "new"}
    BY DEF WfpTypeOK, Cleanup, Groups
  <2>4. /\ running' \in BOOLEAN /\ guardOn' \in BOOLEAN /\ pending' \in BOOLEAN
        /\ wiped' \in BOOLEAN /\ warned' \in BOOLEAN
    BY DEF WfpTypeOK, Cleanup
  <2>5. mu' \in Service \cup {NoOne}
    BY DEF WfpTypeOK, Cleanup, Service, Actors, NoOne, Unlock
  <2> QED BY <1>0, <2>1, <2>2, <2>3, <2>4, <2>5, <2>6, <2>7, TypedAgain
<1>2. Holding' /\ pc'["tool"] \in ToolSteps
  BY DEF WfpTypeOK, Holding, Cleanup, Goto, Service, Actors, HoldSteps, ToolSteps,
         NoOne, Unlock
<1>3. OldIsGone'
  BY DEF WfpTypeOK, Holding, OldIsGone, Cleanup, Goto, Service, Actors, HoldSteps,
         Old, Unlock, memory, engine
<1>4. ClearedMeansGone'
  BY DEF WfpTypeOK, Holding, ClearedMeansGone, Cleanup, Goto, Service, Actors,
         HoldSteps, Unlock, memory, engine
<1>5. StepRight
  BY DEF WfpTypeOK, OldIsGone, StepRight, Cleanup, Goto, Service, Actors, Old,
         Sealed, Unlock, memory, engine
<1> QED BY <1>1, <1>2, <1>3, <1>4, <1>5

\* The look for the interface, before the mutex is taken keeps the invariant and opens no gap.
LEMMA LookupRight ==
  ASSUME WfpInv, NEW a \in Service, Lookup(a)
  PROVE  WfpInv' /\ StepRight
<1> USE DEF WfpInv
<1>a. 0 \in 0 .. MaxStarts
  BY WfpConstants
<1>0. spent' \in SpentSet
  BY SpentFits, SpentTwice DEF Lookup
<1>1. WfpTypeOK'
  <2>1. pc' \in [Actors -> Steps]
    BY DEF WfpTypeOK, Lookup, Goto, Service, Actors, Steps
  <2>2. index' \in [Actors -> 0 .. MaxStarts]
    BY <1>a DEF WfpTypeOK, Lookup, Service, Actors
  <2>6. adapter' \in 0 .. MaxStarts
    BY <1>a, WfpConstants DEF WfpTypeOK, SpentSet, Lookup, engine
  <2>7. permit' \in 0 .. MaxStarts
    BY <1>a DEF WfpTypeOK, Lookup, Service, engine
  <2>3. store' \subseteq Groups /\ base' \subseteq {"old", "new"}
    BY DEF WfpTypeOK, Lookup, Groups, engine
  <2>4. /\ running' \in BOOLEAN /\ guardOn' \in BOOLEAN /\ pending' \in BOOLEAN
        /\ wiped' \in BOOLEAN /\ warned' \in BOOLEAN
    BY DEF WfpTypeOK, Lookup, memory
  <2>5. mu' \in Service \cup {NoOne}
    BY DEF WfpTypeOK, Lookup, Service, Actors, NoOne
  <2> QED BY <1>0, <2>1, <2>2, <2>3, <2>4, <2>5, <2>6, <2>7, TypedAgain
<1>2. Holding' /\ pc'["tool"] \in ToolSteps
  BY DEF WfpTypeOK, Holding, Lookup, Goto, Service, Actors, HoldSteps, ToolSteps,
         NoOne
<1>3. OldIsGone'
  BY DEF WfpTypeOK, Holding, OldIsGone, Lookup, Goto, Service, Actors, HoldSteps,
         Old, memory, engine
<1>4. ClearedMeansGone'
  BY DEF WfpTypeOK, Holding, ClearedMeansGone, Lookup, Goto, Service, Actors,
         HoldSteps, memory, engine
<1>5. StepRight
  BY DEF WfpTypeOK, OldIsGone, StepRight, Lookup, Goto, Service, Actors, Old,
         Sealed, memory, engine
<1> QED BY <1>1, <1>2, <1>3, <1>4, <1>5

\* The permit for the tunnel's adapter keeps the invariant and opens no gap.
LEMMA PermitRight ==
  ASSUME WfpInv, NEW a \in Service, Permit(a)
  PROVE  WfpInv' /\ StepRight
<1> USE DEF WfpInv
<1>a. 0 \in 0 .. MaxStarts
  BY WfpConstants
<1>0. spent' \in SpentSet
  BY SpentFits, SpentTwice DEF Permit
<1>1. WfpTypeOK'
  <2>1. pc' \in [Actors -> Steps]
    BY DEF WfpTypeOK, Permit, Goto, Service, Actors, Steps, Unlock
  <2>2. index' \in [Actors -> 0 .. MaxStarts]
    BY <1>a DEF WfpTypeOK, Permit, Service, Actors
  <2>6. adapter' \in 0 .. MaxStarts
    BY <1>a, WfpConstants DEF WfpTypeOK, SpentSet, Permit
  <2>7. permit' \in 0 .. MaxStarts
    <3>1. index[a] \in 0 .. MaxStarts /\ permit' \in {index[a], permit}
      BY DEF WfpTypeOK, Permit, Service, Actors
    <3> QED BY <3>1 DEF WfpTypeOK
  <2>3. store' \subseteq Groups /\ base' \subseteq {"old", "new"}
    BY DEF WfpTypeOK, Permit, Groups
  <2>4. /\ running' \in BOOLEAN /\ guardOn' \in BOOLEAN /\ pending' \in BOOLEAN
        /\ wiped' \in BOOLEAN /\ warned' \in BOOLEAN
    BY DEF WfpTypeOK, Permit, memory
  <2>5. mu' \in Service \cup {NoOne}
    BY DEF WfpTypeOK, Permit, Service, Actors, NoOne, Unlock
  <2> QED BY <1>0, <2>1, <2>2, <2>3, <2>4, <2>5, <2>6, <2>7, TypedAgain
<1>2. Holding' /\ pc'["tool"] \in ToolSteps
  BY DEF WfpTypeOK, Holding, Permit, Goto, Service, Actors, HoldSteps, ToolSteps,
         NoOne, Unlock
<1>3. OldIsGone'
  BY DEF WfpTypeOK, Holding, OldIsGone, Permit, Goto, Service, Actors, HoldSteps,
         Old, Unlock, memory, engine
<1>4. ClearedMeansGone'
  BY DEF WfpTypeOK, Holding, ClearedMeansGone, Permit, Goto, Service, Actors,
         HoldSteps, Unlock, memory, engine
<1>5. StepRight
  BY DEF WfpTypeOK, OldIsGone, StepRight, Permit, Goto, Service, Actors, Old,
         Sealed, Unlock, memory, engine
<1> QED BY <1>1, <1>2, <1>3, <1>4, <1>5

\* Writing down what came of it keeps the invariant and opens no gap.
LEMMA NotedRight ==
  ASSUME WfpInv, NEW a \in Service, Noted(a)
  PROVE  WfpInv' /\ StepRight
<1> USE DEF WfpInv
<1>a. 0 \in 0 .. MaxStarts
  BY WfpConstants
<1>0. spent' \in SpentSet
  BY SpentFits, SpentTwice DEF Noted
<1>1. WfpTypeOK'
  <2>1. pc' \in [Actors -> Steps]
    BY DEF WfpTypeOK, Noted, Goto, Service, Actors, Steps
  <2>2. index' \in [Actors -> 0 .. MaxStarts]
    BY <1>a DEF WfpTypeOK, Noted, Service, Actors
  <2>6. adapter' \in 0 .. MaxStarts
    BY <1>a, WfpConstants DEF WfpTypeOK, SpentSet, Noted, engine
  <2>7. permit' \in 0 .. MaxStarts
    BY <1>a DEF WfpTypeOK, Noted, Service, engine
  <2>3. store' \subseteq Groups /\ base' \subseteq {"old", "new"}
    BY DEF WfpTypeOK, Noted, Groups, engine
  <2>4. /\ running' \in BOOLEAN /\ guardOn' \in BOOLEAN /\ pending' \in BOOLEAN
        /\ wiped' \in BOOLEAN /\ warned' \in BOOLEAN
    BY DEF WfpTypeOK, Noted, memory
  <2>5. mu' \in Service \cup {NoOne}
    BY DEF WfpTypeOK, Noted, Service, Actors, NoOne
  <2> QED BY <1>0, <2>1, <2>2, <2>3, <2>4, <2>5, <2>6, <2>7, TypedAgain
<1>2. Holding' /\ pc'["tool"] \in ToolSteps
  BY DEF WfpTypeOK, Holding, Noted, Goto, Service, Actors, HoldSteps, ToolSteps,
         NoOne
<1>3. OldIsGone'
  BY DEF WfpTypeOK, Holding, OldIsGone, Noted, Goto, Service, Actors, HoldSteps,
         Old, memory, engine
<1>4. ClearedMeansGone'
  BY DEF WfpTypeOK, Holding, ClearedMeansGone, Noted, Goto, Service, Actors,
         HoldSteps, memory, engine
<1>5. StepRight
  BY DEF WfpTypeOK, OldIsGone, StepRight, Noted, Goto, Service, Actors, Old, Sealed,
         memory, engine
<1> QED BY <1>1, <1>2, <1>3, <1>4, <1>5

\* Another try of what is pending keeps the invariant and opens no gap.
LEMMA RetryRight ==
  ASSUME WfpInv, NEW a \in Service, Retry(a)
  PROVE  WfpInv' /\ StepRight
<1> USE DEF WfpInv
<1>a. 0 \in 0 .. MaxStarts
  BY WfpConstants
<1>0. spent' \in SpentSet
  BY SpentFits, SpentTwice DEF Retry
<1>1. WfpTypeOK'
  <2>1. pc' \in [Actors -> Steps]
    BY DEF WfpTypeOK, Retry, Goto, Service, Actors, Steps
  <2>2. index' \in [Actors -> 0 .. MaxStarts]
    BY <1>a DEF WfpTypeOK, Retry, Service, Actors
  <2>6. adapter' \in 0 .. MaxStarts
    BY <1>a, WfpConstants DEF WfpTypeOK, SpentSet, Retry, engine
  <2>7. permit' \in 0 .. MaxStarts
    BY <1>a DEF WfpTypeOK, Retry, Service, engine
  <2>3. store' \subseteq Groups /\ base' \subseteq {"old", "new"}
    BY DEF WfpTypeOK, Retry, Groups, engine
  <2>4. /\ running' \in BOOLEAN /\ guardOn' \in BOOLEAN /\ pending' \in BOOLEAN
        /\ wiped' \in BOOLEAN /\ warned' \in BOOLEAN
    BY DEF WfpTypeOK, Retry, memory
  <2>5. mu' \in Service \cup {NoOne}
    BY DEF WfpTypeOK, Retry, Service, Actors, NoOne
  <2> QED BY <1>0, <2>1, <2>2, <2>3, <2>4, <2>5, <2>6, <2>7, TypedAgain
<1>2. Holding' /\ pc'["tool"] \in ToolSteps
  BY DEF WfpTypeOK, Holding, Retry, Goto, Service, Actors, HoldSteps, ToolSteps,
         NoOne
<1>3. OldIsGone'
  BY DEF WfpTypeOK, Holding, OldIsGone, Retry, Goto, Service, Actors, HoldSteps,
         Old, memory, engine
<1>4. ClearedMeansGone'
  BY DEF WfpTypeOK, Holding, ClearedMeansGone, Retry, Goto, Service, Actors,
         HoldSteps, memory, engine
<1>5. StepRight
  BY DEF WfpTypeOK, OldIsGone, StepRight, Retry, Goto, Service, Actors, Old, Sealed,
         memory, engine
<1> QED BY <1>1, <1>2, <1>3, <1>4, <1>5

\* A start of the core keeps the invariant and opens no gap.
LEMMA StartCoreRight ==
  ASSUME WfpInv, StartCore
  PROVE  WfpInv' /\ StepRight
<1> USE DEF WfpInv
<1>a. 0 \in 0 .. MaxStarts
  BY WfpConstants
<1>0. spent' \in SpentSet
  BY SpentFits, SpentTwice DEF StartCore
<1>1. WfpTypeOK'
  <2>1. pc' \in [Actors -> Steps]
    BY DEF WfpTypeOK, StartCore, Goto, Service, Actors, Steps
  <2>2. index' \in [Actors -> 0 .. MaxStarts]
    BY <1>a DEF WfpTypeOK, StartCore, Service, Actors
  <2>6. adapter' \in 0 .. MaxStarts
    <3>1. spent.start \in 0 .. MaxStarts /\ spent.start < MaxStarts /\ adapter' \in {0, spent.start + 1}
      BY DEF WfpTypeOK, StartCore
    <3> QED BY <3>1, WfpConstants
  <2>7. permit' \in 0 .. MaxStarts
    BY <1>a DEF WfpTypeOK, StartCore, Service, engine
  <2>3. store' \subseteq Groups /\ base' \subseteq {"old", "new"}
    BY DEF WfpTypeOK, StartCore, Groups, engine
  <2>4. /\ running' \in BOOLEAN /\ guardOn' \in BOOLEAN /\ pending' \in BOOLEAN
        /\ wiped' \in BOOLEAN /\ warned' \in BOOLEAN
    BY DEF WfpTypeOK, StartCore
  <2>5. mu' \in Service \cup {NoOne}
    BY DEF WfpTypeOK, StartCore, Service, Actors, NoOne
  <2> QED BY <1>0, <2>1, <2>2, <2>3, <2>4, <2>5, <2>6, <2>7, TypedAgain
<1>2. Holding' /\ pc'["tool"] \in ToolSteps
  BY DEF WfpTypeOK, Holding, StartCore, Goto, Service, Actors, HoldSteps, ToolSteps,
         NoOne
<1>3. OldIsGone'
  BY DEF WfpTypeOK, Holding, OldIsGone, StartCore, Goto, Service, Actors, HoldSteps,
         Old, memory, engine
<1>4. ClearedMeansGone'
  BY DEF WfpTypeOK, Holding, ClearedMeansGone, StartCore, Goto, Service, Actors,
         HoldSteps, memory, engine
<1>5. StepRight
  BY DEF WfpTypeOK, OldIsGone, StepRight, StartCore, Goto, Service, Actors, Old,
         Sealed, memory, engine
<1> QED BY <1>1, <1>2, <1>3, <1>4, <1>5

\* An adapter that shows late keeps the invariant and opens no gap.
LEMMA AdapterShowsRight ==
  ASSUME WfpInv, AdapterShows
  PROVE  WfpInv' /\ StepRight
<1> USE DEF WfpInv
<1>a. 0 \in 0 .. MaxStarts
  BY WfpConstants
<1>0. spent' \in SpentSet
  BY SpentFits, SpentTwice DEF AdapterShows
<1>1. WfpTypeOK'
  <2>1. pc' \in [Actors -> Steps]
    BY DEF WfpTypeOK, AdapterShows, Service, Actors, Steps
  <2>2. index' \in [Actors -> 0 .. MaxStarts]
    BY <1>a DEF WfpTypeOK, AdapterShows, Service, Actors
  <2>6. adapter' \in 0 .. MaxStarts
    BY <1>a, WfpConstants DEF WfpTypeOK, SpentSet, AdapterShows, engine
  <2>7. permit' \in 0 .. MaxStarts
    BY <1>a DEF WfpTypeOK, AdapterShows, Service, engine
  <2>3. store' \subseteq Groups /\ base' \subseteq {"old", "new"}
    BY DEF WfpTypeOK, AdapterShows, Groups, engine
  <2>4. /\ running' \in BOOLEAN /\ guardOn' \in BOOLEAN /\ pending' \in BOOLEAN
        /\ wiped' \in BOOLEAN /\ warned' \in BOOLEAN
    BY DEF WfpTypeOK, AdapterShows, memory
  <2>5. mu' \in Service \cup {NoOne}
    BY DEF WfpTypeOK, AdapterShows, Service, Actors, NoOne
  <2> QED BY <1>0, <2>1, <2>2, <2>3, <2>4, <2>5, <2>6, <2>7, TypedAgain
<1>2. Holding' /\ pc'["tool"] \in ToolSteps
  BY DEF WfpTypeOK, Holding, AdapterShows, Service, Actors, HoldSteps, ToolSteps,
         NoOne
<1>3. OldIsGone'
  BY DEF WfpTypeOK, Holding, OldIsGone, AdapterShows, Service, Actors, HoldSteps,
         Old, memory, engine
<1>4. ClearedMeansGone'
  BY DEF WfpTypeOK, Holding, ClearedMeansGone, AdapterShows, Service, Actors,
         HoldSteps, memory, engine
<1>5. StepRight
  BY DEF WfpTypeOK, OldIsGone, StepRight, AdapterShows, Service, Actors, Old,
         Sealed, memory, engine
<1> QED BY <1>1, <1>2, <1>3, <1>4, <1>5

\* The core saying that it is stopped keeps the invariant and opens no gap.
LEMMA StopCoreRight ==
  ASSUME WfpInv, StopCore
  PROVE  WfpInv' /\ StepRight
<1> USE DEF WfpInv
<1>a. 0 \in 0 .. MaxStarts
  BY WfpConstants
<1>0. spent' \in SpentSet
  BY SpentFits, SpentTwice DEF StopCore
<1>1. WfpTypeOK'
  <2>1. pc' \in [Actors -> Steps]
    BY DEF WfpTypeOK, StopCore, Goto, Service, Actors, Steps
  <2>2. index' \in [Actors -> 0 .. MaxStarts]
    BY <1>a DEF WfpTypeOK, StopCore, Service, Actors
  <2>6. adapter' \in 0 .. MaxStarts
    BY <1>a, WfpConstants DEF WfpTypeOK, SpentSet, StopCore, engine
  <2>7. permit' \in 0 .. MaxStarts
    BY <1>a DEF WfpTypeOK, StopCore, Service, engine
  <2>3. store' \subseteq Groups /\ base' \subseteq {"old", "new"}
    BY DEF WfpTypeOK, StopCore, Groups, engine
  <2>4. /\ running' \in BOOLEAN /\ guardOn' \in BOOLEAN /\ pending' \in BOOLEAN
        /\ wiped' \in BOOLEAN /\ warned' \in BOOLEAN
    BY DEF WfpTypeOK, StopCore
  <2>5. mu' \in Service \cup {NoOne}
    BY DEF WfpTypeOK, StopCore, Service, Actors, NoOne
  <2> QED BY <1>0, <2>1, <2>2, <2>3, <2>4, <2>5, <2>6, <2>7, TypedAgain
<1>2. Holding' /\ pc'["tool"] \in ToolSteps
  BY DEF WfpTypeOK, Holding, StopCore, Goto, Service, Actors, HoldSteps, ToolSteps,
         NoOne
<1>3. OldIsGone'
  BY DEF WfpTypeOK, Holding, OldIsGone, StopCore, Goto, Service, Actors, HoldSteps,
         Old, memory, engine
<1>4. ClearedMeansGone'
  BY DEF WfpTypeOK, Holding, ClearedMeansGone, StopCore, Goto, Service, Actors,
         HoldSteps, memory, engine
<1>5. StepRight
  BY DEF WfpTypeOK, OldIsGone, StepRight, StopCore, Goto, Service, Actors, Old,
         Sealed, memory, engine
<1> QED BY <1>1, <1>2, <1>3, <1>4, <1>5

\* The box closing, and the adapter with it keeps the invariant and opens no gap.
LEMMA CloseBoxRight ==
  ASSUME WfpInv, CloseBox
  PROVE  WfpInv' /\ StepRight
<1> USE DEF WfpInv
<1>a. 0 \in 0 .. MaxStarts
  BY WfpConstants
<1>0. spent' \in SpentSet
  BY SpentFits, SpentTwice DEF CloseBox
<1>1. WfpTypeOK'
  <2>1. pc' \in [Actors -> Steps]
    BY DEF WfpTypeOK, CloseBox, Goto, Service, Actors, Steps
  <2>2. index' \in [Actors -> 0 .. MaxStarts]
    BY <1>a DEF WfpTypeOK, CloseBox, Service, Actors
  <2>6. adapter' \in 0 .. MaxStarts
    BY <1>a, WfpConstants DEF WfpTypeOK, SpentSet, CloseBox, engine
  <2>7. permit' \in 0 .. MaxStarts
    BY <1>a DEF WfpTypeOK, CloseBox, Service, engine
  <2>3. store' \subseteq Groups /\ base' \subseteq {"old", "new"}
    BY DEF WfpTypeOK, CloseBox, Groups, engine
  <2>4. /\ running' \in BOOLEAN /\ guardOn' \in BOOLEAN /\ pending' \in BOOLEAN
        /\ wiped' \in BOOLEAN /\ warned' \in BOOLEAN
    BY DEF WfpTypeOK, CloseBox, memory
  <2>5. mu' \in Service \cup {NoOne}
    BY DEF WfpTypeOK, CloseBox, Service, Actors, NoOne
  <2> QED BY <1>0, <2>1, <2>2, <2>3, <2>4, <2>5, <2>6, <2>7, TypedAgain
<1>2. Holding' /\ pc'["tool"] \in ToolSteps
  BY DEF WfpTypeOK, Holding, CloseBox, Goto, Service, Actors, HoldSteps, ToolSteps,
         NoOne
<1>3. OldIsGone'
  BY DEF WfpTypeOK, Holding, OldIsGone, CloseBox, Goto, Service, Actors, HoldSteps,
         Old, memory, engine
<1>4. ClearedMeansGone'
  BY DEF WfpTypeOK, Holding, ClearedMeansGone, CloseBox, Goto, Service, Actors,
         HoldSteps, memory, engine
<1>5. StepRight
  BY DEF WfpTypeOK, OldIsGone, StepRight, CloseBox, Goto, Service, Actors, Old,
         Sealed, memory, engine
<1> QED BY <1>1, <1>2, <1>3, <1>4, <1>5

\* The decision to drop the permit keeps the invariant and opens no gap.
LEMMA DropRight ==
  ASSUME WfpInv, Drop
  PROVE  WfpInv' /\ StepRight
<1> USE DEF WfpInv
<1>a. 0 \in 0 .. MaxStarts
  BY WfpConstants
<1>0. spent' \in SpentSet
  BY SpentFits, SpentTwice DEF Drop
<1>1. WfpTypeOK'
  <2>1. pc' \in [Actors -> Steps]
    BY DEF WfpTypeOK, Drop, Goto, Service, Actors, Steps, Lock
  <2>2. index' \in [Actors -> 0 .. MaxStarts]
    BY <1>a DEF WfpTypeOK, Drop, Service, Actors
  <2>6. adapter' \in 0 .. MaxStarts
    BY <1>a, WfpConstants DEF WfpTypeOK, SpentSet, Drop, engine
  <2>7. permit' \in 0 .. MaxStarts
    BY <1>a DEF WfpTypeOK, Drop, Service, engine
  <2>3. store' \subseteq Groups /\ base' \subseteq {"old", "new"}
    BY DEF WfpTypeOK, Drop, Groups, engine
  <2>4. /\ running' \in BOOLEAN /\ guardOn' \in BOOLEAN /\ pending' \in BOOLEAN
        /\ wiped' \in BOOLEAN /\ warned' \in BOOLEAN
    BY DEF WfpTypeOK, Drop, memory
  <2>5. mu' \in Service \cup {NoOne}
    BY DEF WfpTypeOK, Drop, Service, Actors, NoOne, Lock
  <2> QED BY <1>0, <2>1, <2>2, <2>3, <2>4, <2>5, <2>6, <2>7, TypedAgain
<1>b. /\ pc["core"] = "drop"
      /\ \/ /\ \A b \in Actors : pc'[b] = IF b = "core" THEN "idle" ELSE pc[b]
            /\ UNCHANGED mu
         \/ /\ \A b \in Actors : pc'[b] = IF b = "core" THEN "dropnow" ELSE pc[b]
            /\ mu = NoOne /\ mu' = "core"
      /\ UNCHANGED <<store, base, permit, warned>>
  BY DEF WfpTypeOK, Drop, Goto, Service, Actors, Steps, ToolSteps, NoOne, Groups,
         Lock, memory, engine
<1>2. Holding' /\ pc'["tool"] \in ToolSteps
  BY <1>b DEF WfpTypeOK, Holding, Service, Actors, HoldSteps, ToolSteps, NoOne
<1>3. OldIsGone'
  BY <1>b DEF WfpTypeOK, Holding, OldIsGone, Service, Actors, HoldSteps, Old
<1>4. ClearedMeansGone'
  BY <1>b DEF WfpTypeOK, Holding, ClearedMeansGone, Service, Actors, HoldSteps
<1>5. StepRight
  BY DEF WfpTypeOK, OldIsGone, StepRight, Drop, Goto, Service, Actors, Old, Sealed,
         Lock, memory, engine
<1> QED BY <1>1, <1>2, <1>3, <1>4, <1>5

\* The permit being dropped keeps the invariant and opens no gap.
LEMMA DropNowRight ==
  ASSUME WfpInv, DropNow
  PROVE  WfpInv' /\ StepRight
<1> USE DEF WfpInv
<1>a. 0 \in 0 .. MaxStarts
  BY WfpConstants
<1>0. spent' \in SpentSet
  BY SpentFits, SpentTwice DEF DropNow
<1>1. WfpTypeOK'
  <2>1. pc' \in [Actors -> Steps]
    BY DEF WfpTypeOK, DropNow, Goto, Service, Actors, Steps, Unlock
  <2>2. index' \in [Actors -> 0 .. MaxStarts]
    BY <1>a DEF WfpTypeOK, DropNow, Service, Actors
  <2>6. adapter' \in 0 .. MaxStarts
    BY <1>a, WfpConstants DEF WfpTypeOK, SpentSet, DropNow
  <2>7. permit' \in 0 .. MaxStarts
    BY <1>a DEF WfpTypeOK, DropNow, Service
  <2>3. store' \subseteq Groups /\ base' \subseteq {"old", "new"}
    BY DEF WfpTypeOK, DropNow, Groups
  <2>4. /\ running' \in BOOLEAN /\ guardOn' \in BOOLEAN /\ pending' \in BOOLEAN
        /\ wiped' \in BOOLEAN /\ warned' \in BOOLEAN
    BY DEF WfpTypeOK, DropNow, memory
  <2>5. mu' \in Service \cup {NoOne}
    BY DEF WfpTypeOK, DropNow, Service, Actors, NoOne, Unlock
  <2> QED BY <1>0, <2>1, <2>2, <2>3, <2>4, <2>5, <2>6, <2>7, TypedAgain
<1>2. Holding' /\ pc'["tool"] \in ToolSteps
  BY DEF WfpTypeOK, Holding, DropNow, Goto, Service, Actors, HoldSteps, ToolSteps,
         NoOne, Unlock
<1>3. OldIsGone'
  BY DEF WfpTypeOK, Holding, OldIsGone, DropNow, Goto, Service, Actors, HoldSteps,
         Old, Unlock, memory, engine
<1>4. ClearedMeansGone'
  BY DEF WfpTypeOK, Holding, ClearedMeansGone, DropNow, Goto, Service, Actors,
         HoldSteps, Unlock, memory, engine
<1>5. StepRight
  BY DEF WfpTypeOK, OldIsGone, StepRight, DropNow, Goto, Service, Actors, Old,
         Sealed, Unlock, memory, engine
<1> QED BY <1>1, <1>2, <1>3, <1>4, <1>5

\* A death of the service or a restart keeps the invariant and opens no gap.
LEMMA CrashRight ==
  ASSUME WfpInv, NEW reboot \in BOOLEAN, Crash(reboot)
  PROVE  WfpInv' /\ StepRight
<1> USE DEF WfpInv
<1>a. 0 \in 0 .. MaxStarts
  BY WfpConstants
<1>0. spent' \in SpentSet
  BY SpentFits, SpentTwice DEF Crash
<1>1. WfpTypeOK'
  <2>1. pc' \in [Actors -> Steps]
    BY DEF WfpTypeOK, Crash, Service, Actors, Steps
  <2>2. index' \in [Actors -> 0 .. MaxStarts]
    BY <1>a DEF WfpTypeOK, Crash, Service, Actors
  <2>6. adapter' \in 0 .. MaxStarts
    BY <1>a, WfpConstants DEF WfpTypeOK, SpentSet, Crash, engine
  <2>7. permit' \in 0 .. MaxStarts
    BY <1>a DEF WfpTypeOK, Crash, Service, engine
  <2>3. store' \subseteq Groups /\ base' \subseteq {"old", "new"}
    BY DEF WfpTypeOK, Crash, Groups, engine
  <2>4. /\ running' \in BOOLEAN /\ guardOn' \in BOOLEAN /\ pending' \in BOOLEAN
        /\ wiped' \in BOOLEAN /\ warned' \in BOOLEAN
    BY DEF WfpTypeOK, Crash
  <2>5. mu' \in Service \cup {NoOne}
    BY DEF WfpTypeOK, Crash, Service, Actors, NoOne
  <2> QED BY <1>0, <2>1, <2>2, <2>3, <2>4, <2>5, <2>6, <2>7, TypedAgain
<1>2. Holding' /\ pc'["tool"] \in ToolSteps
  BY DEF WfpTypeOK, Holding, Crash, Service, Actors, HoldSteps, ToolSteps, NoOne
<1>3. OldIsGone'
  BY DEF WfpTypeOK, Holding, OldIsGone, Crash, Service, Actors, HoldSteps, Old,
         engine
<1>4. ClearedMeansGone'
  BY DEF WfpTypeOK, Holding, ClearedMeansGone, Crash, Service, Actors, HoldSteps,
         engine
<1>5. StepRight
  BY DEF WfpTypeOK, OldIsGone, StepRight, Crash, Service, Actors, Old, Sealed,
         engine
<1> QED BY <1>1, <1>2, <1>3, <1>4, <1>5


\* The store a version left behind, or none.
LEMMA WfpInitInv == WfpInit => WfpInv
<1> SUFFICES ASSUME WfpInit PROVE WfpInv
  OBVIOUS
<1>1. spent \in SpentSet
  BY WfpConstants DEF WfpInit, SpentSet
<1>2. 0 \in 0 .. MaxStarts
  BY WfpConstants
<1>3. WfpTypeOK
  BY <1>1, <1>2
     DEF WfpInit, WfpTypeOK, SpentSet, Actors, Service, NoOne, Steps, Groups
<1>4. /\ pc["tool"] \in ToolSteps /\ Holding /\ OldIsGone /\ ClearedMeansGone
  BY DEF WfpInit, ToolSteps, Holding, OldIsGone, ClearedMeansGone, Actors, Service,
         HoldSteps
<1> QED BY <1>3, <1>4 DEF WfpInv

\* Every step of the guard, of the core and of the other process.
LEMMA WfpStepRight ==
  ASSUME WfpInv, WfpNext
  PROVE  WfpInv' /\ StepRight
<1>1. CASE Swap \/ SwapFails \/ DropLegacy \/ Ready \/ Applied
  BY <1>1, SwapRight, SwapFailsRight, DropLegacyRight, ReadyRight, AppliedRight
<1>2. CASE AddBoot("boot", "bootforward") \/ AddBoot("bootforward", "ready")
  BY <1>2, AddBootBootRight, AddBootForwardRight
<1>3. CASE \E a \in Service : Lookup(a) \/ TunUp(a) \/ Permit(a) \/ Noted(a) \/ Retry(a)
  BY <1>3, LookupRight, TunUpNothingRight, TunUpSomeRight, PermitRight, NotedRight,
     RetryRight
<1>4. CASE \E a \in {"guard", "tool"} :
             StartClear(a) \/ Clear(a) \/ ClearFails(a) \/ Count(a) \/ Cleanup(a)
  BY <1>4, StartClearRight, ClearRight, ClearFailsRight, CountNothingRight,
     CountSomeRight, CleanupRight
<1>5. CASE StartCore \/ AdapterShows \/ StopCore \/ CloseBox \/ Drop \/ DropNow
  BY <1>5, StartCoreRight, AdapterShowsRight, StopCoreRight, CloseBoxRight,
     DropRight, DropNowRight
<1>6. CASE \E reboot \in BOOLEAN : Crash(reboot)
  BY <1>6, CrashRight
<1> QED BY <1>1, <1>2, <1>3, <1>4, <1>5, <1>6 DEF WfpNext

\* And so does a step that changes nothing.
LEMMA WfpInvKept == WfpInv /\ [WfpNext]_wfpVars => WfpInv'
<1>1. WfpInv /\ UNCHANGED wfpVars => WfpInv'
  BY DEF WfpInv, WfpTypeOK, Holding, OldIsGone, ClearedMeansGone, wfpVars
<1> QED BY <1>1, WfpStepRight

\* The inductive invariant of the transactions.
THEOREM WfpAlways == WfpSpec => []WfpInv
BY WfpInitInv, WfpInvKept, PTL DEF WfpSpec

\* The variables of the transactions keep their types.
THEOREM WfpTypes == WfpSpec => []WfpTypeOK
<1>1. WfpInv => WfpTypeOK
  BY DEF WfpInv
<1> QED BY <1>1, WfpAlways, PTL

\* However often the guard is reinstalled, upgraded from the old generation, fails, or
\* the service or the computer goes down: only a deletion on request opens the computer
\* (guard.go:142-150, 284-294).
THEOREM GuardHasNoGap == WfpSpec => NoGap
<1>1. WfpInv /\ [WfpNext]_wfpVars =>
        [Sealed(store) /\ ~Sealed(store') =>
           \E a \in {"guard", "tool"} : pc[a] = "clear" /\ pc'[a] = "count"]_wfpVars
  BY WfpStepRight DEF StepRight
<1> QED BY <1>1, WfpAlways, PTL DEF WfpSpec, NoGap

\* Whoever gets past the count of a Disable has left nothing behind, and a guard reported
\* without a warning has both boot-time sets and hangs on nothing of the old generation.
THEOREM GuardReportsAreHonest == WfpSpec => ReportsAreHonest
<1>1. WfpInv => ClearedMeansGone
  BY DEF WfpInv
<1>2. WfpInv /\ [WfpNext]_wfpVars =>
        [pc["guard"] = "ready" /\ pc'["guard"] = "applied" /\ ~warned' =>
           {"boot", "bootforward"} \subseteq store /\ store \cap {"oldrun", "oldboot"} = {}
           /\ "old" \notin base]_wfpVars
  BY WfpStepRight DEF StepRight, Old
<1> QED BY <1>1, <1>2, WfpAlways, PTL DEF WfpSpec, ReportsAreHonest, WarningHonest

-----------------------------------------------------------------------------
(* The changes of settings *)

\* The running core routes and asks as one started from the settings would.
SwitchInv ==
  ~kept =>
    /\ clash = ModeName(saved.mode)
    /\ buildConfig(built) = buildConfig(saved)
    /\ dnsServers(built) = dnsServers(saved) /\ dnsRules(built) = dnsRules(saved)

RouteInv == RouteTypeOK /\ SwitchInv

\* noDirect reaches the configuration only through Strict: settings of one mode that differ
\* in nothing else, and are strict alike, are rendered alike.
LEMMA RenderedAlike ==
  ASSUME NEW s \in RouteSettings, NEW t \in RouteSettings,
         Live(s, t), t.mode = s.mode, Strict(t) = Strict(s)
  PROVE  buildConfig(t) = buildConfig(s) /\ dnsServers(t) = dnsServers(s) /\ dnsRules(t) = dnsRules(s)
<1>1. /\ t.lan = s.lan /\ t.ipv6 = s.ipv6 /\ t.private = s.private /\ t.cn = s.cn
      /\ t.final = s.final /\ t.ads = s.ads /\ t.gateway = s.gateway /\ t.bypass = s.bypass
      /\ t.groups = s.groups /\ t.sets = s.sets /\ t.self = s.self
  BY DEF Live, RouteSettings
<1>2. deviceRules(t) = deviceRules(s) /\ nodeRules(t) = nodeRules(s)
  BY <1>1 DEF deviceRules, nodeRules
<1>3. buildConfig(t) = buildConfig(s)
  BY <1>1, <1>2 DEF buildConfig
<1>4. dnsServers(t) = dnsServers(s)
  BY <1>1 DEF dnsServers
<1>5. dnsRules(t) = dnsRules(s)
  BY <1>1 DEF dnsRules, localCN
<1> QED BY <1>3, <1>4, <1>5

\* The name of any mode is one of the core's three.
LEMMA ModeNamed == \A s \in RouteSettings : ModeName(s.mode) \in {"Rule", "Global", "Direct"}
BY DEF ModeName, RouteSettings

\* A configuration rendered anew is the one meant; one that was kept excuses itself.
LEMMA RebuiltKeeps ==
  ASSUME RouteInv, NEW next \in RouteSettings, Rebuilt(next) \/ KeepsOld(next)
  PROVE  RouteInv'
<1>1. CASE Rebuilt(next)
  BY <1>1, ModeNamed DEF RouteInv, RouteTypeOK, SwitchInv, Rebuilt
<1>2. CASE KeepsOld(next)
  BY <1>2 DEF RouteInv, RouteTypeOK, SwitchInv, KeepsOld
<1> QED BY <1>1, <1>2

\* A switch that changes nothing but the default mode keeps what runs the one meant.
LEMMA SwitchKeeps ==
  ASSUME RouteInv, NEW next \in RouteSettings,
         switchModeLive(next), modeSwitchIsLive(saved, next)
  PROVE  RouteInv'
BY ModeNamed DEF RouteInv, RouteTypeOK, SwitchInv, switchModeLive, modeSwitchIsLive

\* A change that was rolled back changes nothing.
LEMMA StayKeeps == RouteInv /\ UNCHANGED routeVars => RouteInv'
BY DEF RouteInv, RouteTypeOK, SwitchInv, routeVars

\* The mode alone being changed, live or by a restart.
LEMMA SetModeKeeps ==
  ASSUME RouteInv, NEW mode, [saved EXCEPT !.mode = mode] \in RouteSettings, SetMode(mode)
  PROVE  RouteInv'
<1> DEFINE next == [saved EXCEPT !.mode = mode]
<1>1. CASE modeSwitchIsLive(saved, next) /\ switchModeLive(next)
  BY <1>1, SwitchKeeps
<1>2. CASE restartForPrivacySettings(next)
  BY <1>2, RebuiltKeeps, StayKeeps DEF restartForPrivacySettings
<1> QED BY <1>1, <1>2 DEF SetMode

\* Any settings being saved: restarted, switched live, left alone or rebuilt.
LEMMA SetSettingsKeeps ==
  ASSUME RouteInv, NEW next \in RouteSettings, SetSettings(next)
  PROVE  RouteInv'
<1>1. CASE restartForPrivacySettings(next)
  BY <1>1, RebuiltKeeps, StayKeeps DEF restartForPrivacySettings
<1>2. CASE Rebuilt(next) \/ KeepsOld(next)
  BY <1>2, RebuiltKeeps
<1>3. CASE modeSwitchIsLive(saved, next) /\ switchModeLive(next)
  BY <1>3, SwitchKeeps
<1>4. CASE /\ ~needsPrivacyRebuild(saved, next) /\ Live(saved, next) /\ next.mode = saved.mode
           /\ saved' = next /\ UNCHANGED <<built, clash, kept>>
  <2>1. Strict(next) = Strict(saved)
    BY <1>4 DEF needsPrivacyRebuild
  <2>2. /\ buildConfig(next) = buildConfig(saved) /\ dnsServers(next) = dnsServers(saved)
        /\ dnsRules(next) = dnsRules(saved)
    BY <1>4, <2>1, RenderedAlike DEF RouteInv, RouteTypeOK
  <2> QED BY <1>4, <2>2 DEF RouteInv, RouteTypeOK, SwitchInv
<1> QED BY <1>1, <1>2, <1>3, <1>4 DEF SetSettings

\* Every change of settings, taken over live, by a rebuild, or kept off.
LEMMA RouteInvKept == RouteInv /\ [RouteNext]_routeVars => RouteInv'
<1> SUFFICES ASSUME RouteInv, RouteNext PROVE RouteInv'
  BY StayKeeps
<1>1. PICK F \in Families :
        \/ \E mode \in {"rule", "global", "direct"} :
             [saved EXCEPT !.mode = mode] \in F /\ SetMode(mode)
        \/ \E next \in F : SetSettings(next)
  BY DEF RouteNext
<1>2. F \subseteq RouteSettings
  BY RouteConstants
<1> QED BY <1>1, <1>2, SetModeKeeps, SetSettingsKeeps

\* The core starts with the configuration rendered from the settings.
LEMMA RouteInitInv == RouteInit => RouteInv
BY RouteConstants, ModeNamed DEF RouteInit, RouteInv, RouteTypeOK, SwitchInv

\* The inductive invariant of the changes of settings.
THEOREM RouteAlways == RouteSpec => []RouteInv
BY RouteInitInv, RouteInvKept, PTL DEF RouteSpec

\* Settings and running configuration stay settings, for any lists of groups.
THEOREM RouteTypes == RouteSpec => []RouteTypeOK
<1>1. RouteInv => RouteTypeOK
  BY DEF RouteInv
<1> QED BY <1>1, RouteAlways, PTL

\* Rendered alike, in the mode meant, the core routes and asks alike.
LEMMA FaithfulForInv == RouteInv => SwitchIsFaithful
BY DEF RouteInv, SwitchInv, SwitchIsFaithful

\* What is switched live is no different from what is rebuilt: every connection takes
\* the same way and every name is asked at the same server, whatever the settings were
\* changed to and in whichever order (daemon.go, modeSwitchIsLive).
THEOREM SwitchesAreFaithful == RouteSpec => []SwitchIsFaithful
BY FaithfulForInv, RouteAlways, PTL

-----------------------------------------------------------------------------

\* A non-empty set of naturals has a least member.
LEMMA LeastOf ==
  ASSUME NEW N \in SUBSET Nat, N # {}
  PROVE  \E n \in N : \A m \in N : n <= m
<1>1. PICK n \in N : \A m \in N : ~(<<m, n>> \in OpToRel(<, Nat))
  BY NatLessThanWellFounded, WFMin
<1>2. \A m \in N : ~(m < n)
  BY <1>1 DEF OpToRel
<1> QED BY <1>2

\* Induction, for what can be written as a set.
LEMMA UpTo ==
  ASSUME NEW N \in Nat, NEW P, 0 \in P, \A n \in 1 .. N : n - 1 \in P => n \in P
  PROVE  0 .. N \subseteq P
<1> SUFFICES ASSUME ~(0 .. N \subseteq P) PROVE FALSE
  OBVIOUS
<1> DEFINE B == (0 .. N) \ P
<1>0. B \in SUBSET Nat /\ B # {}
  OBVIOUS
<1>1. PICK n \in B : \A m \in B : n <= m
  <2> HIDE DEF B
  <2> QED BY <1>0, LeastOf
<1>2. n # 0 /\ n \in 1 .. N
  BY <1>1
<1>3. n - 1 \in P
  BY <1>1, <1>2
<1> QED BY <1>1, <1>2, <1>3

\* What is defined step by step exists.
Recursive(S, seed, N, step) ==
  \E f \in [0 .. N -> S] : f[0] = seed /\ \A n \in 1 .. N : f[n] = step[n][f[n - 1]]

\* Such a function exists, if every step leads back into the set.
LEMMA Recursion ==
  ASSUME NEW S, NEW seed \in S, NEW N \in Nat, NEW step \in [1 .. N -> [S -> S]]
  PROVE  Recursive(S, seed, N, step)
<1> DEFINE P == {n \in 0 .. N : \E f \in [0 .. n -> S] :
                   f[0] = seed /\ \A k \in 1 .. n : f[k] = step[k][f[k - 1]]}
<1>1. 0 \in P
  <2> DEFINE g == [k \in 0 .. 0 |-> seed]
  <2>1. g \in [0 .. 0 -> S] /\ g[0] = seed /\ \A k \in 1 .. 0 : g[k] = step[k][g[k - 1]]
    OBVIOUS
  <2> HIDE DEF g
  <2> QED BY <2>1
<1>2. ASSUME NEW n \in 1 .. N, n - 1 \in P
      PROVE  n \in P
  <2>1. PICK f \in [0 .. n - 1 -> S] :
          f[0] = seed /\ \A k \in 1 .. n - 1 : f[k] = step[k][f[k - 1]]
    BY <1>2
  <2> DEFINE g == [k \in 0 .. n |-> IF k = n THEN step[n][f[n - 1]] ELSE f[k]]
  <2>2. step[n][f[n - 1]] \in S
    BY <2>1
  <2>3. g \in [0 .. n -> S]
    BY <2>1, <2>2
  <2>4. g[0] = seed
    BY <2>1
  <2>5. ASSUME NEW k \in 1 .. n PROVE g[k] = step[k][g[k - 1]]
    <3>1. k - 1 \in 0 .. n /\ k - 1 # n
      OBVIOUS
    <3>2. g[k - 1] = f[k - 1]
      BY <3>1
    <3>3. CASE k = n
      <4>1. g[n] = step[n][f[n - 1]]
        OBVIOUS
      <4>2. g[n - 1] = f[n - 1]
        BY <3>2, <3>3
      <4> HIDE DEF g
      <4> QED BY <3>3, <4>1, <4>2
    <3>4. CASE k # n
      BY <2>1, <3>2, <3>4
    <3> QED BY <3>3, <3>4
  <2> HIDE DEF g
  <2> QED BY <2>3, <2>4, <2>5
<1> HIDE DEF P
<1>3. 0 .. N \subseteq P
  BY <1>1, <1>2, UpTo
<1>4. N \in P
  BY <1>3
<1> QED BY <1>4 DEF P, Recursive

-----------------------------------------------------------------------------
\* Of the rules that match, the first decides.
LEMMA FirstDecides ==
  ASSUME NEW rules, Len(rules) \in Nat, NEW mode, NEW c,
         NEW k \in 1 .. Len(rules), RouteMatches(rules[k], mode, c)
  PROVE  \E i \in 1 .. k :
           /\ RouteMatches(rules[i], mode, c) /\ Route(rules, mode, c) = rules[i].out
           /\ \A j \in 1 .. (i - 1) : ~RouteMatches(rules[j], mode, c)
<1> DEFINE hits == {i \in 1 .. Len(rules) : RouteMatches(rules[i], mode, c)}
<1> DEFINE first == CHOOSE i \in hits : \A j \in hits : i <= j
<1>1. k \in hits /\ hits \in SUBSET Nat
  OBVIOUS
<1>2. first \in hits /\ \A j \in hits : first <= j
  <2> HIDE DEF hits
  <2>1. \E i \in hits : \A j \in hits : i <= j
    BY <1>1, LeastOf
  <2> QED BY <2>1
<1>3. Route(rules, mode, c) = rules[first].out
  BY DEF Route
<1> HIDE DEF first
<1>4. first \in 1 .. k /\ RouteMatches(rules[first], mode, c)
  BY <1>1, <1>2
<1>5. \A j \in 1 .. (first - 1) : ~RouteMatches(rules[j], mode, c)
  BY <1>2, <1>4
<1> QED BY <1>3, <1>4, <1>5

\* No rule matches; the first that does says out.
Silent(rules, mode, c) == \A i \in 1 .. Len(rules) : ~RouteMatches(rules[i], mode, c)
Decides(rules, mode, c, out) ==
  \E i \in 1 .. Len(rules) :
    /\ RouteMatches(rules[i], mode, c) /\ rules[i].out = out
    /\ \A j \in 1 .. (i - 1) : ~RouteMatches(rules[j], mode, c)

\* Rules that decide are the ones the connection is routed by.
LEMMA DecidesRoute ==
  ASSUME NEW T, NEW rules \in Seq(T), NEW mode, NEW c, NEW out, Decides(rules, mode, c, out)
  PROVE  Route(rules, mode, c) = out
<1>1. PICK k \in 1 .. Len(rules) :
        /\ RouteMatches(rules[k], mode, c) /\ rules[k].out = out
        /\ \A j \in 1 .. (k - 1) : ~RouteMatches(rules[j], mode, c)
  BY DEF Decides
<1>2. PICK i \in 1 .. k : RouteMatches(rules[i], mode, c) /\ Route(rules, mode, c) = rules[i].out
  BY <1>1, FirstDecides
<1>3. i = k
  BY <1>1, <1>2
<1> QED BY <1>1, <1>2, <1>3

\* Rules joined: the first piece decides, or it is silent and the second does.
LEMMA Joined ==
  ASSUME NEW T, NEW a \in Seq(T), NEW b \in Seq(T), NEW mode, NEW c
  PROVE  /\ a \o b \in Seq(T)
         /\ Silent(a, mode, c) /\ Silent(b, mode, c) => Silent(a \o b, mode, c)
         /\ \A out : Decides(a, mode, c, out) => Decides(a \o b, mode, c, out)
         /\ \A out : Silent(a, mode, c) /\ Decides(b, mode, c, out) => Decides(a \o b, mode, c, out)
<1> DEFINE ab == a \o b
<1>1. /\ ab \in Seq(T) /\ Len(ab) = Len(a) + Len(b) /\ Len(a) \in Nat /\ Len(b) \in Nat
      /\ \A i \in 1 .. Len(a) + Len(b) : ab[i] = IF i <= Len(a) THEN a[i] ELSE b[i - Len(a)]
  BY ConcatProperties
<1> HIDE DEF ab
<1>5. \A i \in 1 .. Len(a) : i \in 1 .. Len(ab) /\ ab[i] = a[i]
  BY <1>1
<1>6. ASSUME NEW i \in 1 .. Len(b) PROVE Len(a) + i \in 1 .. Len(ab) /\ ab[Len(a) + i] = b[i]
  <2>1. Len(a) + i \in 1 .. Len(a) + Len(b) /\ ~(Len(a) + i <= Len(a)) /\ (Len(a) + i) - Len(a) = i
    BY <1>1
  <2> QED BY <1>1, <2>1
<1>7. ASSUME NEW i \in 1 .. Len(ab), i \notin 1 .. Len(a)
      PROVE  \E k \in 1 .. Len(b) : i = Len(a) + k
  <2>1. i - Len(a) \in 1 .. Len(b) /\ i = Len(a) + (i - Len(a))
    BY <1>1, <1>7
  <2> QED BY <2>1
<1>2. ASSUME Silent(a, mode, c), Silent(b, mode, c) PROVE Silent(ab, mode, c)
  BY <1>2, <1>5, <1>6, <1>7 DEF Silent
<1>3. ASSUME NEW out, Decides(a, mode, c, out) PROVE Decides(ab, mode, c, out)
  <2>1. PICK i \in 1 .. Len(a) :
          /\ RouteMatches(a[i], mode, c) /\ a[i].out = out
          /\ \A j \in 1 .. (i - 1) : ~RouteMatches(a[j], mode, c)
    BY <1>3 DEF Decides
  <2>2. \A j \in 1 .. (i - 1) : j \in 1 .. Len(a)
    BY <1>1
  <2> QED BY <1>5, <2>1, <2>2 DEF Decides
<1>4. ASSUME NEW out, Silent(a, mode, c), Decides(b, mode, c, out) PROVE Decides(ab, mode, c, out)
  <2>1. PICK i \in 1 .. Len(b) :
          /\ RouteMatches(b[i], mode, c) /\ b[i].out = out
          /\ \A j \in 1 .. (i - 1) : ~RouteMatches(b[j], mode, c)
    BY <1>4 DEF Decides
  <2>2. ASSUME NEW j \in 1 .. (Len(a) + i - 1) PROVE ~RouteMatches(ab[j], mode, c)
    <3>1. CASE j \in 1 .. Len(a)
      BY <1>4, <1>5, <3>1 DEF Silent
    <3>2. CASE j \notin 1 .. Len(a)
      <4>1. j \in 1 .. Len(ab)
        BY <1>1
      <4>2. PICK k \in 1 .. Len(b) : j = Len(a) + k
        BY <1>7, <3>2, <4>1
      <4>3. k \in 1 .. (i - 1)
        BY <1>1, <4>2
      <4> QED BY <1>6, <2>1, <4>2, <4>3
    <3> QED BY <3>1, <3>2
  <2>3. Len(a) + i \in 1 .. Len(ab) /\ ab[Len(a) + i] = b[i]
    BY <1>6
  <2> QED BY <2>1, <2>2, <2>3 DEF Decides
<1> QED BY <1>1, <1>2, <1>3, <1>4 DEF ab

\* One rule alone, and none.
LEMMA Alone ==
  ASSUME NEW r, NEW mode, NEW c
  PROVE  /\ RouteMatches(r, mode, c) => Decides(<<r>>, mode, c, r.out)
         /\ ~RouteMatches(r, mode, c) => Silent(<<r>>, mode, c)
BY DEF Decides, Silent

\* No rules say nothing.
LEMMA NoneIsSilent == \A mode, c : Silent(<<>>, mode, c)
BY DEF Silent

-----------------------------------------------------------------------------
Kinds == {"ip", "geoip", "domain", "geosite", "port", "process"}
GroupRule == {R("group", conds, out) : conds \in SUBSET Kinds, out \in {"direct", "proxy", "reject"}}

\* The rule of one group, and when it matches.
LEMMA OneGroup ==
  ASSUME NEW sets, NEW g \in RuleGroups, NEW mode, NEW c
  PROVE  /\ groupRule(sets, g) \in Seq(GroupRule)
         /\ g.on /\ InGroup(Conds(sets, g), c) => Decides(groupRule(sets, g), mode, c, g.out)
         /\ ~(g.on /\ InGroup(Conds(sets, g), c)) => Silent(groupRule(sets, g), mode, c)
<1> DEFINE conds == Conds(sets, g)
<1> DEFINE r == R("group", conds, g.out)
<1>1. conds \in SUBSET Kinds /\ g.out \in {"direct", "proxy", "reject"} /\ g.on \in BOOLEAN
  BY DEF RuleGroups, Kinds, Conds
<1>2. ~InGroup({}, c)
  BY DEF InGroup
<1>3. groupRule(sets, g) = IF g.on /\ conds # {} THEN <<r>> ELSE <<>>
  BY DEF groupRule, When
<1> HIDE DEF conds
<1>4. r \in GroupRule
  BY <1>1 DEF GroupRule
<1>5. (RouteMatches(r, mode, c) <=> InGroup(conds, c)) /\ r.out = g.out
  BY DEF RouteMatches, R
<1> HIDE DEF r
<1>6. <<r>> \in Seq(GroupRule) /\ <<>> \in Seq(GroupRule)
  BY <1>4
<1>7. groupRule(sets, g) \in Seq(GroupRule)
  BY <1>3, <1>6
<1>8. ASSUME g.on, InGroup(conds, c) PROVE Decides(groupRule(sets, g), mode, c, g.out)
  BY <1>2, <1>3, <1>5, <1>8, Alone
<1>9. ASSUME ~(g.on /\ InGroup(conds, c)) PROVE Silent(groupRule(sets, g), mode, c)
  BY <1>3, <1>5, <1>9, Alone, NoneIsSilent
<1> QED BY <1>7, <1>8, <1>9 DEF conds

\* Sequences joined one after the other.
JoinedFrom(u, T, N, piece) ==
  /\ u \in [0 .. N -> Seq(T)] /\ u[0] = <<>>
  /\ \A n \in 1 .. N : u[n] = u[n - 1] \o piece[n]
Joins(u, N, piece) == u = [n \in 0 .. N |-> IF n = 0 THEN <<>> ELSE u[n - 1] \o piece[n]]

\* Sequences are joined one after the other, whatever they are.
LEMMA JoinedUp ==
  ASSUME NEW T, NEW N \in Nat, NEW piece \in [1 .. N -> Seq(T)]
  PROVE  /\ \E u : Joins(u, N, piece)
         /\ \A u : Joins(u, N, piece) => JoinedFrom(u, T, N, piece)
<1> DEFINE S == Seq(T)
<1> DEFINE step == [n \in 1 .. N |-> [a \in S |-> a \o piece[n]]]
<1>0. <<>> \in S /\ \A a \in S, b \in S : a \o b \in S
  BY ConcatProperties
<1> HIDE DEF S
<1>1. piece \in [1 .. N -> S]
  BY DEF S
<1>2. step \in [1 .. N -> [S -> S]]
  BY <1>0, <1>1
<1>3. \A n \in 1 .. N, a \in S : step[n][a] = a \o piece[n]
  OBVIOUS
<1> HIDE DEF step
<1>4. PICK f \in [0 .. N -> S] : f[0] = <<>> /\ \A n \in 1 .. N : f[n] = step[n][f[n - 1]]
  <2>1. Recursive(S, <<>>, N, step)
    BY <1>0, <1>2, Recursion
  <2> QED BY <2>1 DEF Recursive
<1>5. 0 \in 0 .. N /\ \A n \in 1 .. N : n - 1 \in 0 .. N /\ n \in 0 .. N /\ n # 0
  OBVIOUS
<1>6. \A n \in 0 .. N : n = 0 \/ n \in 1 .. N
  OBVIOUS
<1>7. Joins(f, N, piece)
  BY <1>3, <1>4, <1>5, <1>6 DEF Joins
<1>8. ASSUME NEW u, Joins(u, N, piece)
      PROVE  /\ u \in [0 .. N -> S] /\ u[0] = <<>>
             /\ \A n \in 1 .. N : u[n] = u[n - 1] \o piece[n]
  <2> DEFINE w == [n \in 0 .. N |-> IF n = 0 THEN <<>> ELSE u[n - 1] \o piece[n]]
  <2>0. w[0] = <<>> /\ \A n \in 1 .. N : w[n] = u[n - 1] \o piece[n]
    BY <1>5
  <2>1. u[0] = <<>> /\ \A n \in 1 .. N : u[n] = u[n - 1] \o piece[n]
    <3>1. u = w
      BY <1>8 DEF Joins
    <3> HIDE DEF w
    <3> QED BY <2>0, <3>1
  <2> DEFINE P == {n \in 0 .. N : u[n] \in S}
  <2>2. 0 \in P
    BY <1>0, <2>1
  <2>3. ASSUME NEW n \in 1 .. N, n - 1 \in P PROVE n \in P
    BY <1>0, <1>1, <1>5, <2>1, <2>3
  <2>4. 0 .. N \subseteq P
    <3> HIDE DEF P
    <3> QED BY <2>2, <2>3, UpTo
  <2>5. u = [n \in 0 .. N |-> u[n]]
    <3>1. u = w
      BY <1>8 DEF Joins
    <3> QED BY <3>1
  <2> QED BY <2>1, <2>4, <2>5
<1> QED BY <1>7, <1>8 DEF S, JoinedFrom

\* The rules of a list of groups, one after the other.
LEMMA GroupRulesAre ==
  ASSUME NEW sets, NEW groups \in Seq(RuleGroups)
  PROVE  \E f \in [0 .. Len(groups) -> Seq(GroupRule)] :
           /\ f[0] = <<>>
           /\ \A n \in 1 .. Len(groups) : f[n] = f[n - 1] \o groupRule(sets, groups[n])
           /\ groupRules(sets, groups) = f[Len(groups)]
<1> DEFINE N == Len(groups)
<1> DEFINE piece == [n \in 1 .. N |-> groupRule(sets, groups[n])]
<1>0. N \in Nat /\ \A n \in 1 .. N : groups[n] \in RuleGroups
  OBVIOUS
<1>1. piece \in [1 .. N -> Seq(GroupRule)]
  BY <1>0, OneGroup
<1>2. \A n \in 1 .. N : piece[n] = groupRule(sets, groups[n])
  OBVIOUS
<1> DEFINE u == CHOOSE h : h = [n \in 0 .. N |-> IF n = 0 THEN <<>>
                                             ELSE h[n - 1] \o groupRule(sets, groups[n])]
<1>3. groupRules(sets, groups) = u[N]
  BY DEF groupRules
<1> HIDE DEF N, piece
<1>4. \A h : Joins(h, N, piece) <=>
              h = [n \in 0 .. N |-> IF n = 0 THEN <<>> ELSE h[n - 1] \o groupRule(sets, groups[n])]
  <2> TAKE h
  <2>1. [n \in 0 .. N |-> IF n = 0 THEN <<>> ELSE h[n - 1] \o groupRule(sets, groups[n])]
        = [n \in 0 .. N |-> IF n = 0 THEN <<>> ELSE h[n - 1] \o piece[n]]
    BY <1>0, <1>2
  <2> QED BY <2>1 DEF Joins
<1>5. Joins(u, N, piece)
  <2>1. \E h : Joins(h, N, piece)
    BY <1>0, <1>1, JoinedUp
  <2>2. \E h : h = [n \in 0 .. N |-> IF n = 0 THEN <<>> ELSE h[n - 1] \o groupRule(sets, groups[n])]
    BY <1>4, <2>1
  <2>3. u = [n \in 0 .. N |-> IF n = 0 THEN <<>> ELSE u[n - 1] \o groupRule(sets, groups[n])]
    BY <2>2
  <2> HIDE DEF u
  <2> QED BY <1>4, <2>3
<1> HIDE DEF u
<1>6. /\ u \in [0 .. N -> Seq(GroupRule)] /\ u[0] = <<>>
      /\ \A n \in 1 .. N : u[n] = u[n - 1] \o piece[n]
  <2>1. JoinedFrom(u, GroupRule, N, piece)
    BY <1>0, <1>1, <1>5, JoinedUp
  <2> QED BY <2>1 DEF JoinedFrom
<1> QED BY <1>2, <1>3, <1>6 DEF N

\* The groups that claim a connection for themselves.
Claimants(sets, groups, c) ==
  {i \in 1 .. Len(groups) : groups[i].on /\ InGroup(Conds(sets, groups[i]), c)}
Foremost(i, M) == i \in M /\ \A j \in M : i <= j

\* Of the groups, the first one that claims a connection decides.
LEMMA GroupsDecide ==
  ASSUME NEW sets, NEW groups \in Seq(RuleGroups), NEW mode, NEW c
  PROVE  /\ groupRules(sets, groups) \in Seq(GroupRule)
         /\ Claimants(sets, groups, c) = {} => Silent(groupRules(sets, groups), mode, c)
         /\ \A i : Foremost(i, Claimants(sets, groups, c)) =>
              Decides(groupRules(sets, groups), mode, c, groups[i].out)
<1> DEFINE N == Len(groups)
<1> DEFINE M == Claimants(sets, groups, c)
<1>1. PICK f \in [0 .. N -> Seq(GroupRule)] :
        /\ f[0] = <<>>
        /\ \A n \in 1 .. N : f[n] = f[n - 1] \o groupRule(sets, groups[n])
        /\ groupRules(sets, groups) = f[N]
  BY GroupRulesAre
<1>2. N \in Nat /\ (\A n \in 1 .. N : groups[n] \in RuleGroups) /\ M \subseteq 1 .. N
  BY DEF Claimants
<1> HIDE DEF N, M
<1>3. \A n \in 1 .. N : n - 1 \in 0 .. N /\ f[n - 1] \in Seq(GroupRule)
  BY <1>2
<1>4. ASSUME NEW n \in 1 .. N
      PROVE  /\ groupRule(sets, groups[n]) \in Seq(GroupRule)
             /\ n \in M => Decides(groupRule(sets, groups[n]), mode, c, groups[n].out)
             /\ n \notin M => Silent(groupRule(sets, groups[n]), mode, c)
  <2>1. n \in M <=> groups[n].on /\ InGroup(Conds(sets, groups[n]), c)
    BY DEF Claimants, M, N
  <2> QED BY <1>2, <2>1, OneGroup
<1> DEFINE P == {n \in 0 .. N : (\A i \in M : i > n) => Silent(f[n], mode, c)}
<1>5. 0 .. N \subseteq P
  <2>1. 0 \in P
    BY <1>1, <1>2, NoneIsSilent
  <2>2. ASSUME NEW n \in 1 .. N, n - 1 \in P PROVE n \in P
    <3> SUFFICES ASSUME \A i \in M : i > n PROVE Silent(f[n], mode, c)
      BY <1>2
    <3>1. n \notin M /\ \A i \in M : i > n - 1
      BY <1>2
    <3>2. Silent(f[n - 1], mode, c)
      BY <2>2, <3>1
    <3>3. Silent(groupRule(sets, groups[n]), mode, c)
      BY <1>4, <3>1
    <3>4. f[n] = f[n - 1] \o groupRule(sets, groups[n])
      BY <1>1
    <3> QED BY <1>3, <1>4, <3>2, <3>3, <3>4, Joined
  <2> HIDE DEF P
  <2> QED BY <1>2, <2>1, <2>2, UpTo
<1>6. M = {} => Silent(f[N], mode, c)
  BY <1>2, <1>5
<1>7. ASSUME NEW i, Foremost(i, M) PROVE Decides(f[N], mode, c, groups[i].out)
  <2>0. i \in M /\ i \in 1 .. N /\ \A j \in M : i <= j
    BY <1>2, <1>7 DEF Foremost
  <2> DEFINE Q == {n \in 0 .. N : i <= n => Decides(f[n], mode, c, groups[i].out)}
  <2>1. 0 \in Q
    BY <1>2, <2>0
  <2>2. ASSUME NEW n \in 1 .. N, n - 1 \in Q PROVE n \in Q
    <3> SUFFICES ASSUME i <= n PROVE Decides(f[n], mode, c, groups[i].out)
      BY <1>2
    <3>1. f[n] = f[n - 1] \o groupRule(sets, groups[n])
      BY <1>1
    <3>2. CASE i = n
      <4>1. \A j \in M : j > n - 1
        BY <1>2, <2>0, <3>2
      <4>2. Silent(f[n - 1], mode, c)
        BY <1>3, <1>5, <4>1
      <4>3. Decides(groupRule(sets, groups[n]), mode, c, groups[i].out)
        BY <1>4, <2>0, <3>2
      <4> QED BY <1>3, <1>4, <3>1, <4>2, <4>3, Joined
    <3>3. CASE i # n
      <4>1. i <= n - 1
        BY <1>2, <2>0, <3>3
      <4>2. Decides(f[n - 1], mode, c, groups[i].out)
        BY <2>2, <4>1
      <4>3. Decides(f[n - 1] \o groupRule(sets, groups[n]), mode, c, groups[i].out)
        BY <1>3, <1>4, <4>2, Joined
      <4> QED BY <3>1, <4>3
    <3> QED BY <3>2, <3>3
  <2>3. 0 .. N \subseteq Q
    <3> HIDE DEF Q
    <3> QED BY <1>2, <2>1, <2>2, UpTo
  <2> QED BY <1>2, <2>0, <2>3
<1>8. f[N] \in Seq(GroupRule)
  BY <1>2
<1> QED BY <1>1, <1>6, <1>7, <1>8 DEF M, N

-----------------------------------------------------------------------------
\* The addresses a group lays down.
Addresses(s, g) ==
  (IF "ip" \in g.conds THEN Covers("ip") \X {4, 6} ELSE {})
  \cup (IF "geoip" \in g.conds THEN geoIPPrefixes(s, "geoip") ELSE {})

\* A group lays its addresses over what the later ones left, or nothing if it is off.
LEMMA OneLayer ==
  ASSUME NEW s, NEW g \in RuleGroups, NEW d, NEW a
  PROVE  a \in LayGroup(s, g, d) <=> IF g.on /\ a \in Addresses(s, g) THEN g.out = "direct" ELSE a \in d
BY DEF LayGroup, Lay, Addresses, RuleGroups

\* The layers, one on top of the other.
LEMMA LayersAre ==
  ASSUME NEW s, s.groups \in Seq(RuleGroups)
  PROVE  \E f : /\ f[0] = LayDefaults(s)
                /\ \A n \in 1 .. Len(s.groups) :
                     f[n] = LayGroup(s, s.groups[Len(s.groups) - n + 1], f[n - 1])
                /\ RuleGuard(s) = f[Len(s.groups)] \ Never(s)
<1> DEFINE N == Len(s.groups)
<1> DEFINE S == SUBSET (LayDefaults(s) \cup AddrFams)
<1> DEFINE step == [n \in 1 .. N |-> [d \in S |-> LayGroup(s, s.groups[N - n + 1], d)]]
<1> DEFINE u == CHOOSE h : h = [n \in 0 .. N |-> IF n = 0 THEN LayDefaults(s)
                                   ELSE LayGroup(s, s.groups[N - n + 1], h[n - 1])]
<1>1. RuleGuard(s) = u[N] \ Never(s)
  BY DEF RuleGuard
<1>2. LayDefaults(s) \in S /\ N \in Nat
  OBVIOUS
<1>3. ASSUME NEW n \in 1 .. N, NEW d \in S PROVE LayGroup(s, s.groups[N - n + 1], d) \in S
  <2>1. s.groups[N - n + 1] \in RuleGroups
    <3>1. N - n + 1 \in 1 .. N
      BY <1>2
    <3> QED BY <3>1
  <2>2. \A a \in LayGroup(s, s.groups[N - n + 1], d) : a \in d \/ a \in Addresses(s, s.groups[N - n + 1])
    BY <2>1, OneLayer
  <2>3. \A g : Addresses(s, g) \subseteq AddrFams
    BY DEF Addresses, geoIPPrefixes, AddrFams, Addrs, Covers
  <2> QED BY <2>2, <2>3
<1> HIDE DEF N, S
<1>4. step \in [1 .. N -> [S -> S]]
  BY <1>3
<1>5. \A n \in 1 .. N, d \in S : step[n][d] = LayGroup(s, s.groups[N - n + 1], d)
  OBVIOUS
<1> HIDE DEF step
<1>6. Recursive(S, LayDefaults(s), N, step)
  BY <1>2, <1>4, Recursion
<1>7. PICK f \in [0 .. N -> S] : f[0] = LayDefaults(s) /\ \A n \in 1 .. N : f[n] = step[n][f[n - 1]]
  BY <1>6 DEF Recursive
<1>8. 0 \in 0 .. N /\ \A n \in 1 .. N : n - 1 \in 0 .. N /\ n \in 0 .. N /\ n # 0
  BY <1>2
<1>9. \A n \in 0 .. N : n = 0 \/ n \in 1 .. N
  BY <1>2
<1>10. f = [n \in 0 .. N |-> IF n = 0 THEN LayDefaults(s)
                             ELSE LayGroup(s, s.groups[N - n + 1], f[n - 1])]
  BY <1>5, <1>7, <1>8, <1>9
<1>11. u = [n \in 0 .. N |-> IF n = 0 THEN LayDefaults(s)
                             ELSE LayGroup(s, s.groups[N - n + 1], u[n - 1])]
  BY <1>10
<1> HIDE DEF u
<1> DEFINE w == [n \in 0 .. N |-> IF n = 0 THEN LayDefaults(s)
                                  ELSE LayGroup(s, s.groups[N - n + 1], u[n - 1])]
<1>12. w[0] = LayDefaults(s) /\ \A n \in 1 .. N : w[n] = LayGroup(s, s.groups[N - n + 1], u[n - 1])
  BY <1>8
<1>13. u = w
  BY <1>11
<1> HIDE DEF w
<1> QED BY <1>1, <1>12, <1>13 DEF N

\* Of the layers over an address, the one of the first group shows.
LEMMA LayersMean ==
  ASSUME NEW s, s.groups \in Seq(RuleGroups), NEW a,
         NEW L, L = {i \in 1 .. Len(s.groups) : s.groups[i].on /\ a \in Addresses(s, s.groups[i])}
  PROVE  /\ L = {} => (a \in RuleGuard(s) <=> a \in LayDefaults(s) /\ a \notin Never(s))
         /\ \A i : Foremost(i, L) =>
              (a \in RuleGuard(s) <=> s.groups[i].out = "direct" /\ a \notin Never(s))
<1> DEFINE N == Len(s.groups)
<1>1. PICK f : /\ f[0] = LayDefaults(s)
               /\ \A n \in 1 .. N : f[n] = LayGroup(s, s.groups[N - n + 1], f[n - 1])
               /\ RuleGuard(s) = f[N] \ Never(s)
  BY LayersAre
<1>2. N \in Nat /\ L \subseteq 1 .. N
  OBVIOUS
<1>3. ASSUME NEW n \in 1 .. N
      PROVE  /\ N - n + 1 \in 1 .. N
             /\ a \in f[n] <=> IF N - n + 1 \in L THEN s.groups[N - n + 1].out = "direct"
                               ELSE a \in f[n - 1]
  <2>1. N - n + 1 \in 1 .. N
    BY <1>2
  <2>2. s.groups[N - n + 1] \in RuleGroups
    BY <2>1
  <2>3. f[n] = LayGroup(s, s.groups[N - n + 1], f[n - 1])
    BY <1>1
  <2>4. a \in f[n] <=> IF s.groups[N - n + 1].on /\ a \in Addresses(s, s.groups[N - n + 1])
                     THEN s.groups[N - n + 1].out = "direct" ELSE a \in f[n - 1]
    BY <2>2, <2>3, OneLayer
  <2> QED BY <2>1, <2>4
<1> HIDE DEF N
<1> DEFINE P == {n \in 0 .. N : (\A i \in L : i < N - n + 1) => (a \in f[n] <=> a \in LayDefaults(s))}
<1>4. 0 .. N \subseteq P
  <2>1. 0 \in P
    BY <1>1, <1>2
  <2>2. ASSUME NEW n \in 1 .. N, n - 1 \in P PROVE n \in P
    <3> SUFFICES ASSUME \A i \in L : i < N - n + 1 PROVE a \in f[n] <=> a \in LayDefaults(s)
      BY <1>2
    <3>1. N - n + 1 \notin L /\ \A i \in L : i < N - (n - 1) + 1
      BY <1>2
    <3> QED BY <1>3, <2>2, <3>1
  <2> HIDE DEF P
  <2> QED BY <1>2, <2>1, <2>2, UpTo
<1>5. L = {} => (a \in f[N] <=> a \in LayDefaults(s))
  BY <1>2, <1>4
<1>6. ASSUME NEW i, Foremost(i, L) PROVE a \in f[N] <=> s.groups[i].out = "direct"
  <2>0. i \in L /\ i \in 1 .. N /\ \A j \in L : i <= j
    BY <1>2, <1>6 DEF Foremost
  <2> DEFINE Q == {n \in 0 .. N : n >= N - i + 1 => (a \in f[n] <=> s.groups[i].out = "direct")}
  <2>1. 0 \in Q
    BY <1>2, <2>0
  <2>2. ASSUME NEW n \in 1 .. N, n - 1 \in Q PROVE n \in Q
    <3> SUFFICES ASSUME n >= N - i + 1 PROVE a \in f[n] <=> s.groups[i].out = "direct"
      BY <1>2
    <3>1. CASE n = N - i + 1
      <4>1. N - n + 1 = i
        BY <1>2, <2>0, <3>1
      <4> QED BY <1>3, <2>0, <4>1
    <3>2. CASE n # N - i + 1
      <4>1. n - 1 >= N - i + 1 /\ N - n + 1 < i
        BY <1>2, <2>0, <3>2
      <4>2. N - n + 1 \notin L
        BY <1>2, <2>0, <4>1
      <4> QED BY <1>3, <2>2, <4>1, <4>2
    <3> QED BY <3>1, <3>2
  <2>3. 0 .. N \subseteq Q
    <3> HIDE DEF Q
    <3> QED BY <1>2, <2>1, <2>2, UpTo
  <2>4. N \in Q /\ N >= N - i + 1
    BY <1>2, <2>0, <2>3
  <2> QED BY <2>4
<1> QED BY <1>1, <1>5, <1>6 DEF N

-----------------------------------------------------------------------------
\* Every rule there may be.
AllRules(s) ==
  GroupRule \cup
  {R("port53", {}, "hijack-dns"), R("v6", {}, "reject"), R("from", {"app"}, "direct"),
   R("from", {"devreject"}, "reject"), R("from", {"devdirect"}, "direct"),
   R("from", {"devproxy"}, "proxy"),
   R("node", IF s.mode = "global" /\ s.self THEN {"core"} ELSE {}, "direct"),
   R("lan", {"Global"}, "direct"), R("clash", {"Direct"}, "direct"), R("clash", {"Global"}, "proxy"),
   R("lan", {}, s.private), R("ads", {}, "reject"), R("cn", {}, s.cn), R("final", {}, s.final)}

\* What stands before the groups.
Beginning(s) ==
  <<R("port53", {}, "hijack-dns")>>
  \o When(~s.ipv6, <<R("v6", {}, "reject")>>)
  \o When(s.bypass /\ ~Strict(s), <<R("from", {"app"}, "direct")>>)
  \o deviceRules(s)
  \o nodeRules(s)
  \o When(s.lan, <<R("lan", {"Global"}, "direct")>>)
  \o <<R("clash", {"Direct"}, "direct"), R("clash", {"Global"}, "proxy")>>

\* A rule that is there on a condition.
LEMMA OnCondition ==
  ASSUME NEW T, NEW b, NEW r \in T, NEW mode, NEW c
  PROVE  /\ When(b, <<r>>) \in Seq(T)
         /\ b /\ RouteMatches(r, mode, c) => Decides(When(b, <<r>>), mode, c, r.out)
         /\ ~b \/ ~RouteMatches(r, mode, c) => Silent(When(b, <<r>>), mode, c)
<1>1. CASE b
  BY <1>1, Alone DEF When
<1>2. CASE ~b
  BY <1>2, NoneIsSilent DEF When
<1> QED BY <1>1, <1>2

\* What the beginning says of a connection of this computer, or of a device without a
\* policy, in rule mode.
BeginningSays(rules, s, c) ==
  /\ ~s.ipv6 /\ c.fam = 6 /\ ~c.named => Decides(rules, "Rule", c, "reject")
  /\ ~(~s.ipv6 /\ c.fam = 6 /\ ~c.named) =>
       IF c.addr = "node" /\ c.port = "web" THEN Decides(rules, "Rule", c, "direct")
       ELSE Silent(rules, "Rule", c)

\* What stands before the groups says of a connection in rule mode.
LEMMA BeginningIs ==
  ASSUME NEW s, s.mode = "rule", NEW c, c.port # "dns", c.from \in {"user", "dev"}
  PROVE  Beginning(s) \in Seq(AllRules(s)) /\ BeginningSays(Beginning(s), s, c)
<1> DEFINE T == AllRules(s)
<1> DEFINE a == <<R("port53", {}, "hijack-dns")>>
<1> DEFINE b == When(~s.ipv6, <<R("v6", {}, "reject")>>)
<1> DEFINE d == When(s.bypass /\ ~Strict(s), <<R("from", {"app"}, "direct")>>)
<1> DEFINE e1 == <<R("from", {"devreject"}, "reject")>>
<1> DEFINE e2 == When(~Strict(s), <<R("from", {"devdirect"}, "direct")>>)
<1> DEFINE e3 == <<R("from", {"devproxy"}, "proxy")>>
<1> DEFINE e == deviceRules(s)
<1> DEFINE f == nodeRules(s)
<1> DEFINE g == When(s.lan, <<R("lan", {"Global"}, "direct")>>)
<1> DEFINE h1 == <<R("clash", {"Direct"}, "direct")>>
<1> DEFINE h2 == <<R("clash", {"Global"}, "proxy")>>
<1> DEFINE h == <<R("clash", {"Direct"}, "direct"), R("clash", {"Global"}, "proxy")>>
<1> DEFINE v6 == ~s.ipv6 /\ c.fam = 6 /\ ~c.named
<1> DEFINE node == c.addr = "node" /\ c.port = "web"
<1> DEFINE Quiet(rules) == rules \in Seq(T) /\ Silent(rules, "Rule", c)
<1>1. Quiet(a)
  <2>1. R("port53", {}, "hijack-dns") \in T /\ ~RouteMatches(R("port53", {}, "hijack-dns"), "Rule", c)
    BY DEF AllRules, RouteMatches, R
  <2> HIDE DEF T
  <2> QED BY <2>1, Alone
<1>2. b \in Seq(T) /\ (v6 => Decides(b, "Rule", c, "reject")) /\ (~v6 => Silent(b, "Rule", c))
  <2> DEFINE r == R("v6", {}, "reject")
  <2>1. r \in T /\ (RouteMatches(r, "Rule", c) <=> c.fam = 6 /\ ~c.named) /\ r.out = "reject"
    BY DEF AllRules, RouteMatches, R
  <2> HIDE DEF T, r
  <2> QED BY <2>1, OnCondition DEF r
<1>3. Quiet(d)
  <2> DEFINE r == R("from", {"app"}, "direct")
  <2>1. r \in T /\ ~RouteMatches(r, "Rule", c)
    BY DEF AllRules, RouteMatches, R
  <2> HIDE DEF T, r
  <2> QED BY <2>1, OnCondition DEF r
<1>4. Quiet(e)
  <2>1. Quiet(e1)
    <3>1. R("from", {"devreject"}, "reject") \in T /\ ~RouteMatches(R("from", {"devreject"}, "reject"), "Rule", c)
      BY DEF AllRules, RouteMatches, R
    <3> HIDE DEF T
    <3> QED BY <3>1, Alone
  <2>2. Quiet(e2)
    <3> DEFINE r == R("from", {"devdirect"}, "direct")
    <3>1. r \in T /\ ~RouteMatches(r, "Rule", c)
      BY DEF AllRules, RouteMatches, R
    <3> HIDE DEF T, r
    <3> QED BY <3>1, OnCondition DEF r
  <2>3. Quiet(e3)
    <3>1. R("from", {"devproxy"}, "proxy") \in T /\ ~RouteMatches(R("from", {"devproxy"}, "proxy"), "Rule", c)
      BY DEF AllRules, RouteMatches, R
    <3> HIDE DEF T
    <3> QED BY <3>1, Alone
  <2>4. e = IF s.gateway THEN e1 \o e2 \o e3 ELSE <<>>
    BY DEF deviceRules, When
  <2> HIDE DEF T, e, e1, e2, e3
  <2>5. Quiet(e1 \o e2)
    BY <2>1, <2>2, Joined
  <2>6. Quiet(e1 \o e2 \o e3)
    BY <2>3, <2>5, Joined
  <2>7. Quiet(<<>>)
    BY NoneIsSilent
  <2> QED BY <2>4, <2>6, <2>7
<1>5. f \in Seq(T) /\ (node => Decides(f, "Rule", c, "direct")) /\ (~node => Silent(f, "Rule", c))
  <2> DEFINE r == R("node", {}, "direct")
  <2>1. r \in T /\ (RouteMatches(r, "Rule", c) <=> node) /\ r.out = "direct"
    BY DEF AllRules, RouteMatches, R
  <2>2. f = <<r>>
    BY DEF nodeRules
  <2> HIDE DEF T, r, f
  <2> QED BY <2>1, <2>2, Alone
<1>6. Quiet(g)
  <2> DEFINE r == R("lan", {"Global"}, "direct")
  <2>1. r \in T /\ ~RouteMatches(r, "Rule", c)
    BY DEF AllRules, RouteMatches, R
  <2> HIDE DEF T, r
  <2> QED BY <2>1, OnCondition DEF r
<1>7. Quiet(h)
  <2> DEFINE r == R("clash", {"Direct"}, "direct")
  <2> DEFINE q == R("clash", {"Global"}, "proxy")
  <2>1. r \in T /\ q \in T /\ ~RouteMatches(r, "Rule", c) /\ ~RouteMatches(q, "Rule", c)
    BY DEF AllRules, RouteMatches, R
  <2>2. h = <<r, q>>
    OBVIOUS
  <2> HIDE DEF T, r, q, h
  <2> QED BY <2>1, <2>2 DEF Silent
<1>8. Beginning(s) = a \o b \o d \o e \o f \o g \o h
  BY DEF Beginning
<1> HIDE DEF T, a, b, d, e, f, g, h, node
<1>9. /\ a \o b \in Seq(T)
      /\ (v6 => Decides(a \o b, "Rule", c, "reject")) /\ (~v6 => Silent(a \o b, "Rule", c))
  BY <1>1, <1>2, Joined
<1>10. /\ a \o b \o d \in Seq(T)
       /\ (v6 => Decides(a \o b \o d, "Rule", c, "reject")) /\ (~v6 => Silent(a \o b \o d, "Rule", c))
  BY <1>3, <1>9, Joined
<1>11. /\ a \o b \o d \o e \in Seq(T)
       /\ (v6 => Decides(a \o b \o d \o e, "Rule", c, "reject"))
       /\ (~v6 => Silent(a \o b \o d \o e, "Rule", c))
  BY <1>4, <1>10, Joined
<1> DEFINE Says(rules) ==
      /\ rules \in Seq(T) /\ (v6 => Decides(rules, "Rule", c, "reject"))
      /\ ~v6 => /\ node => Decides(rules, "Rule", c, "direct")
                /\ ~node => Silent(rules, "Rule", c)
<1>12. Says(a \o b \o d \o e \o f)
  BY <1>5, <1>11, Joined
<1>13. Says(a \o b \o d \o e \o f \o g)
  BY <1>6, <1>12, Joined
<1>14. Says(a \o b \o d \o e \o f \o g \o h)
  BY <1>7, <1>13, Joined
<1> QED BY <1>8, <1>14 DEF BeginningSays, T, node

\* What the default rules, behind the groups, say of it.
Default(s, c) ==
  IF c.addr = "lan" THEN s.private
  ELSE IF c.addr = "ads" /\ s.ads /\ s.sets THEN "reject"
  ELSE IF c.addr \in {"cn", "cnpart"} /\ s.sets THEN s.cn
  ELSE s.final

\* Rules joined, where the second piece decides in any case.
LEMMA JoinedLast ==
  ASSUME NEW T, NEW a \in Seq(T), NEW b \in Seq(T), NEW mode, NEW c, NEW out,
         Decides(a, mode, c, out) \/ (Silent(a, mode, c) /\ Decides(b, mode, c, out))
  PROVE  a \o b \in Seq(T) /\ Decides(a \o b, mode, c, out)
BY Joined

\* The whole configuration, in rule mode: IPv6 that is off, the nodes, then the first group
\* with a claim, then the default rules.
LEMMA RuleRoute ==
  ASSUME NEW s \in RouteSettings, s.mode = "rule",
         NEW c, c.port # "dns", c.from \in {"user", "dev"},
         NEW out,
         \/ ~s.ipv6 /\ c.fam = 6 /\ ~c.named /\ out = "reject"
         \/ /\ ~(~s.ipv6 /\ c.fam = 6 /\ ~c.named)
            /\ \/ c.addr = "node" /\ c.port = "web" /\ out = "direct"
               \/ /\ ~(c.addr = "node" /\ c.port = "web")
                  /\ \/ Claimants(s.sets, s.groups, c) = {} /\ out = Default(s, c)
                     \/ \E i : Foremost(i, Claimants(s.sets, s.groups, c)) /\ out = s.groups[i].out
  PROVE  Route(buildConfig(s), "Rule", c) = out
<1> DEFINE T == AllRules(s)
<1> DEFINE p == Beginning(s)
<1> DEFINE G == groupRules(s.sets, s.groups)
<1> DEFINE rl == R("lan", {}, s.private)
<1> DEFINE ra == R("ads", {}, "reject")
<1> DEFINE rc == R("cn", {}, s.cn)
<1> DEFINE rf == R("final", {}, s.final)
<1>0. s.groups \in Seq(RuleGroups)
  BY RouteConstants DEF RouteSettings
<1>1. buildConfig(s) = p \o G \o <<rl>> \o When(s.ads /\ s.sets, <<ra>>) \o When(s.sets, <<rc>>) \o <<rf>>
  BY DEF buildConfig, Beginning
<1>2. p \in Seq(T) /\ BeginningSays(p, s, c)
  BY BeginningIs
<1>3. /\ G \in Seq(T)
      /\ Claimants(s.sets, s.groups, c) = {} => Silent(G, "Rule", c)
      /\ \A i : Foremost(i, Claimants(s.sets, s.groups, c)) => Decides(G, "Rule", c, s.groups[i].out)
  <2>1. GroupRule \subseteq T
    BY DEF AllRules
  <2>2. G \in Seq(GroupRule)
    BY <1>0, GroupsDecide
  <2>3. G \in Seq(T)
    BY <2>1, <2>2, SeqMonotonic
  <2> QED BY <1>0, <2>3, GroupsDecide
<1>4. /\ rl \in T /\ ra \in T /\ rc \in T /\ rf \in T
      /\ rl.out = s.private /\ ra.out = "reject" /\ rc.out = s.cn /\ rf.out = s.final
      /\ RouteMatches(rl, "Rule", c) <=> c.addr = "lan"
      /\ RouteMatches(ra, "Rule", c) <=> c.addr = "ads"
      /\ RouteMatches(rc, "Rule", c) <=> c.addr \in {"cn", "cnpart"}
      /\ RouteMatches(rf, "Rule", c)
  BY DEF AllRules, RouteMatches, R, lanDest
<1> HIDE DEF T, p, G, rl, ra, rc, rf
<1> DEFINE l == <<rl>>
<1> DEFINE m == When(s.ads /\ s.sets, <<ra>>)
<1> DEFINE n == When(s.sets, <<rc>>)
<1> DEFINE f == <<rf>>
<1>5. /\ l \in Seq(T) /\ (c.addr = "lan" => Decides(l, "Rule", c, s.private))
      /\ c.addr # "lan" => Silent(l, "Rule", c)
  BY <1>4, Alone
<1>6. /\ m \in Seq(T) /\ (c.addr = "ads" /\ s.ads /\ s.sets => Decides(m, "Rule", c, "reject"))
      /\ ~(c.addr = "ads" /\ s.ads /\ s.sets) => Silent(m, "Rule", c)
  BY <1>4, OnCondition
<1>7. /\ n \in Seq(T) /\ (c.addr \in {"cn", "cnpart"} /\ s.sets => Decides(n, "Rule", c, s.cn))
      /\ ~(c.addr \in {"cn", "cnpart"} /\ s.sets) => Silent(n, "Rule", c)
  BY <1>4, OnCondition
<1>8. f \in Seq(T) /\ Decides(f, "Rule", c, s.final)
  BY <1>4, Alone
<1> HIDE DEF l, m, n, f
<1>9. buildConfig(s) = p \o G \o l \o m \o n \o f
  BY <1>1 DEF l, m, n, f
<1>10. Decides(p \o G, "Rule", c, out) \/ (Silent(p \o G, "Rule", c) /\ out = Default(s, c))
  <2>1. CASE ~s.ipv6 /\ c.fam = 6 /\ ~c.named /\ out = "reject"
    <3>1. Decides(p, "Rule", c, out)
      BY <1>2, <2>1 DEF BeginningSays
    <3> QED BY <1>2, <1>3, <3>1, Joined
  <2>2. CASE /\ ~(~s.ipv6 /\ c.fam = 6 /\ ~c.named)
             /\ c.addr = "node" /\ c.port = "web" /\ out = "direct"
    <3>1. Decides(p, "Rule", c, out)
      BY <1>2, <2>2 DEF BeginningSays
    <3> QED BY <1>2, <1>3, <3>1, Joined
  <2>3. CASE /\ ~(~s.ipv6 /\ c.fam = 6 /\ ~c.named) /\ ~(c.addr = "node" /\ c.port = "web")
             /\ \/ Claimants(s.sets, s.groups, c) = {} /\ out = Default(s, c)
                \/ \E i : Foremost(i, Claimants(s.sets, s.groups, c)) /\ out = s.groups[i].out
    <3>1. Silent(p, "Rule", c)
      BY <1>2, <2>3 DEF BeginningSays
    <3>2. CASE Claimants(s.sets, s.groups, c) = {} /\ out = Default(s, c)
      BY <1>2, <1>3, <3>1, <3>2, Joined
    <3>3. CASE \E i : Foremost(i, Claimants(s.sets, s.groups, c)) /\ out = s.groups[i].out
      <4>1. Decides(G, "Rule", c, out)
        BY <1>3, <3>3
      <4> QED BY <1>2, <1>3, <3>1, <4>1, Joined
    <3> QED BY <2>3, <3>2, <3>3
  <2> QED BY <2>1, <2>2, <2>3
<1>11. Route(buildConfig(s), "Rule", c) = out
  <2>0. p \o G \in Seq(T)
    BY <1>2, <1>3, Joined
  <2> DEFINE x == p \o G
  <2> HIDE DEF x
  <2>1. x \in Seq(T) /\ (Decides(x, "Rule", c, out) \/ (Silent(x, "Rule", c) /\ out = Default(s, c)))
    BY <1>10, <2>0 DEF x
  <2>2. /\ x \o l \in Seq(T)
        /\ \/ Decides(x \o l, "Rule", c, out)
           \/ Silent(x \o l, "Rule", c) /\ out = Default(s, c) /\ c.addr # "lan"
    BY <1>5, <2>1, Joined DEF Default
  <2>3. /\ x \o l \o m \in Seq(T)
        /\ \/ Decides(x \o l \o m, "Rule", c, out)
           \/ /\ Silent(x \o l \o m, "Rule", c) /\ out = Default(s, c) /\ c.addr # "lan"
              /\ ~(c.addr = "ads" /\ s.ads /\ s.sets)
    BY <1>6, <2>2, Joined DEF Default
  <2>4. /\ x \o l \o m \o n \in Seq(T)
        /\ \/ Decides(x \o l \o m \o n, "Rule", c, out)
           \/ Silent(x \o l \o m \o n, "Rule", c) /\ out = s.final
    BY <1>7, <2>3, Joined DEF Default
  <2>5. x \o l \o m \o n \o f \in Seq(T) /\ Decides(x \o l \o m \o n \o f, "Rule", c, out)
    BY <1>8, <2>4, JoinedLast
  <2> QED BY <1>9, <2>5, DecidesRoute DEF x
<1> QED BY <1>11

-----------------------------------------------------------------------------
\* A connection by literal address, not from this computer's own process rules.
Plain(s, c) ==
  ~c.named /\ c.port # "dns" /\ c.from \in {"user", "dev"} /\ Seen(s, c)

\* Such a connection is claimed by a group for its address or for its port.
LEMMA ClaimedBy ==
  ASSUME NEW s, s.sets \in BOOLEAN, NEW g \in RuleGroups,
         NEW c \in Connections, ~c.named, c.from \in {"user", "dev"}
  PROVE  InGroup(Conds(s.sets, g), c) <=>
           <<c.addr, c.fam>> \in Addresses(s, g) \/ ("port" \in g.conds /\ c.port = "game")
<1>1. c.fam \in {4, 6}
  BY DEF Connections
<1>2. g.conds \subseteq Kinds
  BY DEF RuleGroups, Kinds
<1>3. InGroup(Conds(s.sets, g), c) <=>
        \/ "ip" \in g.conds /\ c.addr \in Covers("ip")
        \/ "geoip" \in g.conds /\ s.sets /\ c.addr \in Covers("geoip")
        \/ "port" \in g.conds /\ c.port = "game"
  BY <1>2 DEF InGroup, Conds, Kinds
<1>4. <<c.addr, c.fam>> \in Addresses(s, g) <=>
        \/ "ip" \in g.conds /\ c.addr \in Covers("ip")
        \/ "geoip" \in g.conds /\ s.sets /\ c.addr \in Covers("geoip")
  <2>1. geoIPPrefixes(s, "geoip") = IF s.sets THEN Covers("geoip") \X {4, 6} ELSE {}
    BY DEF geoIPPrefixes
  <2>2. \A S : <<c.addr, c.fam>> \in S \X {4, 6} <=> c.addr \in S
    BY <1>1
  <2> QED BY <2>1, <2>2 DEF Addresses
<1> QED BY <1>3, <1>4

\* The bottom of the layers says what the default rules say.
LEMMA DefaultsLaid ==
  ASSUME NEW s \in RouteSettings, NEW c \in Connections, ~c.named
  PROVE  <<c.addr, c.fam>> \in LayDefaults(s) <=> Default(s, c) = "direct"
<1>1. c.fam \in {4, 6} /\ c.addr \in Addrs /\ c.addr # "ads" /\ c.addr # "fake"
  BY DEF Connections
<1>2. \A S : <<c.addr, c.fam>> \in S \X {4, 6} <=> c.addr \in S
  BY <1>1
<1>3. <<c.addr, c.fam>> \in AddrFams
  BY <1>1 DEF AddrFams
<1>4. <<c.addr, c.fam>> \in geoIPPrefixes(s, "cn") <=> s.sets /\ c.addr \in {"cn", "cnpart"}
  BY <1>1, <1>2 DEF geoIPPrefixes
<1> DEFINE d1 == IF s.final = "direct" THEN AddrFams ELSE {}
<1> DEFINE d2 == Lay(d1, s.cn, geoIPPrefixes(s, "cn"))
<1>5. <<c.addr, c.fam>> \in d1 <=> s.final = "direct"
  BY <1>3
<1> HIDE DEF d1
<1>6. <<c.addr, c.fam>> \in d2 <=>
        IF s.sets /\ c.addr \in {"cn", "cnpart"} THEN s.cn = "direct" ELSE s.final = "direct"
  BY <1>4, <1>5 DEF Lay
<1> HIDE DEF d2
<1>7. LayDefaults(s) = Lay(d2, s.private, {"lan"} \X {4, 6})
  BY DEF LayDefaults, d2, d1
<1>8. <<c.addr, c.fam>> \in {"lan"} \X {4, 6} <=> c.addr = "lan"
  BY <1>2
<1> QED BY <1>1, <1>6, <1>7, <1>8 DEF Lay, Default

\* What no rule can let out.
LEMMA NeverIs ==
  ASSUME NEW s \in RouteSettings, NEW c \in Connections
  PROVE  <<c.addr, c.fam>> \in Never(s) <=> ~s.ipv6 /\ c.fam = 6
<1>1. c.fam \in {4, 6} /\ c.addr \in Addrs /\ c.addr # "fake" /\ s.ipv6 \in BOOLEAN
  BY DEF Connections, RouteSettings
<1> QED BY <1>1 DEF Never

\* The groups with a rule on ports that does not send direct.
LEMMA TunnelPortsAre ==
  ASSUME NEW s, s.groups \in Seq(RuleGroups)
  PROVE  "game" \in TunnelPorts(s) <=>
           \E i \in 1 .. Len(s.groups) :
             s.groups[i].on /\ s.groups[i].out # "direct" /\ "port" \in s.groups[i].conds
<1>1. ToSet(s.groups) = {s.groups[i] : i \in 1 .. Len(s.groups)}
  BY DEF ToSet
<1> QED BY <1>1 DEF TunnelPorts

\* What the firewall lets out, the rules send direct; and, without a rule on ports, the
\* other way round: for settings with any list of groups.
LEMMA FallbackSame ==
  ASSUME NEW s \in RouteSettings, s.mode = "rule", NEW c \in Connections, Plain(s, c)
  PROVE  /\ <<c.addr, c.fam>> \in RuleGuard(s) /\ c.port \notin TunnelPorts(s) =>
              Route(buildConfig(s), "Rule", c) = "direct"
         /\ (\A g \in ToSet(s.groups) : "port" \notin g.conds) /\ c.addr # "node" =>
              (Route(buildConfig(s), "Rule", c) = "direct" => <<c.addr, c.fam>> \in RuleGuard(s))
<1> DEFINE N == Len(s.groups)
<1> DEFINE a == <<c.addr, c.fam>>
<1> DEFINE M == Claimants(s.sets, s.groups, c)
<1> DEFINE L == {i \in 1 .. N : s.groups[i].on /\ a \in Addresses(s, s.groups[i])}
<1>0. /\ s.groups \in Seq(RuleGroups) /\ s.sets \in BOOLEAN /\ s.ipv6 \in BOOLEAN
      /\ ~c.named /\ c.port # "dns" /\ c.from \in {"user", "dev"} /\ c.port \in {"web", "game"}
  BY RouteConstants DEF RouteSettings, Plain, Connections
<1>1. N \in Nat /\ \A i \in 1 .. N : s.groups[i] \in RuleGroups
  BY <1>0
<1>2. \A i \in 1 .. N :
        i \in M <=> s.groups[i].on /\ (i \in L \/ ("port" \in s.groups[i].conds /\ c.port = "game"))
  BY <1>0, <1>1, ClaimedBy DEF Claimants
<1>3. L \subseteq M /\ M \subseteq 1 .. N
  BY <1>2 DEF Claimants
<1>4. /\ L = {} => (a \in RuleGuard(s) <=> a \in LayDefaults(s) /\ a \notin Never(s))
      /\ \A i : Foremost(i, L) => (a \in RuleGuard(s) <=> s.groups[i].out = "direct" /\ a \notin Never(s))
  BY <1>0, LayersMean
<1>5. a \in LayDefaults(s) <=> Default(s, c) = "direct"
  BY <1>0, DefaultsLaid
<1>6. a \in Never(s) <=> ~s.ipv6 /\ c.fam = 6
  BY NeverIs
<1>7. (\E i \in 1 .. N : s.groups[i].on /\ s.groups[i].out # "direct" /\ "port" \in s.groups[i].conds)
        => "game" \in TunnelPorts(s)
  BY <1>0, TunnelPortsAre
<1>8. (\A g \in ToSet(s.groups) : "port" \notin g.conds) => \A i \in 1 .. N : "port" \notin s.groups[i].conds
  BY DEF ToSet
<1>9. ASSUME NEW S \in SUBSET (1 .. N), S # {} PROVE \E i : Foremost(i, S)
  <2>1. S \in SUBSET Nat
    BY <1>1
  <2> QED BY <1>9, <2>1, LeastOf DEF Foremost
<1> HIDE DEF N, L, M
<1>10. L \in SUBSET (1 .. N) /\ M \in SUBSET (1 .. N)
  BY <1>3
<1>11. CASE ~s.ipv6 /\ c.fam = 6
  <2>1. a \notin RuleGuard(s)
    BY <1>4, <1>6, <1>9, <1>10, <1>11
  <2>2. Route(buildConfig(s), "Rule", c) = "reject"
    BY <1>0, <1>11, RuleRoute
  <2> QED BY <2>1, <2>2
<1>12. CASE ~(~s.ipv6 /\ c.fam = 6) /\ c.addr = "node" /\ c.port = "web"
  <2>1. Route(buildConfig(s), "Rule", c) = "direct"
    BY <1>0, <1>12, RuleRoute
  <2> QED BY <1>12, <2>1
<1>13. CASE ~(~s.ipv6 /\ c.fam = 6) /\ ~(c.addr = "node" /\ c.port = "web") /\ M = {}
  <2>1. Route(buildConfig(s), "Rule", c) = Default(s, c)
    BY <1>0, <1>13, RuleRoute DEF M
  <2>2. a \in RuleGuard(s) <=> Default(s, c) = "direct"
    BY <1>3, <1>4, <1>5, <1>6, <1>13
  <2> QED BY <2>1, <2>2
<1>14. CASE ~(~s.ipv6 /\ c.fam = 6) /\ ~(c.addr = "node" /\ c.port = "web") /\ M # {}
  <2>1. PICK i : Foremost(i, M)
    BY <1>9, <1>10, <1>14
  <2>2. Route(buildConfig(s), "Rule", c) = s.groups[i].out
    BY <1>0, <1>14, <2>1, RuleRoute DEF M
  <2>3. CASE i \in L
    <3>1. Foremost(i, L)
      BY <1>3, <2>1, <2>3 DEF Foremost
    <3>2. a \in RuleGuard(s) <=> s.groups[i].out = "direct"
      BY <1>4, <1>6, <1>14, <3>1
    <3> QED BY <2>2, <3>2
  <2>4. CASE i \notin L
    <3>1. i \in 1 .. N /\ s.groups[i].on /\ "port" \in s.groups[i].conds /\ c.port = "game"
      BY <1>2, <1>10, <2>1, <2>4 DEF Foremost
    <3>2. c.port \notin TunnelPorts(s) => s.groups[i].out = "direct"
      BY <1>7, <3>1
    <3> QED BY <1>8, <2>2, <3>1, <3>2
  <2> QED BY <2>3, <2>4
<1> QED BY <1>11, <1>12, <1>13, <1>14

-----------------------------------------------------------------------------
\* The DNS rules of the groups: never the server outside the tunnel.
GroupDNSRule ==
  [mode : {"Rule"}, conds : SUBSET Kinds, skip : SUBSET Kinds, types : SUBSET AnyType,
   server : {"reject", "fakeip", "remote"}]

\* The rule that sends a group's names through the tunnel.
ThroughTunnel(sets, groups, i) ==
  D("Rule", groupDomainConds(sets, groups[i]), directConds(sets, groups, i), AnyType, "remote")

\* A group for the proxy sends its names through the tunnel; none asks outside it.
LEMMA OneGroupDNS ==
  ASSUME NEW sets, NEW ipv6, NEW groups \in Seq(RuleGroups), NEW i \in 1 .. Len(groups)
  PROVE  /\ groupDNSRules(sets, ipv6, groups, i) \in Seq(GroupDNSRule)
         /\ groups[i].on /\ groups[i].out = "proxy" /\ groupDomainConds(sets, groups[i]) # {} =>
              \E k \in 1 .. Len(groupDNSRules(sets, ipv6, groups, i)) :
                groupDNSRules(sets, ipv6, groups, i)[k] = ThroughTunnel(sets, groups, i)
<1> DEFINE g == groups[i]
<1> DEFINE conds == groupDomainConds(sets, g)
<1> DEFINE skip == directConds(sets, groups, i)
<1> DEFINE rj == D("Rule", conds, skip, AnyType, "reject")
<1> DEFINE fk == D("Rule", conds, skip, FakeTypes(ipv6), "fakeip")
<1> DEFINE rm == D("Rule", conds, skip, AnyType, "remote")
<1>1. conds \in SUBSET Kinds /\ skip \in SUBSET Kinds /\ FakeTypes(ipv6) \in SUBSET AnyType
  BY DEF groupDomainConds, directConds, Kinds, FakeTypes, AnyType
<1>2. groupDNSRules(sets, ipv6, groups, i) =
        IF ~g.on \/ g.out = "direct" \/ conds = {} THEN <<>>
        ELSE IF g.out = "reject" THEN <<rj>> ELSE <<fk, rm>>
  BY DEF groupDNSRules
<1>3. ThroughTunnel(sets, groups, i) = rm
  BY DEF ThroughTunnel
<1> HIDE DEF conds, skip
<1>4. rj \in GroupDNSRule /\ fk \in GroupDNSRule /\ rm \in GroupDNSRule
  <2>1. AnyType \in SUBSET AnyType
    OBVIOUS
  <2>2. \A t \in SUBSET AnyType, v \in {"reject", "fakeip", "remote"} :
          D("Rule", conds, skip, t, v) \in GroupDNSRule
    <3> HIDE DEF AnyType
    <3> QED BY <1>1 DEF GroupDNSRule, D
  <2> QED BY <1>1, <2>1, <2>2
<1> HIDE DEF g, rj, fk, rm
<1>5. <<>> \in Seq(GroupDNSRule) /\ <<rj>> \in Seq(GroupDNSRule) /\ <<fk, rm>> \in Seq(GroupDNSRule)
  BY <1>4
<1>6. groupDNSRules(sets, ipv6, groups, i) \in Seq(GroupDNSRule)
  BY <1>2, <1>5
<1>7. ASSUME g.on, g.out = "proxy", conds # {}
      PROVE  \E k \in 1 .. Len(groupDNSRules(sets, ipv6, groups, i)) :
               groupDNSRules(sets, ipv6, groups, i)[k] = rm
  <2>1. groupDNSRules(sets, ipv6, groups, i) = <<fk, rm>>
    BY <1>2, <1>7
  <2>2. 2 \in 1 .. Len(<<fk, rm>>) /\ <<fk, rm>>[2] = rm
    OBVIOUS
  <2> QED BY <2>1, <2>2
<1> QED BY <1>3, <1>6, <1>7 DEF g, conds

\* The DNS rules of a list of groups, one group after the other.
LEMMA GroupsDNSRulesAre ==
  ASSUME NEW sets, NEW ipv6, NEW groups \in Seq(RuleGroups)
  PROVE  \E f \in [0 .. Len(groups) -> Seq(GroupDNSRule)] :
           /\ f[0] = <<>>
           /\ \A n \in 1 .. Len(groups) : f[n] = f[n - 1] \o groupDNSRules(sets, ipv6, groups, n)
           /\ groupsDNSRules(sets, ipv6, groups) = f[Len(groups)]
<1> DEFINE N == Len(groups)
<1> DEFINE piece == [n \in 1 .. N |-> groupDNSRules(sets, ipv6, groups, n)]
<1>0. N \in Nat
  OBVIOUS
<1>1. piece \in [1 .. N -> Seq(GroupDNSRule)]
  BY <1>0, OneGroupDNS
<1>2. \A n \in 1 .. N : piece[n] = groupDNSRules(sets, ipv6, groups, n)
  OBVIOUS
<1> DEFINE u == CHOOSE h : h = [n \in 0 .. N |-> IF n = 0 THEN <<>>
                                   ELSE h[n - 1] \o groupDNSRules(sets, ipv6, groups, n)]
<1>3. groupsDNSRules(sets, ipv6, groups) = u[N]
  BY DEF groupsDNSRules
<1> HIDE DEF N, piece
<1>4. \A h : Joins(h, N, piece) <=>
               h = [n \in 0 .. N |-> IF n = 0 THEN <<>>
                                     ELSE h[n - 1] \o groupDNSRules(sets, ipv6, groups, n)]
  <2> TAKE h
  <2>1. [n \in 0 .. N |-> IF n = 0 THEN <<>> ELSE h[n - 1] \o groupDNSRules(sets, ipv6, groups, n)]
        = [n \in 0 .. N |-> IF n = 0 THEN <<>> ELSE h[n - 1] \o piece[n]]
    BY <1>0, <1>2
  <2> QED BY <2>1 DEF Joins
<1>5. Joins(u, N, piece)
  <2>1. \E h : Joins(h, N, piece)
    BY <1>0, <1>1, JoinedUp
  <2>2. \E h : h = [n \in 0 .. N |-> IF n = 0 THEN <<>>
                                     ELSE h[n - 1] \o groupDNSRules(sets, ipv6, groups, n)]
    BY <1>4, <2>1
  <2>3. u = [n \in 0 .. N |-> IF n = 0 THEN <<>>
                              ELSE u[n - 1] \o groupDNSRules(sets, ipv6, groups, n)]
    BY <2>2
  <2> HIDE DEF u
  <2> QED BY <1>4, <2>3
<1> HIDE DEF u
<1>6. /\ u \in [0 .. N -> Seq(GroupDNSRule)] /\ u[0] = <<>>
      /\ \A n \in 1 .. N : u[n] = u[n - 1] \o piece[n]
  <2>1. JoinedFrom(u, GroupDNSRule, N, piece)
    BY <1>0, <1>1, <1>5, JoinedUp
  <2> QED BY <2>1 DEF JoinedFrom
<1> QED BY <1>2, <1>3, <1>6 DEF N

\* Every group for the proxy has the rule that sends its names through the tunnel.
LEMMA GroupsDNS ==
  ASSUME NEW sets, NEW ipv6, NEW groups \in Seq(RuleGroups)
  PROVE  /\ groupsDNSRules(sets, ipv6, groups) \in Seq(GroupDNSRule)
         /\ \A i \in 1 .. Len(groups) :
              groups[i].on /\ groups[i].out = "proxy" /\ groupDomainConds(sets, groups[i]) # {} =>
                \E k \in 1 .. Len(groupsDNSRules(sets, ipv6, groups)) :
                  groupsDNSRules(sets, ipv6, groups)[k] = ThroughTunnel(sets, groups, i)
<1> DEFINE N == Len(groups)
<1> DEFINE piece(n) == groupDNSRules(sets, ipv6, groups, n)
<1>1. PICK f \in [0 .. N -> Seq(GroupDNSRule)] :
        /\ f[0] = <<>> /\ \A n \in 1 .. N : f[n] = f[n - 1] \o piece(n)
        /\ groupsDNSRules(sets, ipv6, groups) = f[N]
  BY GroupsDNSRulesAre
<1>2. N \in Nat
  OBVIOUS
<1>3. \A n \in 1 .. N : piece(n) \in Seq(GroupDNSRule)
  BY OneGroupDNS
<1>4. ASSUME NEW i \in 1 .. N, groups[i].on, groups[i].out = "proxy",
             groupDomainConds(sets, groups[i]) # {}
      PROVE  \E k \in 1 .. Len(f[N]) : f[N][k] = ThroughTunnel(sets, groups, i)
  <2> DEFINE r == ThroughTunnel(sets, groups, i)
  <2>1. \E k \in 1 .. Len(piece(i)) : piece(i)[k] = r
    BY <1>4, OneGroupDNS
  <2> HIDE DEF N, piece, r
  <2> DEFINE P == {n \in 0 .. N : i <= n => \E k \in 1 .. Len(f[n]) : f[n][k] = r}
  <2>2. 0 \in P
    BY <1>2
  <2>3. ASSUME NEW n \in 1 .. N, n - 1 \in P PROVE n \in P
    <3> SUFFICES ASSUME i <= n PROVE \E k \in 1 .. Len(f[n]) : f[n][k] = r
      BY <1>2
    <3> DEFINE a == f[n - 1]
    <3> DEFINE b == piece(n)
    <3>0. n - 1 \in 0 .. N
      BY <1>2
    <3>1. a \in Seq(GroupDNSRule) /\ b \in Seq(GroupDNSRule) /\ f[n] = a \o b
      BY <1>1, <1>3, <3>0
    <3>2. (\E k \in 1 .. Len(a) : a[k] = r) \/ (\E k \in 1 .. Len(b) : b[k] = r)
      <4>1. CASE i = n
        BY <2>1, <4>1
      <4>2. CASE i # n
        <5>1. i <= n - 1
          BY <1>2, <4>2
        <5> QED BY <2>3, <5>1
      <4> QED BY <4>1, <4>2
    <3> HIDE DEF a, b
    <3>3. /\ Len(a) \in Nat /\ Len(b) \in Nat /\ Len(a \o b) = Len(a) + Len(b)
          /\ \A k \in 1 .. Len(a) + Len(b) : (a \o b)[k] = IF k <= Len(a) THEN a[k] ELSE b[k - Len(a)]
      BY <3>1, ConcatProperties
    <3>4. CASE \E k \in 1 .. Len(a) : a[k] = r
      <4>1. PICK k \in 1 .. Len(a) : a[k] = r
        BY <3>4
      <4>2. k \in 1 .. Len(a \o b) /\ (a \o b)[k] = r
        BY <3>3, <4>1
      <4> QED BY <3>1, <4>2
    <3>5. CASE \E k \in 1 .. Len(b) : b[k] = r
      <4>1. PICK k \in 1 .. Len(b) : b[k] = r
        BY <3>5
      <4>2. Len(a) + k \in 1 .. Len(a) + Len(b) /\ ~(Len(a) + k <= Len(a)) /\ (Len(a) + k) - Len(a) = k
        BY <3>3
      <4>3. Len(a) + k \in 1 .. Len(a \o b) /\ (a \o b)[Len(a) + k] = r
        BY <3>3, <4>1, <4>2
      <4> QED BY <3>1, <4>3
    <3> QED BY <3>2, <3>4, <3>5
  <2>4. 0 .. N \subseteq P
    <3> HIDE DEF P
    <3> QED BY <1>2, <2>2, <2>3, UpTo
  <2>5. N \in P /\ i <= N
    BY <1>2, <2>4
  <2> QED BY <2>5 DEF r
<1>5. f[N] \in Seq(GroupDNSRule)
  BY <1>2
<1> QED BY <1>1, <1>4, <1>5

\* A rule that would answer a query.
Answers(r, mode, addr, type) ==
  /\ r.mode \in {mode, "any"} /\ type \in r.types
  /\ NameIn(r.conds, addr) /\ ~NameIn(r.skip, addr)

\* A query that goes out in the clear is one for a name of CN, which is sent direct, and
\* no group wants it.
LEMMA LocalMeans ==
  ASSUME NEW s, s.groups \in Seq(RuleGroups), NEW addr, NEW type \in AnyType,
         DnsServer(dnsRules(s), "Rule", addr, type) = "local"
  PROVE  /\ localCN(s) /\ addr \in {"cn", "cnpart"}
         /\ \A k \in 1 .. Len(groupsDNSRules(s.sets, s.ipv6, s.groups)) :
              ~Answers(groupsDNSRules(s.sets, s.ipv6, s.groups)[k], "Rule", addr, type)
<1> DEFINE d0 == D("Direct", {"any"}, {}, AnyType, "local")
<1> DEFINE d1 == D("Rule", {"cn"}, {}, AnyType, "local")
<1> DEFINE d2 == D("any", {"any"}, {}, FakeTypes(s.ipv6), "fakeip")
<1> DEFINE d3 == D("any", {"any"}, {}, AnyType, "remote")
<1> DEFINE G == groupsDNSRules(s.sets, s.ipv6, s.groups)
<1> DEFINE m == When(localCN(s), <<d1>>)
<1> DEFINE e == <<d2, d3>>
<1> DEFINE all == dnsRules(s)
<1> DEFINE hit(r) == Answers(r, "Rule", addr, type)
<1> DEFINE hits == {i \in 1 .. Len(all) : hit(all[i])}
<1> DEFINE T == GroupDNSRule \cup {d0, d1, d2, d3}
<1>1. all = <<d0>> \o G \o m \o e
  BY DEF dnsRules
<1>2. /\ ~hit(d0) /\ d2.server # "local" /\ d3.server # "local" /\ hit(d3)
      /\ hit(d1) => addr \in {"cn", "cnpart"}
  BY DEF Answers, D, NameIn, Covers
<1>3. \A r \in GroupDNSRule : r.server # "local"
  BY DEF GroupDNSRule, D
<1>4. G \in Seq(GroupDNSRule)
  BY GroupsDNS
<1>5. DnsServer(all, "Rule", addr, type) = all[CHOOSE i \in hits : \A j \in hits : i <= j].server
  BY DEF DnsServer, Answers
<1>6. <<d0>> \in Seq(T) /\ G \in Seq(T) /\ m \in Seq(T) /\ e \in Seq(T)
  <2>1. G \in Seq(T)
    BY <1>4, SeqMonotonic
  <2>2. d0 \in T /\ d1 \in T /\ d2 \in T /\ d3 \in T
    OBVIOUS
  <2> HIDE DEF T, d0, d1, d2, d3
  <2> QED BY <2>1, <2>2 DEF When
<1>7. Len(e) = 2 /\ e[1] = d2 /\ e[2] = d3
  OBVIOUS
<1>8. IF localCN(s) THEN Len(m) = 1 /\ m[1] = d1 ELSE Len(m) = 0
  BY DEF When
<1> DEFINE z == <<d0>>
<1>9. Len(z) = 1 /\ z[1] = d0
  OBVIOUS
<1>10. \A k \in 1 .. Len(G) : G[k].server # "local"
  BY <1>3, <1>4
<1> HIDE DEF d0, d1, d2, d3, G, m, e, T, hit, z
<1>11. all = z \o G \o m \o e /\ z \in Seq(T)
  BY <1>1, <1>6 DEF z
<1> HIDE DEF all
<1> DEFINE x == z \o G
<1>12. /\ x \in Seq(T) /\ Len(G) \in Nat /\ Len(x) = 1 + Len(G)
       /\ \A i \in 1 .. 1 + Len(G) : x[i] = IF i <= 1 THEN z[i] ELSE G[i - 1]
  <2> HIDE DEF x
  <2>1. z \o G \in Seq(T) /\ Len(z \o G) = Len(z) + Len(G)
        /\ \A i \in 1 .. Len(z) + Len(G) : (z \o G)[i] = IF i <= Len(z) THEN z[i] ELSE G[i - Len(z)]
    BY <1>6, <1>11, ConcatProperties
  <2>2. x = z \o G
    BY DEF x
  <2>3. Len(G) \in Nat
    BY <1>6
  <2> QED BY <1>9, <2>1, <2>2, <2>3
<1> HIDE DEF x
<1> DEFINE y == x \o m
<1>13. /\ y \in Seq(T) /\ Len(m) \in Nat /\ Len(y) = Len(x) + Len(m)
       /\ \A i \in 1 .. Len(x) + Len(m) : y[i] = IF i <= Len(x) THEN x[i] ELSE m[i - Len(x)]
  <2> HIDE DEF y
  <2>1. x \o m \in Seq(T) /\ Len(x \o m) = Len(x) + Len(m)
        /\ \A i \in 1 .. Len(x) + Len(m) : (x \o m)[i] = IF i <= Len(x) THEN x[i] ELSE m[i - Len(x)]
    BY <1>6, <1>12, ConcatProperties
  <2>2. y = x \o m
    BY DEF y
  <2>3. Len(m) \in Nat
    BY <1>6
  <2> QED BY <2>1, <2>2, <2>3
<1> HIDE DEF y
<1>14. /\ Len(all) = Len(y) + 2
       /\ \A i \in 1 .. Len(y) + 2 : all[i] = IF i <= Len(y) THEN y[i] ELSE e[i - Len(y)]
  <2>1. all = y \o e
    <3> HIDE DEF all
    <3>1. all = z \o G \o m \o e
      BY <1>11
    <3> QED BY <3>1, Zenon DEF x, y
  <2>2. /\ Len(y \o e) = Len(y) + Len(e)
        /\ \A i \in 1 .. Len(y) + Len(e) : (y \o e)[i] = IF i <= Len(y) THEN y[i] ELSE e[i - Len(y)]
    <3>1. y \in Seq(T) /\ e \in Seq(T)
      BY <1>6, <1>13
    <3> QED BY <3>1, ConcatProperties, Zenon
  <2> QED BY <1>7, <2>1, <2>2
<1>15. all[1] = d0 /\ \A k \in 1 .. Len(G) : 1 + k \in 1 .. Len(all) /\ all[1 + k] = G[k]
  <2>1. Len(x) <= Len(y) /\ Len(y) <= Len(all)
    BY <1>12, <1>13, <1>14
  <2>2. \A i \in 1 .. Len(x) : i \in 1 .. Len(all) /\ all[i] = x[i]
    BY <1>12, <1>13, <1>14, <2>1
  <2>3. x[1] = d0
    BY <1>9, <1>12
  <2>4. ASSUME NEW k \in 1 .. Len(G) PROVE 1 + k \in 1 .. Len(x) /\ x[1 + k] = G[k]
    <3>1. 1 + k \in 1 .. 1 + Len(G) /\ ~(1 + k <= 1) /\ (1 + k) - 1 = k
      BY <1>12
    <3> QED BY <1>12, <3>1
  <2>5. 1 \in 1 .. Len(x)
    BY <1>12
  <2> QED BY <2>2, <2>3, <2>4, <2>5
<1>16. ASSUME NEW i \in 1 .. Len(all), i > 1 + Len(G)
       PROVE  (localCN(s) /\ all[i] = d1) \/ all[i] \in {d2, d3}
  <2>1. CASE i <= Len(y)
    <3>1. i \in 1 .. Len(x) + Len(m) /\ ~(i <= Len(x)) /\ i - Len(x) \in 1 .. Len(m)
      BY <1>12, <1>13, <1>14, <1>16, <2>1
    <3>2. i \in 1 .. Len(y) + 2
      BY <1>14
    <3>3. all[i] = m[i - Len(x)]
      BY <1>13, <1>14, <2>1, <3>1, <3>2
    <3>4. CASE localCN(s)
      <4>0. Len(m) = 1 /\ m[1] = d1
        BY <1>8, <3>4
      <4>1. i - Len(x) = 1
        BY <3>1, <4>0
      <4> QED BY <3>3, <3>4, <4>0, <4>1
    <3>5. CASE ~localCN(s)
      <4>1. Len(m) = 0
        BY <1>8, <3>5
      <4> QED BY <3>1, <4>1
    <3> QED BY <3>4, <3>5
  <2>2. CASE ~(i <= Len(y))
    <3>0. Len(y) \in Nat
      BY <1>13
    <3>1. i \in 1 .. Len(y) + 2 /\ i - Len(y) \in 1 .. 2
      <4>1. i \in 1 .. Len(y) + 2
        BY <1>14
      <4> QED BY <2>2, <3>0, <4>1
    <3>2. all[i] = e[i - Len(y)]
      BY <1>14, <2>2, <3>1
    <3> QED BY <1>7, <3>1, <3>2
  <2> QED BY <2>1, <2>2
<1>17. Len(all) \in hits /\ hits \in SUBSET Nat
  <2>1. Len(all) \in 1 .. Len(all) /\ all[Len(all)] = e[2]
    BY <1>12, <1>13, <1>14
  <2> QED BY <1>2, <1>7, <2>1
<1> DEFINE first == CHOOSE i \in hits : \A j \in hits : i <= j
<1>18. first \in hits /\ \A j \in hits : first <= j
  <2> HIDE DEF hits
  <2>1. \E i \in hits : \A j \in hits : i <= j
    BY <1>17, LeastOf
  <2> QED BY <2>1
<1>19. all[first].server = "local"
  BY <1>5 DEF all
<1> HIDE DEF first
<1>20. first \in 1 .. Len(all) /\ hit(all[first])
  BY <1>18
<1>21. first > 1 + Len(G)
  <2> SUFFICES ASSUME ~(first > 1 + Len(G)) PROVE FALSE
    OBVIOUS
  <2>1. first # 1
    BY <1>2, <1>15, <1>20
  <2>2. first - 1 \in 1 .. Len(G) /\ first = 1 + (first - 1)
    BY <1>12, <1>20, <2>1
  <2>3. all[first] = G[first - 1]
    BY <1>15, <2>2
  <2> QED BY <1>10, <1>19, <2>2, <2>3
<1>22. localCN(s) /\ all[first] = d1
  BY <1>2, <1>16, <1>19, <1>20, <1>21
<1>23. ASSUME NEW k \in 1 .. Len(G), hit(G[k]) PROVE FALSE
  <2>1. 1 + k \in hits
    BY <1>15, <1>23
  <2> QED BY <1>12, <1>18, <1>20, <1>21, <2>1
<1> QED BY <1>2, <1>20, <1>22, <1>23 DEF hit, G

\* A name that is asked for outside the tunnel has connections that go direct, or nowhere.
LEMMA NamesSame ==
  ASSUME NEW s \in RouteSettings, s.mode = "rule", NEW c \in Connections,
         c.named, c.port = "web", c.from = "user",
         \A g \in ToSet(s.groups) : g.on => ~InGroup(Conds(s.sets, g) \cap {"ip", "geoip"}, c),
         NEW type \in AnyType, DnsServer(dnsRules(s), "Rule", c.addr, type) = "local"
  PROVE  Route(buildConfig(s), "Rule", c) \in {"direct", "reject"}
<1> DEFINE N == Len(s.groups)
<1> DEFINE M == Claimants(s.sets, s.groups, c)
<1> DEFINE G == groupsDNSRules(s.sets, s.ipv6, s.groups)
<1>0. s.groups \in Seq(RuleGroups)
  BY RouteConstants DEF RouteSettings
<1>1. /\ localCN(s) /\ c.addr \in {"cn", "cnpart"}
      /\ \A k \in 1 .. Len(G) : ~Answers(G[k], "Rule", c.addr, type)
  BY <1>0, LocalMeans
<1>2. N \in Nat /\ (\A i \in 1 .. N : s.groups[i] \in RuleGroups /\ s.groups[i] \in ToSet(s.groups))
  BY <1>0 DEF ToSet
<1>3. M \subseteq 1 .. N /\ \A i \in M : s.groups[i].on /\ InGroup(Conds(s.sets, s.groups[i]), c)
  BY DEF Claimants
<1>4. Default(s, c) = "direct"
  BY <1>1 DEF Default, localCN
<1>5. \A i \in 1 .. N : s.groups[i].on =>
        (InGroup(Conds(s.sets, s.groups[i]), c) <=>
           \E kind \in groupDomainConds(s.sets, s.groups[i]) : c.addr \in Covers(kind))
  <2> TAKE i \in 1 .. N
  <2> HAVE s.groups[i].on
  <2>1. ~InGroup(Conds(s.sets, s.groups[i]) \cap {"ip", "geoip"}, c)
    BY <1>2
  <2> QED BY <2>1 DEF InGroup, groupDomainConds
<1>6. CASE M = {}
  <2>1. Route(buildConfig(s), "Rule", c) = Default(s, c)
    BY <1>1, <1>6, RuleRoute
  <2> QED BY <1>4, <2>1
<1>7. CASE M # {}
  <2>1. PICK i : Foremost(i, M)
    <3>1. M \in SUBSET Nat
      BY <1>2, <1>3
    <3> HIDE DEF M
    <3> QED BY <1>7, <3>1, LeastOf DEF Foremost
  <2>2. i \in M /\ i \in 1 .. N /\ \A j \in M : i <= j
    BY <1>3, <2>1 DEF Foremost
  <2>3. Route(buildConfig(s), "Rule", c) = s.groups[i].out
    BY <1>1, <2>1, RuleRoute
  <2>4. s.groups[i].out \in {"direct", "proxy", "reject"}
    BY <1>2, <2>2 DEF RuleGroups
  <2>5. ASSUME s.groups[i].out = "proxy" PROVE FALSE
    <3>1. PICK kind \in groupDomainConds(s.sets, s.groups[i]) : c.addr \in Covers(kind)
      BY <1>3, <1>5, <2>2
    <3>2. PICK k \in 1 .. Len(G) : G[k] = ThroughTunnel(s.sets, s.groups, i)
      <4>1. groupDomainConds(s.sets, s.groups[i]) # {} /\ s.groups[i].on
        BY <1>3, <2>2, <3>1
      <4>2. \A j \in 1 .. Len(s.groups) :
              s.groups[j].on /\ s.groups[j].out = "proxy" /\ groupDomainConds(s.sets, s.groups[j]) # {} =>
                \E k \in 1 .. Len(G) : G[k] = ThroughTunnel(s.sets, s.groups, j)
        <5> DEFINE sets == s.sets
        <5> DEFINE ipv6 == s.ipv6
        <5> DEFINE groups == s.groups
        <5>1. groups \in Seq(RuleGroups)
          BY <1>0
        <5> HIDE DEF sets, ipv6, groups
        <5>2. \A j \in 1 .. Len(groups) :
                groups[j].on /\ groups[j].out = "proxy" /\ groupDomainConds(sets, groups[j]) # {} =>
                  \E k \in 1 .. Len(groupsDNSRules(sets, ipv6, groups)) :
                    groupsDNSRules(sets, ipv6, groups)[k] = ThroughTunnel(sets, groups, j)
          BY <5>1, GroupsDNS
        <5> QED BY <5>2 DEF sets, ipv6, groups
      <4> HIDE DEF G
      <4> QED BY <2>2, <2>5, <4>1, <4>2
    <3>3. NameIn(groupDomainConds(s.sets, s.groups[i]), c.addr)
      BY <3>1 DEF NameIn
    <3>4. ~NameIn(directConds(s.sets, s.groups, i), c.addr)
      <4>1. ASSUME NEW q \in directConds(s.sets, s.groups, i), c.addr \in Covers(q) PROVE FALSE
        <5>1. PICK j \in 1 .. (i - 1) : s.groups[j].on /\ q \in groupDomainConds(s.sets, s.groups[j])
          BY DEF directConds
        <5>2. j \in 1 .. N /\ j < i
          BY <1>2, <2>2
        <5>3. j \in M
          BY <1>5, <4>1, <5>1, <5>2 DEF Claimants
        <5> QED BY <1>2, <2>2, <5>2, <5>3
      <4>2. directConds(s.sets, s.groups, i) \subseteq {"domain", "geosite"}
        BY DEF directConds, groupDomainConds
      <4> QED BY <4>1, <4>2 DEF NameIn
    <3>5. Answers(ThroughTunnel(s.sets, s.groups, i), "Rule", c.addr, type)
      BY <3>3, <3>4 DEF Answers, ThroughTunnel, D
    <3> QED BY <1>1, <3>2, <3>5
  <2> QED BY <2>3, <2>4, <2>5
<1> QED BY <1>6, <1>7

-----------------------------------------------------------------------------
\* What the strict global mode puts before the groups of rules.
StrictRules(s) ==
  {R("port53", {}, "hijack-dns"), R("v6", {}, "reject"),
   R("from", {"devreject"}, "reject"), R("from", {"devproxy"}, "proxy"),
   R("node", IF s.self THEN {"core"} ELSE {}, "direct"),
   R("clash", {"Direct"}, "direct"), R("clash", {"Global"}, "proxy")}
  \cup (IF s.lan THEN {R("lan", {"Global"}, "direct")} ELSE {})

\* What may leave past the tunnel in the strict global mode.
LeavesSealed(s, c) ==
  \/ c.addr = "node" /\ (s.self => c.from = "core")
  \/ c.addr = "lan" /\ s.lan

\* A rule of these that sends a connection direct is one it may leave by.
LEMMA StrictRulesSeal ==
  ASSUME NEW s, NEW c, NEW r \in StrictRules(s), RouteMatches(r, "Global", c), r.out = "direct"
  PROVE  LeavesSealed(s, c)
BY DEF StrictRules, RouteMatches, LeavesSealed, R, lanDest

\* The strict global mode begins with these rules, the last of which takes everything.
LEMMA StrictStartIs ==
  ASSUME NEW s, Strict(s), s.ipv6 \in BOOLEAN, s.lan \in BOOLEAN, s.gateway \in BOOLEAN
  PROVE  /\ Beginning(s) \in Seq(StrictRules(s)) /\ Len(Beginning(s)) > 0
         /\ Beginning(s)[Len(Beginning(s))] = R("clash", {"Global"}, "proxy")
<1> DEFINE S == StrictRules(s)
<1> DEFINE a == <<R("port53", {}, "hijack-dns")>>
<1> DEFINE b == When(~s.ipv6, <<R("v6", {}, "reject")>>)
<1> DEFINE d == When(s.bypass /\ ~Strict(s), <<R("from", {"app"}, "direct")>>)
<1> DEFINE e == deviceRules(s)
<1> DEFINE f == nodeRules(s)
<1> DEFINE g == When(s.lan, <<R("lan", {"Global"}, "direct")>>)
<1> DEFINE h == <<R("clash", {"Direct"}, "direct"), R("clash", {"Global"}, "proxy")>>
<1>0. Beginning(s) = a \o b \o d \o e \o f \o g \o h
  BY DEF Beginning
<1>1. a \in Seq(S)
  BY DEF StrictRules
<1>2. b \in Seq(S)
  <2>1. <<R("v6", {}, "reject")>> \in Seq(S)
    BY DEF StrictRules
  <2> HIDE DEF S
  <2> QED BY <2>1 DEF When
<1>3. d \in Seq(S)
  BY DEF When
<1>4. e \in Seq(S)
  <2>1. When(~Strict(s), <<R("from", {"devdirect"}, "direct")>>) = <<>>
    BY DEF When
  <2>2. <<R("from", {"devreject"}, "reject")>> \in Seq(S) /\ <<R("from", {"devproxy"}, "proxy")>> \in Seq(S)
    BY DEF StrictRules
  <2> HIDE DEF S
  <2> QED BY <2>1, <2>2 DEF deviceRules, When
<1>5. f \in Seq(S)
  BY DEF StrictRules, nodeRules, Strict
<1>6. g \in Seq(S)
  <2>1. s.lan => <<R("lan", {"Global"}, "direct")>> \in Seq(S)
    BY DEF StrictRules
  <2> HIDE DEF S
  <2> QED BY <2>1 DEF When
<1>7. h \in Seq(S) /\ Len(h) = 2 /\ h[2] = R("clash", {"Global"}, "proxy")
  BY DEF StrictRules
<1> HIDE DEF S, a, b, d, e, f, g, h
<1>8. a \o b \o d \o e \o f \o g \in Seq(S)
  BY <1>1, <1>2, <1>3, <1>4, <1>5, <1>6
<1> DEFINE p == a \o b \o d \o e \o f \o g
<1> HIDE DEF p
<1>9. p \in Seq(S) /\ Beginning(s) = p \o h
  BY <1>0, <1>8 DEF p
<1>10. Len(p) \in Nat
  BY <1>9
<1>11. /\ p \o h \in Seq(S) /\ Len(p \o h) = Len(p) + Len(h)
       /\ \A i \in 1 .. Len(p) + Len(h) :
            (p \o h)[i] = IF i <= Len(p) THEN p[i] ELSE h[i - Len(p)]
  BY <1>7, <1>9, ConcatProperties
<1>12. (p \o h)[Len(p) + 2] = h[2]
  BY <1>7, <1>10, <1>11
<1> QED BY <1>7, <1>9, <1>10, <1>11, <1>12 DEF S

\* Whatever follows stands behind.
LEMMA StandsBehind ==
  ASSUME NEW T, NEW p, NEW a \in Seq(T), NEW b \in Seq(T), Len(p) \in Nat,
         Len(p) <= Len(a), \A i \in 1 .. Len(p) : a[i] = p[i]
  PROVE  /\ a \o b \in Seq(T)
         /\ Len(p) <= Len(a \o b) /\ \A i \in 1 .. Len(p) : (a \o b)[i] = p[i]
BY ConcatProperties

\* The strict global mode lets nothing past the tunnel but the core's own connections to
\* the nodes and, if allowed, what is local - whatever the groups of rules and the other
\* settings say, and whatever rules the groups become (builder.go).
THEOREM StrictIsSealed ==
  ASSUME NEW s \in RouteSettings, Strict(s),
         NEW c, Route(buildConfig(s), "Global", c) = "direct"
  PROVE  LeavesSealed(s, c)
<1> DEFINE p == Beginning(s)
<1> DEFINE G == groupRules(s.sets, s.groups)
<1> DEFINE l == <<R("lan", {}, s.private)>>
<1> DEFINE m == When(s.ads /\ s.sets, <<R("ads", {}, "reject")>>)
<1> DEFINE n == When(s.sets, <<R("cn", {}, s.cn)>>)
<1> DEFINE f == <<R("final", {}, s.final)>>
<1> DEFINE T == GroupRule \cup StrictRules(s)
                \cup {R("lan", {}, s.private), R("ads", {}, "reject"), R("cn", {}, s.cn), R("final", {}, s.final)}
<1>1. buildConfig(s) = p \o G \o l \o m \o n \o f
  BY DEF buildConfig, Beginning
<1>2. s.ipv6 \in BOOLEAN /\ s.lan \in BOOLEAN /\ s.gateway \in BOOLEAN
  BY DEF RouteSettings
<1>3. /\ p \in Seq(StrictRules(s)) /\ Len(p) \in Nat /\ Len(p) > 0
      /\ p[Len(p)] = R("clash", {"Global"}, "proxy")
  BY <1>2, StrictStartIs
<1>4. p \in Seq(T) /\ G \in Seq(T)
  <2>1. s.groups \in Seq(RuleGroups)
    BY RouteConstants DEF RouteSettings
  <2>2. G \in Seq(GroupRule)
    BY <2>1, GroupsDecide
  <2> QED BY <1>3, <2>2, SeqMonotonic
<1>5. l \in Seq(T) /\ m \in Seq(T) /\ n \in Seq(T) /\ f \in Seq(T)
  <2>1. /\ l \in Seq(T) /\ <<R("ads", {}, "reject")>> \in Seq(T)
        /\ <<R("cn", {}, s.cn)>> \in Seq(T) /\ f \in Seq(T)
    OBVIOUS
  <2> HIDE DEF T
  <2> QED BY <2>1 DEF When
<1> HIDE DEF p, G, l, m, n, f, T
<1> DEFINE all == buildConfig(s)
<1> HIDE DEF all
<1>0. all = p \o G \o l \o m \o n \o f
  BY <1>1 DEF all
<1>6. /\ Len(all) \in Nat /\ Len(p) <= Len(all) /\ \A i \in 1 .. Len(p) : all[i] = p[i]
  <2>1. /\ p \o G \in Seq(T)
        /\ Len(p) <= Len(p \o G) /\ \A i \in 1 .. Len(p) : (p \o G)[i] = p[i]
    BY <1>3, <1>4, StandsBehind
  <2>2. /\ p \o G \o l \in Seq(T)
        /\ Len(p) <= Len(p \o G \o l) /\ \A i \in 1 .. Len(p) : (p \o G \o l)[i] = p[i]
    BY <1>3, <1>5, <2>1, StandsBehind
  <2>3. /\ p \o G \o l \o m \in Seq(T)
        /\ Len(p) <= Len(p \o G \o l \o m) /\ \A i \in 1 .. Len(p) : (p \o G \o l \o m)[i] = p[i]
    BY <1>3, <1>5, <2>2, StandsBehind
  <2>4. /\ p \o G \o l \o m \o n \in Seq(T)
        /\ Len(p) <= Len(p \o G \o l \o m \o n) /\ \A i \in 1 .. Len(p) : (p \o G \o l \o m \o n)[i] = p[i]
    BY <1>3, <1>5, <2>3, StandsBehind
  <2> DEFINE q == p \o G \o l \o m \o n
  <2> HIDE DEF q
  <2>5. /\ q \in Seq(T) /\ Len(p) <= Len(q)
        /\ \A i \in 1 .. Len(p) : q[i] = p[i]
    BY <2>4 DEF q
  <2>6. /\ q \o f \in Seq(T) /\ Len(p) <= Len(q \o f)
        /\ \A i \in 1 .. Len(p) : (q \o f)[i] = p[i]
    BY <1>3, <1>5, <2>5, StandsBehind
  <2>7. all = q \o f
    BY <1>0 DEF q
  <2> QED BY <2>6, <2>7
<1>7. RouteMatches(all[Len(p)], "Global", c)
  BY <1>3, <1>6 DEF RouteMatches, R
<1>8. PICK i \in 1 .. Len(p) : RouteMatches(all[i], "Global", c) /\ Route(all, "Global", c) = all[i].out
  BY <1>3, <1>6, <1>7, FirstDecides
<1>9. all[i] \in StrictRules(s)
  BY <1>3, <1>6
<1> QED BY <1>8, <1>9, StrictRulesSeal DEF all

-----------------------------------------------------------------------------
\* What leaves outside the tunnel is what is meant to, for any settings.
LEMMA SettingsMean ==
  ASSUME NEW s \in RouteSettings
  PROVE  /\ Strict(s) =>
              /\ \A c \in Connections : Route(buildConfig(s), "Global", c) = "direct" => LeavesSealed(s, c)
              /\ \A k \in DOMAIN dnsServers(s) : dnsServers(s)[k] # "plain"
<1>1. ASSUME Strict(s), NEW c \in Connections, Route(buildConfig(s), "Global", c) = "direct"
      PROVE  LeavesSealed(s, c)
  BY <1>1, StrictIsSealed
<1>2. ASSUME Strict(s) PROVE \A k \in DOMAIN dnsServers(s) : dnsServers(s)[k] # "plain"
  BY <1>2 DEF dnsServers
<1> QED BY <1>1, <1>2

\* FallbackAgrees, in any state of settings and running configuration.
LEMMA FallbackHolds == RouteTypeOK => FallbackAgrees
<1> SUFFICES ASSUME RouteTypeOK, saved.mode = "rule", NEW c \in Connections,
                    ~c.named, c.port # "dns", c.from \in {"user", "dev"}, Seen(saved, c)
             PROVE  /\ <<c.addr, c.fam>> \in RuleGuard(saved) /\ c.port \notin TunnelPorts(saved)
                         => Route(buildConfig(saved), "Rule", c) = "direct"
                    /\ (\A g \in ToSet(saved.groups) : "port" \notin g.conds) /\ c.addr # "node"
                         => (Route(buildConfig(saved), "Rule", c) = "direct" =>
                               <<c.addr, c.fam>> \in RuleGuard(saved))
  BY Zenon DEF FallbackAgrees
<1>1. saved \in RouteSettings
  BY DEF RouteTypeOK
<1>2. Plain(saved, c)
  BY DEF Plain
<1> QED BY <1>1, <1>2, FallbackSame

\* SealedConfig, likewise, of the configuration that runs.
LEMMA SealedHolds == RouteTypeOK => SealedConfig
<1>1. SUFFICES ASSUME RouteTypeOK, Strict(built)
               PROVE  /\ \A c \in Connections :
                           Seen(built, c) /\ Route(buildConfig(built), "Global", c) = "direct" =>
                             \/ c.addr = "node" /\ (built.self => c.from = "core")
                             \/ c.addr = "lan" /\ built.lan
                      /\ \A k \in DOMAIN dnsServers(built) : dnsServers(built)[k] # "plain"
  BY DEF SealedConfig
<1>2. built \in RouteSettings
  BY <1>1 DEF RouteTypeOK
<1> QED BY <1>1, <1>2, SettingsMean DEF LeavesSealed

\* NamesFollowRoutes, likewise.
LEMMA NamesHold == RouteTypeOK => NamesFollowRoutes
<1> SUFFICES ASSUME RouteTypeOK, saved.mode = "rule", NEW c \in Connections,
                    c.named, c.port = "web", c.from = "user",
                    \A g \in ToSet(saved.groups) : g.on => ~InGroup(Conds(saved.sets, g) \cap {"ip", "geoip"}, c),
                    NEW type \in AnyType, DnsServer(dnsRules(saved), "Rule", c.addr, type) = "local"
             PROVE  Route(buildConfig(saved), "Rule", c) \in {"direct", "reject"}
  BY Zenon DEF NamesFollowRoutes
<1>1. saved \in RouteSettings
  BY DEF RouteTypeOK
<1> QED BY <1>1, NamesSame

\* All three together, in any state of settings and configurations.
LEMMA MeantForTypes == RouteTypeOK => DirectIsMeant
BY FallbackHolds, SealedHolds, NamesHold DEF DirectIsMeant

\* Whatever the settings are changed to, and whichever of them the running core was
\* rendered from: the firewall lets out by itself what the rules send direct, the strict
\* global mode is sealed, and a name is asked outside the tunnel only when its
\* connections go direct.
THEOREM DirectAlwaysMeant == RouteSpec => []DirectIsMeant
BY MeantForTypes, RouteTypes, PTL

-----------------------------------------------------------------------------
(* The filters, the configuration and the transactions side by side.       *)

\* Before the guard is put up for the first time its specification is one the guard has.
LEMMA FilterInitTyped == FilterInit => FilterTypeOK
<1> SUFFICES ASSUME FilterInit PROVE FilterTypeOK
  OBVIOUS
<1> DEFINE none == [lan |-> FALSE, rule |-> FALSE, gateway |-> FALSE, sealdns |-> FALSE,
                    direct |-> {}, ports |-> {}]
<1>1. none \in Specs /\ none.direct = {} /\ none.ports = {}
  BY DEF Specs
<1> HIDE DEF none
<1>2. none \in GuardSpecs
  BY <1>1 DEF GuardSpecs
<1>3. inforce = none /\ up = FALSE /\ lost = {}
  BY DEF FilterInit, none
<1> QED BY <1>2, <1>3 DEF FilterTypeOK

\* A guard that is put up is one of the guard's specifications, and what it loses is of
\* its filters.
LEMMA FilterNextTyped == FilterTypeOK /\ [FilterNext]_filterVars => FilterTypeOK'
<1> SUFFICES ASSUME FilterTypeOK, [FilterNext]_filterVars PROVE FilterTypeOK'
  OBVIOUS
<1> DEFINE all == WfpSet(inforce, TRUE)
<1>1. up \in BOOLEAN /\ inforce \in GuardSpecs /\ lost \subseteq all
  BY DEF FilterTypeOK
<1>2. FilterTypeOK' = (up' \in BOOLEAN /\ inforce' \in GuardSpecs /\ lost' \subseteq WfpSet(inforce', TRUE))
  BY DEF FilterTypeOK, WfpSet, installSet, installForward
<1>3. inforce' = inforce => WfpSet(inforce', TRUE) = all
  OBVIOUS
<1> HIDE DEF all
<1>4. CASE \E s \in GuardSpecs : Reapply(s)
  BY <1>2, <1>4 DEF Reapply
<1>5. CASE ClearGuard
  BY <1>1, <1>2, <1>5 DEF ClearGuard
<1>6. CASE \E f \in WfpSet(inforce, TRUE) : Lose(f)
  BY <1>1, <1>2, <1>3, <1>6 DEF Lose, all
<1>7. CASE UNCHANGED filterVars
  BY <1>1, <1>2, <1>3, <1>7 DEF filterVars
<1> QED BY <1>4, <1>5, <1>6, <1>7 DEF FilterNext

FiltersInv == FilterTypeOK /\ RouteInv /\ WfpInv

\* A behaviour of the three together is one of each.
LEMMA FiltersInvKept == FiltersInv /\ [FiltersNext]_filtersVars => FiltersInv'
<1>1. [FiltersNext]_filtersVars => [FilterNext]_filterVars /\ [RouteNext]_routeVars /\ [WfpNext]_wfpVars
  BY Zenon DEF FiltersNext, filtersVars
<1> QED BY <1>1, FilterNextTyped, RouteInvKept, WfpInvKept DEF FiltersInv

\* The variables of the three keep their types; and of the settings and the running
\* configuration holds, side by side with the others, what holds of them alone.
THEOREM FiltersAlwaysRight == FiltersSpec => [](FiltersTypeOK /\ DirectIsMeant /\ SwitchIsFaithful)
<1>1. FiltersInit => FiltersInv
  BY FilterInitTyped, RouteInitInv, WfpInitInv DEF FiltersInit, FiltersInv
<1>2. FiltersInv => FiltersTypeOK /\ DirectIsMeant /\ SwitchIsFaithful
  BY MeantForTypes, FaithfulForInv DEF FiltersInv, FiltersTypeOK, RouteInv, WfpInv
<1> QED BY <1>1, <1>2, FiltersInvKept, PTL DEF FiltersSpec
====

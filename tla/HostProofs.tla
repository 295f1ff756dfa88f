------------------------------ MODULE HostProofs ------------------------------
(***************************************************************************)
(* Proofs about what outlives the service on the computer it runs on: the  *)
(* guard and the adapters of Linux at a boot (LinuxBoot), the packet       *)
(* filter of macOS (PfGuard), and the computer with all its parts          *)
(* (MCHost).                                                               *)
(*                                                                         *)
(* For any number of boots, requests, faults and reconfigurations a boot   *)
(* is quiet (LinuxBoot!BootIsQuiet), and what was cleared stays cleared    *)
(* (LinuxBoot!ClearedStaysCleared). For any tokens of pf and any number of *)
(* faults, of other programs' uses and of crashes the guard of macOS is    *)
(* what the service takes it for (PfGuard!PfMatches). A computer that runs *)
(* all the parts at once is an implementation of each of them              *)
(* (HostHasAll), so what is proved of the parts, subscriptions and updates *)
(* included, holds of the whole (HostAlwaysRight).                         *)
(***************************************************************************)
EXTENDS MCHost, SubscriptionsProofs, UpdateProofs, TLAPS

(***************************************************************************)
(* The boot guard and the adapters of Linux (LinuxBoot)                    *)
(*                                                                         *)
(* The service works through a list of steps and may die before any of     *)
(* them, so the invariant says what a list can look like (Shape: which     *)
(* steps come in pairs) and what is known when a step is the next one      *)
(* (NextSteps): at "unlink" the table is gone, at "write" it is there, at  *)
(* "dropBackup" and "deregister" no adapter is turned off at a boot,       *)
(* unless that could not be undone.                                        *)
(***************************************************************************)

\* What comes second, and after what.
Pairs == {<<"delete", "unlink">>, <<"load", "write">>, <<"dropConf", "dropBackup">>, <<"dropReboot", "deregister">>}
Seconds == {"unlink", "write", "dropBackup", "deregister"}

IsAt(s, i, x) == i \in 1 .. Len(s) /\ s[i] = x

Shape(s) ==
  /\ s \in Seq(Steps)
  /\ \A i \in 1 .. Len(s) :
       /\ s[i] = "load" => IsAt(s, i + 1, "write")
       /\ s[i] = "delete" => IsAt(s, i + 1, "unlink")
       /\ s[i] = "record" => IsAt(s, i + 1, "turnOff")
       /\ s[i] = "turnOn" => IsAt(s, i + 1, "dropConf") /\ IsAt(s, i + 2, "dropBackup")
       /\ s[i] = "dropConf" => IsAt(s, i + 1, "dropBackup")
       /\ s[i] = "deregister" => i = Len(s)
       /\ i > 1 /\ s[i] = "unlink" => s[i - 1] = "delete"
       /\ i > 1 /\ s[i] = "write" => s[i - 1] = "load"
       /\ i > 1 /\ s[i] = "dropBackup" => s[i - 1] = "dropConf"
       /\ i > 1 /\ s[i] = "deregister" => s[i - 1] = "dropReboot"

UninstallSteps == {"delete", "unlink", "turnOn", "dropConf", "dropBackup", "dropReboot", "deregister"}
Uninstalling == IsAt(todo, Len(todo), "deregister")

\* What is known before a step.
NextSteps ==
  /\ IsAt(todo, 1, "unlink") => table = "none"
  /\ IsAt(todo, 1, "write") => table # "none"
  /\ IsAt(todo, 1, "dropBackup") => ~conf
  /\ IsAt(todo, 1, "deregister") => (conf => "conf" \in stuck)

\* An uninstallation that has the table and the file behind it has cleared the guard.
UninstallInv == Uninstalling =>
  /\ ~up /\ \A i \in 1 .. Len(todo) : todo[i] \in UninstallSteps
  /\ \/ IsAt(todo, 1, "delete") \/ IsAt(todo, 1, "unlink")
     \/ table = "none" /\ file = "none" /\ (ra => "ra" \in stuck) /\ said # "on"

RunInv ==
  /\ power # "online" => ~up /\ todo = <<>> /\ ~addr
  /\ ~installed => ~up /\ todo = <<>>
  /\ fresh => ~up /\ todo = <<>>
  /\ up /\ table # "none" => on \/ IsAt(todo, 1, "write")

CoverInv ==
  /\ said = "on" => unit /\ file # "none" /\ (power # "off" => table # "none" \/ "table" \in bare)
  /\ said = "gone" => table = "none" /\ file = "none"
  /\ ~installed => /\ table = "none" /\ file = "none"
                   /\ unit => "unit" \in stuck
                   /\ conf => "conf" \in stuck
                   /\ ra => "ra" \in stuck \/ unit

AdapterInv ==
  /\ fresh /\ power # "off" /\ unit /\ backup /\ "ra" \notin bare => ra
  /\ fresh /\ unit /\ backup /\ "ra" \notin bare => ~addr
  /\ conf => backup

BootInv ==
  /\ BootTypeOK
  /\ Shape(todo)
  /\ NextSteps
  /\ UninstallInv
  /\ RunInv
  /\ CoverInv
  /\ AdapterInv

(***************************************************************************)
(* Lists of steps                                                          *)
(***************************************************************************)
\* What is left of a list has the shape of one.
LEMMA ShapeOfTail ==
  ASSUME NEW s, Shape(s), s # <<>>
  PROVE  Shape(Tail(s)) /\ Len(Tail(s)) = Len(s) - 1 /\ \A i \in 1 .. Len(s) - 1 : Tail(s)[i] = s[i + 1]
<1>1. s \in Seq(Steps) /\ Len(s) \in Nat /\ Len(s) > 0
  BY DEF Shape
<1>2. Tail(s) \in Seq(Steps) /\ Len(Tail(s)) = Len(s) - 1 /\ \A i \in 1 .. Len(s) - 1 : Tail(s)[i] = s[i + 1]
  BY <1>1
<1> DEFINE r == Tail(s)
<1> HIDE DEF r
<1>3. r \in Seq(Steps) /\ Len(r) = Len(s) - 1 /\ \A i \in 1 .. Len(s) - 1 : r[i] = s[i + 1]
  BY <1>2 DEF r
<1>4. Shape(r)
  <2> SUFFICES ASSUME NEW i \in 1 .. Len(r)
               PROVE  /\ r[i] = "load" => IsAt(r, i + 1, "write")
                      /\ r[i] = "delete" => IsAt(r, i + 1, "unlink")
                      /\ r[i] = "record" => IsAt(r, i + 1, "turnOff")
                      /\ r[i] = "turnOn" => IsAt(r, i + 1, "dropConf") /\ IsAt(r, i + 2, "dropBackup")
                      /\ r[i] = "dropConf" => IsAt(r, i + 1, "dropBackup")
                      /\ r[i] = "deregister" => i = Len(r)
                      /\ i > 1 /\ r[i] = "unlink" => r[i - 1] = "delete"
                      /\ i > 1 /\ r[i] = "write" => r[i - 1] = "load"
                      /\ i > 1 /\ r[i] = "dropBackup" => r[i - 1] = "dropConf"
                      /\ i > 1 /\ r[i] = "deregister" => r[i - 1] = "dropReboot"
    BY <1>3 DEF Shape
  <2>1. i + 1 \in 1 .. Len(s) /\ r[i] = s[i + 1] /\ (i = Len(r) <=> i + 1 = Len(s))
    BY <1>3
  <2>2. i > 1 => r[i - 1] = s[i] /\ (i + 1) - 1 = i
    BY <1>3
  <2>3. \A x : (IsAt(s, (i + 1) + 1, x) => IsAt(r, i + 1, x)) /\ (IsAt(s, (i + 1) + 2, x) => IsAt(r, i + 2, x))
    BY <1>3 DEF IsAt
  <2>4. i + 1 > 1
    OBVIOUS
  <2> QED BY <2>1, <2>2, <2>3 DEF Shape
<1> QED BY <1>4 DEF r

\* A list may be put before another that does not begin with the second step of a pair.
LEMMA ShapeOfConcat ==
  ASSUME NEW a, NEW b, Shape(a), Shape(b), \A i \in 1 .. Len(a) : a[i] # "deregister",
         \A x \in Seconds : ~IsAt(b, 1, x)
  PROVE  /\ Shape(a \o b) /\ Len(a \o b) = Len(a) + Len(b)
         /\ \A i \in 1 .. Len(a) : (a \o b)[i] = a[i]
         /\ \A i \in 1 .. Len(b) : (a \o b)[Len(a) + i] = b[i]
<1>1. a \in Seq(Steps) /\ b \in Seq(Steps) /\ Len(a) \in Nat /\ Len(b) \in Nat
  BY DEF Shape
<1> DEFINE c == a \o b
<1>2. /\ c \in Seq(Steps) /\ Len(c) = Len(a) + Len(b)
      /\ \A i \in 1 .. Len(a) : c[i] = a[i]
      /\ \A i \in 1 .. Len(b) : c[Len(a) + i] = b[i]
      /\ \A i \in Len(a) + 1 .. Len(c) : c[i] = b[i - Len(a)]
  BY <1>1
<1> HIDE DEF c
<1>3. Shape(c)
  <2> SUFFICES ASSUME NEW i \in 1 .. Len(c)
               PROVE  /\ c[i] = "load" => IsAt(c, i + 1, "write")
                      /\ c[i] = "delete" => IsAt(c, i + 1, "unlink")
                      /\ c[i] = "record" => IsAt(c, i + 1, "turnOff")
                      /\ c[i] = "turnOn" => IsAt(c, i + 1, "dropConf") /\ IsAt(c, i + 2, "dropBackup")
                      /\ c[i] = "dropConf" => IsAt(c, i + 1, "dropBackup")
                      /\ c[i] = "deregister" => i = Len(c)
                      /\ i > 1 /\ c[i] = "unlink" => c[i - 1] = "delete"
                      /\ i > 1 /\ c[i] = "write" => c[i - 1] = "load"
                      /\ i > 1 /\ c[i] = "dropBackup" => c[i - 1] = "dropConf"
                      /\ i > 1 /\ c[i] = "deregister" => c[i - 1] = "dropReboot"
    BY <1>2 DEF Shape
  <2>1. CASE i \in 1 .. Len(a)
    <3>1. \A k \in Nat : \A x : IsAt(a, k, x) => IsAt(c, k, x)
      BY <1>2 DEF IsAt
    <3>2. c[i] = a[i] /\ (i > 1 => c[i - 1] = a[i - 1]) /\ c[i] # "deregister"
      BY <1>2, <2>1
    <3>3. i \in Nat /\ i + 1 \in Nat /\ i + 2 \in Nat
      OBVIOUS
    <3>4. c[i] = "load" => IsAt(c, i + 1, "write")
      BY <2>1, <3>1, <3>2, <3>3 DEF Shape
    <3>5. c[i] = "delete" => IsAt(c, i + 1, "unlink")
      BY <2>1, <3>1, <3>2, <3>3 DEF Shape
    <3>6. c[i] = "record" => IsAt(c, i + 1, "turnOff")
      BY <2>1, <3>1, <3>2, <3>3 DEF Shape
    <3>7. c[i] = "turnOn" => IsAt(c, i + 1, "dropConf") /\ IsAt(c, i + 2, "dropBackup")
      BY <2>1, <3>1, <3>2, <3>3 DEF Shape
    <3>8. c[i] = "dropConf" => IsAt(c, i + 1, "dropBackup")
      BY <2>1, <3>1, <3>2, <3>3 DEF Shape
    <3> QED BY <2>1, <3>2, <3>4, <3>5, <3>6, <3>7, <3>8 DEF Shape
  <2>2. CASE i \notin 1 .. Len(a)
    <3> DEFINE j == i - Len(a)
    <3>1. j \in 1 .. Len(b) /\ c[i] = b[j] /\ i = Len(a) + j
      BY <1>2, <2>2
    <3>2. \A k \in 1 .. 2 : \A x : IsAt(b, j + k, x) => IsAt(c, i + k, x)
      <4> SUFFICES ASSUME NEW k \in 1 .. 2, NEW x, IsAt(b, j + k, x) PROVE IsAt(c, i + k, x)
        OBVIOUS
      <4>1. j + k \in 1 .. Len(b) /\ b[j + k] = x
        BY DEF IsAt
      <4>2. c[Len(a) + (j + k)] = x
        BY <1>2, <4>1
      <4>3. Len(a) + (j + k) = i + k /\ i + k \in 1 .. Len(c)
        BY <1>2, <4>1
      <4> QED BY <4>2, <4>3 DEF IsAt
    <3>3. j = 1 => c[i] \notin Seconds
      BY <3>1 DEF IsAt
    <3>4. j > 1 => c[i - 1] = b[j - 1]
      <4> SUFFICES ASSUME j > 1 PROVE c[i - 1] = b[j - 1]
        OBVIOUS
      <4>1. j - 1 \in 1 .. Len(b) /\ Len(a) + (j - 1) = i - 1
        BY <3>1
      <4>2. c[Len(a) + (j - 1)] = b[j - 1]
        BY <1>2
      <4> QED BY <4>2
    <3>5. j = Len(b) => i = Len(c)
      BY <1>2
    <3>6. c[i] = "turnOn" => IsAt(c, i + 1, "dropConf") /\ IsAt(c, i + 2, "dropBackup")
      <4> SUFFICES ASSUME c[i] = "turnOn" PROVE IsAt(c, i + 1, "dropConf") /\ IsAt(c, i + 2, "dropBackup")
        OBVIOUS
      <4>1. b[j] = "turnOn"
        BY <3>1
      <4> HIDE DEF j
      <4>2. IsAt(b, j + 1, "dropConf") /\ IsAt(b, j + 2, "dropBackup")
        BY <3>1 DEF Shape
      <4>3. 1 \in 1 .. 2 /\ 2 \in 1 .. 2
        OBVIOUS
      <4> QED BY <3>2, <4>2
    <3>7. c[i] \in Seconds => j > 1
      BY <3>1, <3>3
    <3> HIDE DEF j
    <3> QED BY <3>1, <3>2, <3>4, <3>5, <3>7 DEF Shape, Seconds
  <2> QED BY <2>1, <2>2
<1> QED BY <1>3 DEF c

\* What the steps of the service are replaced by has the shape of a list, begins with no second step
\* and has no unregistering in it.
NewList(s) ==
  /\ Shape(s)
  /\ \A i \in 1 .. Len(s) : s[i] # "deregister"
  /\ \A x \in Seconds : ~IsAt(s, 1, x)

LEMMA NewLists ==
  /\ NewList(<<>>) /\ NewList(Load) /\ NewList(Clear) /\ NewList(Disable) /\ NewList(Restore)
       /\ NewList(<<"dropRA">>)
  /\ NewList(<<"reconcileGuard", "reconcileNic">>) /\ NewList(<<"syncGuard", "syncNic">>)
<1> USE DEF NewList, Shape, IsAt, Seconds, Steps
<1>1. NewList(<<>>)
  OBVIOUS
<1>2. NewList(Load)
  BY DEF Load
<1>3. NewList(Clear)
  BY DEF Clear
<1>4. NewList(Disable)
  BY DEF Disable
<1>5. NewList(Restore)
  BY DEF Restore
<1>6. NewList(<<"dropRA">>)
  OBVIOUS
<1>7. NewList(<<"reconcileGuard", "reconcileNic">>)
  OBVIOUS
<1>8. NewList(<<"syncGuard", "syncNic">>)
  OBVIOUS
<1> QED BY <1>2, <1>3, <1>4, <1>5

\* Two of them make one.
LEMMA NewConcat ==
  ASSUME NEW a, NEW b, NewList(a), NewList(b)
  PROVE  NewList(a \o b)
<1>1. /\ Shape(a \o b) /\ Len(a \o b) = Len(a) + Len(b) /\ Len(a) \in Nat /\ Len(b) \in Nat
      /\ \A i \in 1 .. Len(a) : (a \o b)[i] = a[i]
      /\ \A i \in 1 .. Len(b) : (a \o b)[Len(a) + i] = b[i]
  <2>1. Shape(a) /\ Shape(b) /\ (\A i \in 1 .. Len(a) : a[i] # "deregister") /\ (\A x \in Seconds : ~IsAt(b, 1, x))
    BY DEF NewList
  <2>2. Len(a) \in Nat /\ Len(b) \in Nat
    OBVIOUS
  <2>3. /\ Shape(a \o b) /\ Len(a \o b) = Len(a) + Len(b)
        /\ \A i \in 1 .. Len(a) : (a \o b)[i] = a[i]
        /\ \A i \in 1 .. Len(b) : (a \o b)[Len(a) + i] = b[i]
    BY <2>1, ShapeOfConcat
  <2> QED BY <2>3
<1> DEFINE c == a \o b
<1> HIDE DEF c
<1>2. /\ Shape(c) /\ Len(c) = Len(a) + Len(b)
      /\ \A i \in 1 .. Len(a) : c[i] = a[i]
      /\ \A i \in 1 .. Len(b) : c[Len(a) + i] = b[i]
  BY <1>1 DEF c
<1>3. ASSUME NEW i \in 1 .. Len(c) PROVE c[i] # "deregister"
  <2>1. CASE i <= Len(a)
    BY <1>2, <2>1 DEF NewList
  <2>2. CASE i > Len(a)
    <3>1. i - Len(a) \in 1 .. Len(b) /\ i = Len(a) + (i - Len(a))
      BY <1>2, <2>2
    <3>2. c[i] = b[i - Len(a)]
      BY <1>2, <3>1
    <3> QED BY <3>1, <3>2 DEF NewList
  <2> QED BY <2>1, <2>2
<1>4. ASSUME NEW x \in Seconds, IsAt(c, 1, x) PROVE FALSE
  <2>1. CASE Len(a) > 0
    BY <1>2, <1>4 DEF NewList, IsAt
  <2>2. CASE Len(a) = 0
    <3>1. 1 \in 1 .. Len(b) /\ c[1] = b[1]
      BY <1>2, <1>4, <2>2 DEF IsAt
    <3> QED BY <1>4, <3>1 DEF NewList, IsAt
  <2> QED BY <2>1, <2>2
<1> QED BY <1>2, <1>4 DEF NewList, c

\* A step is done.
LEMMA StepDone ==
  ASSUME Shape(todo), todo # <<>>, todo' = Tail(todo)
  PROVE  /\ Shape(todo') /\ Len(todo) \in Nat /\ Len(todo') = Len(todo) - 1
         /\ \A i \in 1 .. Len(todo) - 1 : todo'[i] = todo[i + 1]
         /\ \A x : IsAt(todo', 1, x) => IsAt(todo, 2, x)
         /\ Uninstalling' => Uninstalling
<1>1. /\ Shape(todo') /\ Len(todo) \in Nat /\ Len(todo') = Len(todo) - 1
      /\ \A i \in 1 .. Len(todo) - 1 : todo'[i] = todo[i + 1]
  <2>1. Shape(todo') /\ Len(todo') = Len(todo) - 1 /\ \A i \in 1 .. Len(todo) - 1 : todo'[i] = todo[i + 1]
    BY ShapeOfTail
  <2>2. Len(todo) \in Nat
    OBVIOUS
  <2> QED BY <2>1
<1>2. ASSUME NEW x, IsAt(todo', 1, x) PROVE IsAt(todo, 2, x)
  BY <1>2 DEF IsAt
<1>3. ASSUME Uninstalling' PROVE Uninstalling
  BY <1>3 DEF Uninstalling, IsAt
<1> QED BY <1>1, <1>2, <1>3

\* A step that is not the first of a pair is replaced by others.
LEMMA StepReplaced ==
  ASSUME Shape(todo), todo # <<>>, NEW s, NewList(s), Then(s),
         todo[1] \notin {"load", "delete", "dropConf", "dropReboot"}
  PROVE  /\ Shape(todo')
         /\ \A x \in Seconds : ~IsAt(todo', 1, x)
         /\ Uninstalling' => Uninstalling
<1> DEFINE r == Tail(todo)
<1>1. /\ Shape(r) /\ Len(todo) \in Nat /\ Len(r) = Len(todo) - 1 /\ Len(todo) > 0
      /\ \A i \in 1 .. Len(todo) - 1 : r[i] = todo[i + 1]
  <2>1. Shape(r) /\ Len(r) = Len(todo) - 1 /\ \A i \in 1 .. Len(todo) - 1 : r[i] = todo[i + 1]
    BY ShapeOfTail
  <2>2. Len(todo) \in Nat /\ Len(todo) > 0
    OBVIOUS
  <2> QED BY <2>1
<1>2. todo' = s \o r
  BY DEF Then
<1> HIDE DEF r
<1>3. ASSUME NEW x \in Seconds, IsAt(r, 1, x) PROVE FALSE
  <2>1. 2 \in 1 .. Len(todo) /\ todo[2] = x /\ 1 \in 1 .. Len(todo)
    BY <1>1, <1>3 DEF IsAt
  <2>2. todo[1] \in {"load", "delete", "dropConf", "dropReboot"}
    BY <2>1 DEF Shape, Seconds
  <2> QED BY <2>2
<1>4. /\ Shape(s) /\ Len(s) \in Nat /\ (\A i \in 1 .. Len(s) : s[i] # "deregister")
      /\ (\A x \in Seconds : ~IsAt(s, 1, x))
  BY DEF NewList
<1>5. /\ Shape(todo') /\ Len(todo') = Len(s) + Len(r)
      /\ \A i \in 1 .. Len(s) : todo'[i] = s[i]
      /\ \A i \in 1 .. Len(r) : todo'[Len(s) + i] = r[i]
  BY <1>1, <1>2, <1>3, <1>4, ShapeOfConcat
<1>6. ASSUME NEW x \in Seconds, IsAt(todo', 1, x) PROVE FALSE
  <2>1. CASE Len(s) > 0
    BY <1>4, <1>5, <1>6, <2>1 DEF IsAt
  <2>2. CASE Len(s) = 0
    <3>1. 1 \in 1 .. Len(r) /\ todo'[1] = r[1]
      BY <1>5, <1>6, <2>2 DEF IsAt
    <3> QED BY <1>3, <1>6, <3>1 DEF IsAt
  <2> QED BY <2>1, <2>2
<1>7. ASSUME Uninstalling' PROVE Uninstalling
  <2>1. Len(todo') \in 1 .. Len(todo') /\ todo'[Len(todo')] = "deregister"
    BY <1>7 DEF Uninstalling, IsAt
  <2>2. Len(r) > 0
    BY <1>4, <1>5, <2>1
  <2>3. todo'[Len(s) + Len(r)] = r[Len(r)]
    BY <1>5, <2>2
  <2>4. r[Len(r)] = todo[Len(todo)]
    BY <1>1, <2>2
  <2> QED BY <1>5, <2>1, <2>3, <2>4 DEF Uninstalling, IsAt
<1> QED BY <1>5, <1>6, <1>7

\* A step that fails takes those with it that need it.
LEMMA PairSkipped ==
  ASSUME Shape(todo), todo # <<>>, todo[1] \in {"load", "delete", "record", "dropConf"}, todo' = Tail(Tail(todo))
  PROVE  /\ Shape(todo') /\ Len(todo) \in Nat /\ Len(todo') = Len(todo) - 2
         /\ \A i \in 1 .. Len(todo) - 2 : todo'[i] = todo[i + 2]
         /\ \A x \in Seconds : ~IsAt(todo', 1, x)
         /\ Uninstalling' => Uninstalling
<1>1. Len(todo) \in Nat /\ 1 \in 1 .. Len(todo) /\ 2 \in 1 .. Len(todo)
      /\ todo[2] \in {"write", "unlink", "turnOff", "dropBackup"}
  BY DEF Shape, IsAt
<1> DEFINE r == Tail(todo)
<1>2. Shape(r) /\ Len(r) = Len(todo) - 1 /\ \A i \in 1 .. Len(todo) - 1 : r[i] = todo[i + 1]
  BY ShapeOfTail
<1>3. todo' = Tail(r)
  OBVIOUS
<1> HIDE DEF r
<1>4. r # <<>>
  BY <1>1, <1>2
<1>5. Shape(todo') /\ Len(todo') = Len(r) - 1 /\ \A i \in 1 .. Len(r) - 1 : todo'[i] = r[i + 1]
  BY <1>2, <1>3, <1>4, ShapeOfTail
<1>6. Len(todo') = Len(todo) - 2 /\ \A i \in 1 .. Len(todo) - 2 : todo'[i] = todo[i + 2]
  <2>1. ASSUME NEW i \in 1 .. Len(todo) - 2 PROVE todo'[i] = todo[i + 2]
    <3>1. i \in 1 .. Len(r) - 1 /\ i + 1 \in 1 .. Len(todo) - 1 /\ (i + 1) + 1 = i + 2
      BY <1>2
    <3>2. todo'[i] = r[i + 1] /\ r[i + 1] = todo[(i + 1) + 1]
      BY <1>2
    <3> QED OBVIOUS
  <2> QED BY <1>1, <1>2
<1>7. ASSUME NEW x \in Seconds, IsAt(todo', 1, x) PROVE FALSE
  <2>1. 3 \in 1 .. Len(todo) /\ todo[3] = x
    BY <1>7 DEF IsAt
  <2> QED BY <1>1, <2>1 DEF Shape, Seconds
<1>8. ASSUME Uninstalling' PROVE Uninstalling
  BY <1>8 DEF Uninstalling, IsAt
<1> QED BY <1>5, <1>6, <1>7, <1>8

\* A restoration that cannot turn the adapters on leaves its files alone.
LEMMA RestoreSkipped ==
  ASSUME Shape(todo), todo # <<>>, todo[1] = "turnOn", todo' = Tail(Tail(Tail(todo)))
  PROVE  /\ Shape(todo') /\ Len(todo) \in Nat /\ Len(todo') = Len(todo) - 3
         /\ \A i \in 1 .. Len(todo) - 3 : todo'[i] = todo[i + 3]
         /\ \A x \in Seconds : ~IsAt(todo', 1, x)
         /\ Uninstalling' => Uninstalling
<1>1. Len(todo) \in Nat /\ 1 \in 1 .. Len(todo) /\ 3 \in 1 .. Len(todo) /\ todo[3] = "dropBackup"
  BY DEF Shape, IsAt
<1> DEFINE r == Tail(todo)
           q == Tail(r)
<1>2. Shape(r) /\ Len(r) = Len(todo) - 1 /\ \A i \in 1 .. Len(todo) - 1 : r[i] = todo[i + 1]
  BY ShapeOfTail
<1>3. todo' = Tail(q)
  OBVIOUS
<1>4. r # <<>>
  BY <1>1
<1>5. Shape(q) /\ Len(q) = Len(r) - 1 /\ \A i \in 1 .. Len(r) - 1 : q[i] = r[i + 1]
  <2> HIDE DEF r
  <2> QED BY <1>2, <1>4, ShapeOfTail
<1> HIDE DEF r, q
<1>6. q # <<>>
  BY <1>1, <1>2, <1>5
<1>7. Shape(todo') /\ Len(todo') = Len(q) - 1 /\ \A i \in 1 .. Len(q) - 1 : todo'[i] = q[i + 1]
  BY <1>3, <1>5, <1>6, ShapeOfTail
<1>8. Len(todo') = Len(todo) - 3 /\ \A i \in 1 .. Len(todo) - 3 : todo'[i] = todo[i + 3]
  <2>1. ASSUME NEW i \in 1 .. Len(todo) - 3 PROVE todo'[i] = todo[i + 3]
    <3>1. /\ i \in 1 .. Len(q) - 1 /\ i + 1 \in 1 .. Len(r) - 1 /\ i + 2 \in 1 .. Len(todo) - 1
          /\ (i + 1) + 1 = i + 2 /\ (i + 2) + 1 = i + 3
      BY <1>2, <1>5
    <3>2. todo'[i] = q[i + 1] /\ q[i + 1] = r[i + 2]
      BY <1>5, <1>7, <3>1
    <3>3. r[i + 2] = todo[i + 3]
      BY <1>2
    <3> QED OBVIOUS
  <2> QED BY <1>1, <1>2, <1>5, <1>7, <2>1
<1>9. ASSUME NEW x \in Seconds, IsAt(todo', 1, x) PROVE FALSE
  <2>1. 4 \in 1 .. Len(todo) /\ todo[4] = x
    BY <1>9 DEF IsAt
  <2> QED BY <1>1, <2>1 DEF Shape, Seconds
<1>10. ASSUME Uninstalling' PROVE Uninstalling
  <2>1. Len(todo') \in 1 .. Len(todo') /\ todo'[Len(todo')] = "deregister"
    BY <1>10 DEF Uninstalling, IsAt
  <2>2. \A k, n \in Nat : n = k - 3 /\ n \in 1 .. n => n \in 1 .. k - 3 /\ n + 3 = k
    OBVIOUS
  <2>3. Len(todo') \in Nat
    OBVIOUS
  <2>4. Len(todo') \in 1 .. Len(todo) - 3 /\ Len(todo') + 3 = Len(todo)
    BY <1>1, <1>8, <2>1, <2>2, <2>3, Zenon
  <2>5. todo[Len(todo)] = "deregister"
    BY <1>8, <2>1, <2>4
  <2> QED BY <2>5 DEF Uninstalling, IsAt
<1> QED BY <1>1, <1>7, <1>8, <1>9, <1>10

(***************************************************************************)
(* Every step keeps the invariant                                          *)
(***************************************************************************)
\* When there is something to do, the computer is on and the service installed.
LEMMA Working ==
  ASSUME BootInv, NEW x, Now(x)
  PROVE  /\ Shape(todo) /\ todo # <<>> /\ todo[1] = x /\ IsAt(todo, 1, x)
         /\ power = "online" /\ installed /\ ~fresh
         /\ x \notin UninstallSteps => ~Uninstalling
<1>1. Shape(todo) /\ todo # <<>> /\ Head(todo) = x
  BY DEF BootInv, Now
<1>2. Len(todo) \in Nat /\ Len(todo) > 0 /\ todo[1] = x /\ IsAt(todo, 1, x)
  BY <1>1 DEF IsAt
<1>3. power = "online" /\ installed /\ ~fresh
  BY <1>1 DEF BootInv, RunInv
<1>4. x \notin UninstallSteps => ~Uninstalling
  BY <1>2 DEF BootInv, UninstallInv
<1> QED BY <1>1, <1>2, <1>3, <1>4

\* A step that is replaced by nothing is done.
LEMMA ThenNothing == ASSUME Shape(todo), todo # <<>>, Then(<<>>) PROVE todo' = Tail(todo)
<1>1. Tail(todo) \in Seq(Steps)
  BY DEF Shape
<1> DEFINE r == Tail(todo)
<1> HIDE DEF r
<1>2. r \in Seq(Steps) => <<>> \o r = r
  OBVIOUS
<1> QED BY DEF Then

\* What the next step is after one that is done, and that an uninstallation goes on as one.
LEMMA Advance ==
  ASSUME BootInv, NEW x, Now(x), todo' = Tail(todo)
  PROVE  /\ Shape(todo')
         /\ IsAt(todo', 1, "unlink") => x = "delete"
         /\ IsAt(todo', 1, "write") => x = "load"
         /\ IsAt(todo', 1, "dropBackup") => x = "dropConf"
         /\ IsAt(todo', 1, "deregister") => x = "dropReboot"
         /\ x = "delete" => IsAt(todo', 1, "unlink")
         /\ x = "load" => IsAt(todo', 1, "write")
         /\ x = "deregister" => todo' = <<>>
         /\ Uninstalling' => Uninstalling /\ ~up /\ \A i \in 1 .. Len(todo') : todo'[i] \in UninstallSteps
<1>1. Shape(todo) /\ todo # <<>> /\ todo[1] = x
  BY Working
<1>2. /\ Shape(todo') /\ Len(todo) \in Nat /\ Len(todo') = Len(todo) - 1
      /\ \A i \in 1 .. Len(todo) - 1 : todo'[i] = todo[i + 1]
      /\ \A y : IsAt(todo', 1, y) => IsAt(todo, 2, y)
      /\ Uninstalling' => Uninstalling
  BY <1>1, StepDone
<1>3. \A y \in Seconds : IsAt(todo', 1, y) => todo[2] = y /\ 2 \in 1 .. Len(todo)
  BY DEF IsAt
<1>4. /\ IsAt(todo', 1, "unlink") => x = "delete"
      /\ IsAt(todo', 1, "write") => x = "load"
      /\ IsAt(todo', 1, "dropBackup") => x = "dropConf"
      /\ IsAt(todo', 1, "deregister") => x = "dropReboot"
  BY <1>1, <1>3 DEF Shape, Seconds
<1>5. 1 \in 1 .. Len(todo)
  BY <1>1
<1>6. /\ x = "delete" => IsAt(todo', 1, "unlink")
      /\ x = "load" => IsAt(todo', 1, "write")
  <2>1. /\ todo[1] = "delete" => IsAt(todo, 1 + 1, "unlink")
        /\ todo[1] = "load" => IsAt(todo, 1 + 1, "write")
    BY <1>1 DEF Shape
  <2> QED BY <1>1, <2>1 DEF IsAt
<1>7. x = "deregister" => todo' = <<>>
  <2>1. todo[1] = "deregister" => 1 = Len(todo)
    BY <1>1, <1>5 DEF Shape
  <2>2. ASSUME x = "deregister" PROVE todo' = <<>>
    <3>1. Len(todo) = 1
      BY <1>1, <2>1, <2>2
    <3>2. Len(todo') = 0 /\ todo' \in Seq(Steps)
      BY <1>2, <3>1 DEF Shape
    <3> QED BY <3>2
  <2> QED BY <2>2
<1>8. Uninstalling' => Uninstalling /\ ~up /\ \A i \in 1 .. Len(todo') : todo'[i] \in UninstallSteps
  BY <1>2 DEF BootInv, UninstallInv
<1> QED BY <1>2, <1>4, <1>6, <1>7, <1>8

\* A list is one of steps.
LEMMA ListTyped == \A s : Shape(s) => s \in Seq(Steps)
BY DEF Shape

\* An empty list.
LEMMA NothingToDo ==
  ASSUME todo' = <<>>
  PROVE  /\ Shape(todo') /\ todo' \in Seq(Steps) /\ ~Uninstalling'
         /\ \A x : ~IsAt(todo', 1, x)
BY NewLists DEF NewList, IsAt, Uninstalling

\* A table that is loaded is written down next.
LEMMA LoadTableKeeps ==
  ASSUME BootInv, LoadTable
  PROVE  BootInv'
<1>1. Now("load")
  BY DEF LoadTable
<1>2. "load" \notin UninstallSteps
  BY DEF UninstallSteps
<1>3. Shape(todo) /\ todo # <<>> /\ todo[1] = "load" /\ IsAt(todo, 1, "load") /\ power = "online" /\ installed
      /\ ~fresh
  BY <1>1, Working
<1>4. ~Uninstalling
  BY <1>1, <1>2, Working
<1>5. CASE table' = "guard" /\ bare' = bare \ {"table"} /\ Then(<<>>)
           /\ said' = (IF said = "on" THEN "on" ELSE "nothing")
  <2>1. todo' = Tail(todo)
    BY <1>3, <1>5, ThenNothing
  <2>2. Shape(todo') /\ IsAt(todo', 1, "write") /\ ~IsAt(todo', 1, "unlink") /\ ~IsAt(todo', 1, "dropBackup")
        /\ ~IsAt(todo', 1, "deregister") /\ ~Uninstalling'
    BY <1>1, <1>4, <2>1, Advance
  <2>3. todo' \in Seq(Steps)
    BY <2>2, ListTyped
  <2>4. DiskTypeOK'
    BY DEF LoadTable, BootInv, BootTypeOK, DiskTypeOK, diskVars, fixedVars
  <2>5. NetTypeOK'
    BY DEF LoadTable, BootInv, BootTypeOK, NetTypeOK
  <2>6. ProcTypeOK' /\ PastTypeOK'
    BY <2>3 DEF LoadTable, BootInv, BootTypeOK, ProcTypeOK, PastTypeOK, fixedVars
  <2>7. NextSteps'
    BY <1>5, <2>2 DEF NextSteps
  <2>8. UninstallInv'
    BY <2>2 DEF UninstallInv
  <2>9. RunInv'
    BY <1>3, <2>2 DEF LoadTable, RunInv, diskVars
  <2>10. CoverInv'
    BY <1>3 DEF LoadTable, BootInv, CoverInv, diskVars
  <2>11. AdapterInv'
    BY DEF LoadTable, BootInv, AdapterInv, diskVars
  <2> QED BY <2>2, <2>4, <2>5, <2>6, <2>7, <2>8, <2>9, <2>10, <2>11
             DEF BootInv, BootTypeOK
<1>6. CASE todo' = Tail(Tail(todo)) /\ UNCHANGED <<table, bare>>
           /\ said' = (IF said = "on" /\ table = "none" THEN "nothing" ELSE said)
  <2>1. Shape(todo') /\ ~IsAt(todo', 1, "write") /\ ~IsAt(todo', 1, "unlink") /\ ~IsAt(todo', 1, "dropBackup")
        /\ ~IsAt(todo', 1, "deregister")
        /\ ~Uninstalling'
    BY <1>3, <1>4, <1>6, PairSkipped DEF Seconds
  <2>2. ~IsAt(todo, 1, "write")
    BY <1>3 DEF IsAt
  <2>3. todo' \in Seq(Steps)
    BY <2>1, ListTyped
  <2>4. DiskTypeOK'
    BY DEF LoadTable, BootInv, BootTypeOK, DiskTypeOK, diskVars, fixedVars
  <2>5. NetTypeOK'
    BY DEF LoadTable, BootInv, BootTypeOK, NetTypeOK
  <2>6. ProcTypeOK' /\ PastTypeOK'
    BY <2>3 DEF LoadTable, BootInv, BootTypeOK, ProcTypeOK, PastTypeOK, fixedVars
  <2>7. NextSteps'
    BY <2>1 DEF NextSteps
  <2>8. UninstallInv'
    BY <2>1 DEF UninstallInv
  <2>9. RunInv'
    BY <1>6, <2>2 DEF LoadTable, BootInv, RunInv, diskVars
  <2>10. CoverInv'
    BY <1>3 DEF LoadTable, BootInv, CoverInv, diskVars
  <2>11. AdapterInv'
    BY DEF LoadTable, BootInv, AdapterInv, diskVars
  <2> QED BY <2>1, <2>4, <2>5, <2>6, <2>7, <2>8, <2>9, <2>10, <2>11
             DEF BootInv, BootTypeOK
<1> QED BY <1>5, <1>6 DEF LoadTable
, fixedVars, pastVars, LiftsBlock
\* The file is written while the table is there.
LEMMA WriteBootGuardKeeps ==
  ASSUME BootInv, WriteBootGuard
  PROVE  BootInv'
<1>1. Now("write")
  BY DEF WriteBootGuard, LiftsBlock
<1>2. "write" \notin UninstallSteps
  BY DEF UninstallSteps
<1>3. Shape(todo) /\ todo # <<>> /\ todo[1] = "write" /\ IsAt(todo, 1, "write") /\ power = "online" /\ installed
      /\ ~fresh
  BY <1>1, Working
<1>4. ~Uninstalling
  BY <1>1, <1>2, Working
<1>5. todo' = Tail(todo)
  BY <1>3, ThenNothing DEF WriteBootGuard
<1>6. Shape(todo') /\ ~IsAt(todo', 1, "write") /\ ~IsAt(todo', 1, "unlink") /\ ~IsAt(todo', 1, "dropBackup")
      /\ ~IsAt(todo', 1, "deregister") /\ ~Uninstalling'
  BY <1>1, <1>4, <1>5, Advance
<1>7. todo' \in Seq(Steps)
  BY <1>6, ListTyped
<1>8. DiskTypeOK'
  BY DEF WriteBootGuard, BootInv, BootTypeOK, DiskTypeOK, fixedVars
<1>9. NetTypeOK'
  BY DEF WriteBootGuard, BootInv, BootTypeOK, NetTypeOK, netVars
<1>10. ProcTypeOK' /\ PastTypeOK'
  BY <1>7 DEF WriteBootGuard, BootInv, BootTypeOK, ProcTypeOK, PastTypeOK, fixedVars
<1>11. NextSteps'
  BY <1>6 DEF NextSteps
<1>12. UninstallInv'
  BY <1>6 DEF UninstallInv
<1>13. RunInv'
  BY <1>3 DEF WriteBootGuard, RunInv, netVars
<1>14. CoverInv'
  BY <1>3 DEF WriteBootGuard, BootInv, NextSteps, CoverInv, netVars
<1>15. AdapterInv'
  BY <1>3 DEF WriteBootGuard, BootInv, AdapterInv
<1> QED BY <1>6, <1>8, <1>9, <1>10, <1>11, <1>12, <1>13, <1>14, <1>15
           DEF BootInv, BootTypeOK

\* The table goes; the file is next, unless the service is to try again later.
LEMMA DeleteTableKeeps ==
  ASSUME BootInv, DeleteTable
  PROVE  BootInv'
<1>1. Now("delete")
  BY DEF DeleteTable
<1>3. Shape(todo) /\ todo # <<>> /\ todo[1] = "delete" /\ IsAt(todo, 1, "delete") /\ power = "online" /\ installed
      /\ ~fresh
  BY <1>1, Working
<1>4. ~IsAt(todo, 1, "write")
  BY <1>3 DEF IsAt
<1>5. CASE table' = "none" /\ Then(<<>>) /\ UNCHANGED on
  <2>1. todo' = Tail(todo)
    BY <1>3, <1>5, ThenNothing
  <2>2. Shape(todo') /\ ~IsAt(todo', 1, "write") /\ IsAt(todo', 1, "unlink") /\ ~IsAt(todo', 1, "dropBackup")
        /\ ~IsAt(todo', 1, "deregister")
        /\ (Uninstalling' => Uninstalling /\ ~up /\ \A i \in 1 .. Len(todo') : todo'[i] \in UninstallSteps)
    BY <1>1, <2>1, Advance
  <2>3. todo' \in Seq(Steps)
    BY <2>2, ListTyped
  <2>4. DiskTypeOK'
    BY DEF DeleteTable, BootInv, BootTypeOK, DiskTypeOK, diskVars, fixedVars
  <2>5. NetTypeOK'
    BY DEF DeleteTable, BootInv, BootTypeOK, NetTypeOK
  <2>6. ProcTypeOK' /\ PastTypeOK'
    BY <1>5, <2>3
       DEF DeleteTable, BootInv, BootTypeOK, ProcTypeOK, PastTypeOK, fixedVars
  <2>7. NextSteps'
    BY <1>5, <2>2 DEF NextSteps
  <2>8. UninstallInv'
    BY <2>2 DEF DeleteTable, UninstallInv
  <2>9. RunInv'
    BY <1>3 DEF DeleteTable, RunInv, diskVars
  <2>10. CoverInv'
    BY <1>3 DEF DeleteTable, CoverInv, diskVars
  <2>11. AdapterInv'
    BY DEF DeleteTable, BootInv, AdapterInv, diskVars
  <2> QED BY <2>2, <2>4, <2>5, <2>6, <2>7, <2>8, <2>9, <2>10, <2>11
             DEF BootInv, BootTypeOK
<1>6. CASE on' = TRUE /\ table # "none" /\ UNCHANGED table /\ todo' = IF up THEN Tail(Tail(todo)) ELSE <<>>
  <2>1. Shape(todo') /\ ~IsAt(todo', 1, "write") /\ ~IsAt(todo', 1, "unlink") /\ ~IsAt(todo', 1, "dropBackup")
        /\ ~IsAt(todo', 1, "deregister")
        /\ ~Uninstalling'
    <3>1. CASE up
      <4>1. ~Uninstalling /\ todo' = Tail(Tail(todo))
        BY <1>6, <3>1 DEF BootInv, UninstallInv
      <4> QED BY <1>3, <4>1, PairSkipped DEF Seconds
    <3>2. CASE ~up
      BY <1>6, <3>2, NothingToDo
    <3> QED BY <3>1, <3>2
  <2>2. todo' \in Seq(Steps)
    BY <2>1, ListTyped
  <2>3. DiskTypeOK'
    BY DEF DeleteTable, BootInv, BootTypeOK, DiskTypeOK, diskVars, fixedVars
  <2>4. NetTypeOK'
    BY DEF DeleteTable, BootInv, BootTypeOK, NetTypeOK
  <2>5. ProcTypeOK' /\ PastTypeOK'
    BY <1>6, <2>2
       DEF DeleteTable, BootInv, BootTypeOK, ProcTypeOK, PastTypeOK, fixedVars
  <2>6. NextSteps'
    BY <2>1 DEF NextSteps
  <2>7. UninstallInv'
    BY <2>1 DEF UninstallInv
  <2>8. RunInv'
    BY <1>3 DEF DeleteTable, RunInv, diskVars
  <2>9. CoverInv'
    BY <1>3 DEF DeleteTable, CoverInv, diskVars
  <2>10. AdapterInv'
    BY DEF DeleteTable, BootInv, AdapterInv, diskVars
  <2> QED BY <2>1, <2>3, <2>4, <2>5, <2>6, <2>7, <2>8, <2>9, <2>10
             DEF BootInv, BootTypeOK
<1> QED BY <1>5, <1>6 DEF DeleteTable
, fixedVars, pastVars, LiftsBlock
\* The file goes after the table.
LEMMA UnlinkKeeps ==
  ASSUME BootInv, Unlink
  PROVE  BootInv'
<1>1. Now("unlink")
  BY DEF Unlink, LiftsBlock
<1>3. Shape(todo) /\ todo # <<>> /\ todo[1] = "unlink" /\ IsAt(todo, 1, "unlink") /\ power = "online" /\ installed
      /\ ~fresh
  BY <1>1, Working
<1>4. table = "none" /\ ra \in BOOLEAN
  BY <1>3 DEF BootInv, BootTypeOK, NetTypeOK, NextSteps
<1>5. CASE ~up /\ todo' = <<>> /\ on' = TRUE /\ UNCHANGED <<file, ra, said, stuck>>
  <2>1. Shape(todo') /\ ~IsAt(todo', 1, "write") /\ ~IsAt(todo', 1, "unlink") /\ ~IsAt(todo', 1, "dropBackup")
        /\ ~IsAt(todo', 1, "deregister")
        /\ ~Uninstalling' /\ todo' \in Seq(Steps)
    BY <1>5, NothingToDo
  <2>2. DiskTypeOK'
    BY DEF Unlink, BootInv, BootTypeOK, DiskTypeOK, fixedVars
  <2>3. NetTypeOK'
    BY <1>5 DEF Unlink, BootInv, BootTypeOK, NetTypeOK
  <2>4. ProcTypeOK' /\ PastTypeOK'
    BY <1>5 DEF Unlink, BootInv, BootTypeOK, ProcTypeOK, PastTypeOK, fixedVars
  <2>5. NextSteps'
    BY <2>1 DEF NextSteps
  <2>6. UninstallInv'
    BY <2>1 DEF UninstallInv
  <2>7. RunInv'
    BY <1>3, <1>4 DEF Unlink, RunInv
  <2>8. CoverInv'
    BY <1>4 DEF Unlink, BootInv, CoverInv
  <2>9. AdapterInv'
    BY <1>3 DEF Unlink, BootInv, AdapterInv
  <2> QED BY <2>1, <2>2, <2>3, <2>4, <2>5, <2>6, <2>7, <2>8, <2>9
             DEF BootInv, BootTypeOK
<1>6. CASE /\ todo' = Tail(todo)
           /\ \/ /\ file' = "none" /\ LiftsBlock /\ on' = FALSE /\ said' = "gone"
                 /\ stuck' = (IF ra' THEN stuck \cup {"ra"} ELSE stuck)
              \/ up /\ on' = TRUE /\ UNCHANGED <<file, ra, said, stuck>>
  <2>1. Shape(todo') /\ ~IsAt(todo', 1, "write") /\ ~IsAt(todo', 1, "unlink") /\ ~IsAt(todo', 1, "dropBackup")
        /\ ~IsAt(todo', 1, "deregister")
        /\ (Uninstalling' => Uninstalling /\ ~up /\ \A i \in 1 .. Len(todo') : todo'[i] \in UninstallSteps)
    BY <1>1, <1>6, Advance
  <2>2. todo' \in Seq(Steps)
    BY <2>1, ListTyped
  <2>3. DiskTypeOK'
    BY DEF Unlink, BootInv, BootTypeOK, DiskTypeOK, fixedVars
  <2>4. NetTypeOK'
    BY DEF Unlink, BootInv, BootTypeOK, NetTypeOK, LiftsBlock
  <2>5. ProcTypeOK' /\ PastTypeOK'
    BY <2>2 DEF Unlink, BootInv, BootTypeOK, ProcTypeOK, PastTypeOK, fixedVars
  <2>6. NextSteps'
    BY <2>1 DEF NextSteps
  <2>7. UninstallInv'
    BY <1>4, <1>6, <2>1 DEF Unlink, UninstallInv
  <2>8. RunInv'
    BY <1>3, <1>4 DEF Unlink, RunInv
  <2>9. CoverInv'
    BY <1>4 DEF Unlink, BootInv, CoverInv
  <2>10. AdapterInv'
    BY <1>3 DEF Unlink, BootInv, AdapterInv
  <2> QED BY <2>1, <2>3, <2>4, <2>5, <2>6, <2>7, <2>8, <2>9, <2>10
             DEF BootInv, BootTypeOK
<1> QED BY <1>3, <1>5, <1>6, ThenNothing DEF Unlink
, fixedVars, pastVars, LiftsBlock
\* The adapter is turned off, or stays on record as to be turned off.
LEMMA TurnOffKeeps ==
  ASSUME BootInv, TurnOff
  PROVE  BootInv'
<1>1. Now("turnOff")
  BY DEF TurnOff, LiftsBlock
<1>2. "turnOff" \notin UninstallSteps
  BY DEF UninstallSteps
<1>3. Shape(todo) /\ todo # <<>> /\ todo[1] = "turnOff" /\ IsAt(todo, 1, "turnOff") /\ power = "online" /\ installed
      /\ ~fresh
  BY <1>1, Working
<1>4. ~Uninstalling
  BY <1>1, <1>2, Working
<1>5. todo' = Tail(todo)
  BY <1>3, ThenNothing DEF TurnOff
<1>6. Shape(todo') /\ ~IsAt(todo', 1, "write") /\ ~IsAt(todo', 1, "unlink") /\ ~IsAt(todo', 1, "dropBackup")
      /\ ~IsAt(todo', 1, "deregister") /\ ~Uninstalling'
  BY <1>1, <1>4, <1>5, Advance
<1>7. todo' \in Seq(Steps)
  BY <1>6, ListTyped
<1>8. ~IsAt(todo, 1, "write")
  BY <1>3 DEF IsAt
<1>9. DiskTypeOK'
  BY DEF TurnOff, BootInv, BootTypeOK, DiskTypeOK, diskVars, fixedVars
<1>10. NetTypeOK'
  BY DEF TurnOff, BootInv, BootTypeOK, NetTypeOK
<1>11. ProcTypeOK' /\ PastTypeOK'
  BY <1>7
     DEF TurnOff, BootInv, BootTypeOK, NetTypeOK, ProcTypeOK, PastTypeOK, fixedVars,
         pastVars
<1>12. NextSteps'
  BY <1>6 DEF NextSteps
<1>13. UninstallInv'
  BY <1>6 DEF UninstallInv
<1>14. RunInv'
  BY <1>3, <1>8 DEF TurnOff, BootInv, RunInv, diskVars, pastVars
<1>15. CoverInv'
  BY DEF TurnOff, BootInv, CoverInv, diskVars, pastVars
<1>16. AdapterInv'
  BY DEF TurnOff, BootInv, AdapterInv, diskVars, pastVars
<1> QED BY <1>6, <1>9, <1>10, <1>11, <1>12, <1>13, <1>14, <1>15, <1>16
           DEF BootInv, BootTypeOK

\* After this no adapter is turned off at a boot.
LEMMA DropConfKeeps ==
  ASSUME BootInv, DropConf
  PROVE  BootInv'
<1>1. Now("dropConf")
  BY DEF DropConf
<1>3. Shape(todo) /\ todo # <<>> /\ todo[1] = "dropConf" /\ IsAt(todo, 1, "dropConf") /\ power = "online"
      /\ installed /\ ~fresh
  BY <1>1, Working
<1>6. Shape(todo') /\ ~IsAt(todo', 1, "write") /\ ~IsAt(todo', 1, "unlink") /\ ~IsAt(todo', 1, "deregister")
      /\ (IsAt(todo', 1, "dropBackup") => ~conf')
      /\ (Uninstalling' => Uninstalling /\ ~up /\ \A i \in 1 .. Len(todo') : todo'[i] \in UninstallSteps)
  <2>1. CASE conf' = FALSE /\ Then(<<>>)
    <3>1. todo' = Tail(todo)
      BY <1>3, <2>1, ThenNothing
    <3> QED BY <1>1, <2>1, <3>1, Advance
  <2>2. CASE todo' = Tail(Tail(todo))
    <3>1. Shape(todo') /\ Len(todo) \in Nat /\ Len(todo') = Len(todo) - 2 /\ (Uninstalling' => Uninstalling)
          /\ (\A i \in 1 .. Len(todo) - 2 : todo'[i] = todo[i + 2]) /\ \A x \in Seconds : ~IsAt(todo', 1, x)
      BY <1>3, <2>2, PairSkipped
    <3>2. Uninstalling' => Uninstalling /\ ~up /\ \A i \in 1 .. Len(todo') : todo'[i] \in UninstallSteps
      BY <3>1 DEF BootInv, UninstallInv
    <3> QED BY <3>1, <3>2 DEF Seconds
  <2> QED BY <2>1, <2>2 DEF DropConf
<1>7. todo' \in Seq(Steps)
  BY <1>6, ListTyped
<1>8. ~IsAt(todo, 1, "write") /\ ~IsAt(todo, 1, "delete") /\ ~IsAt(todo, 1, "unlink")
  BY <1>3 DEF IsAt
<1>9. DiskTypeOK'
  BY DEF DropConf, BootInv, BootTypeOK, DiskTypeOK, fixedVars
<1>10. NetTypeOK'
  BY DEF DropConf, BootInv, BootTypeOK, NetTypeOK, netVars
<1>11. ProcTypeOK' /\ PastTypeOK'
  BY <1>7
     DEF DropConf, BootInv, BootTypeOK, ProcTypeOK, PastTypeOK, fixedVars, pastVars
<1>12. NextSteps'
  BY <1>6 DEF NextSteps
<1>13. UninstallInv'
  BY <1>6, <1>8 DEF DropConf, BootInv, UninstallInv, netVars, pastVars
<1>14. RunInv'
  BY <1>3, <1>8 DEF DropConf, BootInv, RunInv, netVars, pastVars
<1>15. CoverInv'
  BY DEF DropConf, BootInv, CoverInv, netVars, pastVars
<1>16. AdapterInv'
  BY <1>3 DEF DropConf, BootInv, AdapterInv, pastVars
<1> QED BY <1>6, <1>9, <1>10, <1>11, <1>12, <1>13, <1>14, <1>15, <1>16
           DEF BootInv, BootTypeOK

\* The record goes after the file that acts at a boot.
LEMMA DropBackupKeeps ==
  ASSUME BootInv, DropBackup
  PROVE  BootInv'
<1>1. Now("dropBackup")
  BY DEF DropBackup
<1>3. Shape(todo) /\ todo # <<>> /\ todo[1] = "dropBackup" /\ IsAt(todo, 1, "dropBackup") /\ power = "online"
      /\ installed /\ ~fresh
  BY <1>1, Working
<1>5. todo' = Tail(todo)
  BY <1>3, ThenNothing DEF DropBackup
<1>6. Shape(todo') /\ ~IsAt(todo', 1, "write") /\ ~IsAt(todo', 1, "unlink")
      /\ ~IsAt(todo', 1, "dropBackup") /\ ~IsAt(todo', 1, "deregister") /\ (Uninstalling' => Uninstalling /\ ~up
           /\ \A i \in 1 .. Len(todo') : todo'[i] \in UninstallSteps)
  BY <1>1, <1>5, Advance
<1>7. todo' \in Seq(Steps)
  BY <1>6, ListTyped
<1>8. ~IsAt(todo, 1, "write") /\ ~IsAt(todo, 1, "delete") /\ ~IsAt(todo, 1, "unlink")
  BY <1>3 DEF IsAt
<1>9. DiskTypeOK'
  BY DEF DropBackup, BootInv, BootTypeOK, DiskTypeOK, fixedVars
<1>10. NetTypeOK'
  BY DEF DropBackup, BootInv, BootTypeOK, NetTypeOK, netVars
<1>11. ProcTypeOK' /\ PastTypeOK'
  BY <1>7
     DEF DropBackup, BootInv, BootTypeOK, ProcTypeOK, PastTypeOK, fixedVars,
         pastVars
<1>12. NextSteps'
  BY <1>6 DEF NextSteps
<1>13. UninstallInv'
  BY <1>6, <1>8 DEF DropBackup, BootInv, UninstallInv, netVars, pastVars
<1>14. RunInv'
  BY <1>3, <1>8 DEF DropBackup, BootInv, RunInv, netVars, pastVars
<1>15. CoverInv'
  BY DEF DropBackup, BootInv, CoverInv, netVars, pastVars
<1>16. AdapterInv'
  BY <1>3 DEF DropBackup, BootInv, NextSteps, AdapterInv, pastVars
<1> QED BY <1>6, <1>9, <1>10, <1>11, <1>12, <1>13, <1>14, <1>15, <1>16
           DEF BootInv, BootTypeOK

\* Advertisements may come when the adapters are off, or when nobody wants them off.
LEMMA DropBootRAKeeps ==
  ASSUME BootInv, DropBootRA
  PROVE  BootInv'
<1>1. Now("dropRA")
  BY DEF DropBootRA
<1>2. "dropRA" \notin UninstallSteps
  BY DEF UninstallSteps
<1>3. Shape(todo) /\ todo # <<>> /\ todo[1] = "dropRA" /\ IsAt(todo, 1, "dropRA") /\ power = "online" /\ installed
      /\ ~fresh
  BY <1>1, Working
<1>4. ~Uninstalling
  BY <1>1, <1>2, Working
<1>5. todo' = Tail(todo)
  BY <1>3, ThenNothing DEF DropBootRA
<1>6. Shape(todo') /\ ~IsAt(todo', 1, "write") /\ ~IsAt(todo', 1, "unlink") /\ ~IsAt(todo', 1, "dropBackup")
      /\ ~IsAt(todo', 1, "deregister") /\ ~Uninstalling'
  BY <1>1, <1>4, <1>5, Advance
<1>7. todo' \in Seq(Steps)
  BY <1>6, ListTyped
<1>8. ~IsAt(todo, 1, "write")
  BY <1>3 DEF IsAt
<1>9. DiskTypeOK'
  BY DEF DropBootRA, BootInv, BootTypeOK, DiskTypeOK, diskVars, fixedVars
<1>10. NetTypeOK'
  BY DEF DropBootRA, BootInv, BootTypeOK, NetTypeOK, LiftsBlock
<1>11. ProcTypeOK' /\ PastTypeOK'
  BY <1>7
     DEF DropBootRA, BootInv, BootTypeOK, ProcTypeOK, PastTypeOK, fixedVars,
         pastVars
<1>12. NextSteps'
  BY <1>6 DEF NextSteps
<1>13. UninstallInv'
  BY <1>6 DEF UninstallInv
<1>14. RunInv'
  BY <1>3, <1>8 DEF DropBootRA, BootInv, RunInv, diskVars, pastVars
<1>15. CoverInv'
  BY <1>3 DEF DropBootRA, BootInv, CoverInv, diskVars, pastVars
<1>16. AdapterInv'
  BY <1>3 DEF DropBootRA, BootInv, AdapterInv, diskVars, pastVars
<1> QED BY <1>6, <1>9, <1>10, <1>11, <1>12, <1>13, <1>14, <1>15, <1>16
           DEF BootInv, BootTypeOK

\* What is decided about the adapters is a list of its own.
LEMMA NicStepsNew == \A w \in BOOLEAN : NewList(NicSteps(w))
<1> SUFFICES ASSUME NEW w \in BOOLEAN PROVE NewList(NicSteps(w))
  OBVIOUS
<1> DEFINE s == IF w THEN IF ~backup \/ pending \/ Drifted THEN Disable ELSE <<>>
                ELSE IF backup THEN Restore ELSE <<>>
<1>1. NewList(s)
  BY NewLists
<1>2. NicSteps(w) = s \o <<"dropRA">>
  BY DEF NicSteps
<1> HIDE DEF s
<1> QED BY <1>1, <1>2, NewLists, NewConcat

\* At the start of the service.
LEMMA reconcileGuardKeeps ==
  ASSUME BootInv, reconcileGuard
  PROVE  BootInv'
<1>1. Now("reconcileGuard")
  BY DEF reconcileGuard
<1>2. "reconcileGuard" \notin UninstallSteps
  BY DEF UninstallSteps
<1>3. Shape(todo) /\ todo # <<>> /\ todo[1] = "reconcileGuard" /\ IsAt(todo, 1, "reconcileGuard")
      /\ power = "online" /\ installed /\ ~fresh
  BY <1>1, Working
<1>4. ~Uninstalling
  BY <1>1, <1>2, Working
<1>5. \E s : NewList(s) /\ Then(s)
  BY NewLists DEF reconcileGuard
<1>6. PICK s : NewList(s) /\ Then(s)
  BY <1>5
<1>7. Shape(todo') /\ ~IsAt(todo', 1, "write") /\ ~IsAt(todo', 1, "unlink") /\ ~IsAt(todo', 1, "dropBackup")
      /\ ~IsAt(todo', 1, "deregister") /\ ~Uninstalling'
  BY <1>3, <1>4, <1>6, StepReplaced DEF Seconds
<1>8. todo' \in Seq(Steps) /\ ~IsAt(todo, 1, "write")
  BY <1>3, <1>7, ListTyped DEF IsAt
<1>9. DiskTypeOK'
  BY DEF reconcileGuard, BootInv, BootTypeOK, DiskTypeOK, diskVars, fixedVars
<1>10. NetTypeOK'
  BY DEF reconcileGuard, BootInv, BootTypeOK, NetTypeOK, netVars
<1>11. ProcTypeOK' /\ PastTypeOK'
  BY <1>8
     DEF reconcileGuard, BootInv, BootTypeOK, ProcTypeOK, PastTypeOK, fixedVars,
         pastVars
<1>12. NextSteps'
  BY <1>7 DEF NextSteps
<1>13. UninstallInv'
  BY <1>7 DEF UninstallInv
<1>14. RunInv'
  BY <1>3, <1>8 DEF reconcileGuard, BootInv, RunInv, diskVars, netVars, pastVars
<1>15. CoverInv'
  BY DEF reconcileGuard, BootInv, CoverInv, diskVars, netVars, pastVars
<1>16. AdapterInv'
  BY <1>3 DEF reconcileGuard, BootInv, AdapterInv, diskVars, pastVars
<1> QED BY <1>7, <1>9, <1>10, <1>11, <1>12, <1>13, <1>14, <1>15, <1>16
           DEF BootInv, BootTypeOK

\* At the start of the service.
LEMMA reconcileNicKeeps ==
  ASSUME BootInv, reconcileNic
  PROVE  BootInv'
<1>1. Now("reconcileNic")
  BY DEF reconcileNic
<1>2. "reconcileNic" \notin UninstallSteps
  BY DEF UninstallSteps
<1>3. Shape(todo) /\ todo # <<>> /\ todo[1] = "reconcileNic" /\ IsAt(todo, 1, "reconcileNic") /\ power = "online"
      /\ installed /\ ~fresh
  BY <1>1, Working
<1>4. ~Uninstalling
  BY <1>1, <1>2, Working
<1>5. \E s : NewList(s) /\ Then(s)
  <2>1. (wish = "yes" /\ nicSetting) \in BOOLEAN
    OBVIOUS
  <2> QED BY NewLists, NicStepsNew DEF reconcileNic
<1>6. PICK s : NewList(s) /\ Then(s)
  BY <1>5
<1>7. Shape(todo') /\ ~IsAt(todo', 1, "write") /\ ~IsAt(todo', 1, "unlink") /\ ~IsAt(todo', 1, "dropBackup")
      /\ ~IsAt(todo', 1, "deregister") /\ ~Uninstalling'
  BY <1>3, <1>4, <1>6, StepReplaced DEF Seconds
<1>8. todo' \in Seq(Steps) /\ ~IsAt(todo, 1, "write")
  BY <1>3, <1>7, ListTyped DEF IsAt
<1>9. DiskTypeOK'
  BY DEF reconcileNic, BootInv, BootTypeOK, DiskTypeOK, diskVars, fixedVars
<1>10. NetTypeOK'
  BY DEF reconcileNic, BootInv, BootTypeOK, NetTypeOK, netVars
<1>11. ProcTypeOK' /\ PastTypeOK'
  BY <1>8
     DEF reconcileNic, BootInv, BootTypeOK, ProcTypeOK, PastTypeOK, fixedVars,
         pastVars
<1>12. NextSteps'
  BY <1>7 DEF NextSteps
<1>13. UninstallInv'
  BY <1>7 DEF UninstallInv
<1>14. RunInv'
  BY <1>3, <1>8 DEF reconcileNic, BootInv, RunInv, diskVars, netVars, pastVars
<1>15. CoverInv'
  BY DEF reconcileNic, BootInv, CoverInv, diskVars, netVars, pastVars
<1>16. AdapterInv'
  BY <1>3 DEF reconcileNic, BootInv, AdapterInv, diskVars, pastVars
<1> QED BY <1>7, <1>9, <1>10, <1>11, <1>12, <1>13, <1>14, <1>15, <1>16
           DEF BootInv, BootTypeOK

\* When the user asks.
LEMMA syncGuardKeeps ==
  ASSUME BootInv, syncGuard
  PROVE  BootInv'
<1>1. Now("syncGuard")
  BY DEF syncGuard
<1>2. "syncGuard" \notin UninstallSteps
  BY DEF UninstallSteps
<1>3. Shape(todo) /\ todo # <<>> /\ todo[1] = "syncGuard" /\ IsAt(todo, 1, "syncGuard") /\ power = "online"
      /\ installed /\ ~fresh
  BY <1>1, Working
<1>4. ~Uninstalling
  BY <1>1, <1>2, Working
<1>5. \E s : NewList(s) /\ Then(s)
  BY NewLists DEF syncGuard
<1>6. PICK s : NewList(s) /\ Then(s)
  BY <1>5
<1>7. Shape(todo') /\ ~IsAt(todo', 1, "write") /\ ~IsAt(todo', 1, "unlink") /\ ~IsAt(todo', 1, "dropBackup")
      /\ ~IsAt(todo', 1, "deregister") /\ ~Uninstalling'
  BY <1>3, <1>4, <1>6, StepReplaced DEF Seconds
<1>8. todo' \in Seq(Steps) /\ ~IsAt(todo, 1, "write")
  BY <1>3, <1>7, ListTyped DEF IsAt
<1>9. DiskTypeOK'
  BY DEF syncGuard, BootInv, BootTypeOK, DiskTypeOK, diskVars, fixedVars
<1>10. NetTypeOK'
  BY DEF syncGuard, BootInv, BootTypeOK, NetTypeOK, netVars
<1>11. ProcTypeOK' /\ PastTypeOK'
  BY <1>8
     DEF syncGuard, BootInv, BootTypeOK, ProcTypeOK, PastTypeOK, fixedVars, pastVars
<1>12. NextSteps'
  BY <1>7 DEF NextSteps
<1>13. UninstallInv'
  BY <1>7 DEF UninstallInv
<1>14. RunInv'
  BY <1>3, <1>8 DEF syncGuard, BootInv, RunInv, diskVars, netVars, pastVars
<1>15. CoverInv'
  BY DEF syncGuard, BootInv, CoverInv, diskVars, netVars, pastVars
<1>16. AdapterInv'
  BY <1>3 DEF syncGuard, BootInv, AdapterInv, diskVars, pastVars
<1> QED BY <1>7, <1>9, <1>10, <1>11, <1>12, <1>13, <1>14, <1>15, <1>16
           DEF BootInv, BootTypeOK

\* When the user asks.
LEMMA syncNicKeeps ==
  ASSUME BootInv, syncNic
  PROVE  BootInv'
<1>1. Now("syncNic")
  BY DEF syncNic
<1>2. "syncNic" \notin UninstallSteps
  BY DEF UninstallSteps
<1>3. Shape(todo) /\ todo # <<>> /\ todo[1] = "syncNic" /\ IsAt(todo, 1, "syncNic") /\ power = "online" /\ installed
      /\ ~fresh
  BY <1>1, Working
<1>4. ~Uninstalling
  BY <1>1, <1>2, Working
<1>5. \E s : NewList(s) /\ Then(s)
  <2>1. (wants /\ nicSetting) \in BOOLEAN
    OBVIOUS
  <2> QED BY NewLists, NicStepsNew DEF syncNic
<1>6. PICK s : NewList(s) /\ Then(s)
  BY <1>5
<1>7. Shape(todo') /\ ~IsAt(todo', 1, "write") /\ ~IsAt(todo', 1, "unlink") /\ ~IsAt(todo', 1, "dropBackup")
      /\ ~IsAt(todo', 1, "deregister") /\ ~Uninstalling'
  BY <1>3, <1>4, <1>6, StepReplaced DEF Seconds
<1>8. todo' \in Seq(Steps) /\ ~IsAt(todo, 1, "write")
  BY <1>3, <1>7, ListTyped DEF IsAt
<1>9. DiskTypeOK'
  BY DEF syncNic, BootInv, BootTypeOK, DiskTypeOK, diskVars, fixedVars
<1>10. NetTypeOK'
  BY DEF syncNic, BootInv, BootTypeOK, NetTypeOK, netVars
<1>11. ProcTypeOK' /\ PastTypeOK'
  BY <1>8
     DEF syncNic, BootInv, BootTypeOK, ProcTypeOK, PastTypeOK, fixedVars, pastVars
<1>12. NextSteps'
  BY <1>7 DEF NextSteps
<1>13. UninstallInv'
  BY <1>7 DEF UninstallInv
<1>14. RunInv'
  BY <1>3, <1>8 DEF syncNic, BootInv, RunInv, diskVars, netVars, pastVars
<1>15. CoverInv'
  BY DEF syncNic, BootInv, CoverInv, diskVars, netVars, pastVars
<1>16. AdapterInv'
  BY <1>3 DEF syncNic, BootInv, AdapterInv, diskVars, pastVars
<1> QED BY <1>7, <1>9, <1>10, <1>11, <1>12, <1>13, <1>14, <1>15, <1>16
           DEF BootInv, BootTypeOK

\* An adapter that is on is recorded before it is turned off.
LEMMA RecordKeeps ==
  ASSUME BootInv, Record
  PROVE  BootInv'
<1>1. Now("record")
  BY DEF Record
<1>2. UNCHANGED <<kind, installed, unit, guardMode, nicSetting, trusted, wish, file>>
  BY DEF Record, fixedVars
<1>3. Shape(todo) /\ todo # <<>> /\ todo[1] = "record" /\ IsAt(todo, 1, "record") /\ power = "online" /\ installed
      /\ ~fresh
  BY <1>1, Working
<1>4. ~Uninstalling
  BY <1>1, Working DEF UninstallSteps
<1>7. conf' \in BOOLEAN /\ backup' \in BOOLEAN
  <2>1. conf \in BOOLEAN /\ backup \in BOOLEAN
    BY DEF BootInv, BootTypeOK, DiskTypeOK
  <2>2. conf' = (kind = "systemd") \/ conf' = conf
    BY DEF Record
  <2>3. backup' = TRUE \/ backup' = backup
    BY DEF Record
  <2> QED BY <2>1, <2>2, <2>3
<1>5. CASE nic = "on" /\ Then(<<>>)
  <2>1. todo' = Tail(todo)
    BY <1>3, <1>5, ThenNothing
  <2>2. Shape(todo') /\ ~IsAt(todo', 1, "write") /\ ~IsAt(todo', 1, "unlink") /\ ~IsAt(todo', 1, "dropBackup")
        /\ ~IsAt(todo', 1, "deregister")
        /\ ~Uninstalling'
    BY <1>1, <1>4, <2>1, Advance
  <2>3. todo' \in Seq(Steps) /\ ~IsAt(todo, 1, "write")
    BY <1>3, <2>2, ListTyped DEF IsAt
  <2>4. DiskTypeOK'
    BY <1>2, <1>7 DEF BootInv, BootTypeOK, DiskTypeOK
  <2>5. NetTypeOK'
    BY DEF Record, BootInv, BootTypeOK, NetTypeOK, netVars
  <2>6. ProcTypeOK' /\ PastTypeOK'
    BY <2>3
       DEF Record, BootInv, BootTypeOK, ProcTypeOK, PastTypeOK, fixedVars, pastVars
  <2>7. NextSteps'
    BY <2>2 DEF NextSteps
  <2>8. UninstallInv'
    BY <2>2 DEF UninstallInv
  <2>9. RunInv'
    BY <1>3, <2>3 DEF Record, BootInv, RunInv, netVars, pastVars
  <2>10. CoverInv'
    BY <1>3 DEF Record, BootInv, CoverInv, netVars, pastVars
  <2>11. AdapterInv'
    BY <1>3 DEF Record, BootInv, AdapterInv, pastVars
  <2> QED BY <2>2, <2>4, <2>5, <2>6, <2>7, <2>8, <2>9, <2>10, <2>11
             DEF BootInv, BootTypeOK
<1>6. CASE todo' = Tail(Tail(todo))
  <2>1. Shape(todo') /\ ~IsAt(todo', 1, "write") /\ ~IsAt(todo', 1, "unlink") /\ ~IsAt(todo', 1, "dropBackup")
        /\ ~IsAt(todo', 1, "deregister")
        /\ ~Uninstalling'
    BY <1>3, <1>4, <1>6, PairSkipped DEF Seconds
  <2>2. todo' \in Seq(Steps) /\ ~IsAt(todo, 1, "write")
    BY <1>3, <2>1, ListTyped DEF IsAt
  <2>3. DiskTypeOK'
    BY <1>2, <1>7 DEF BootInv, BootTypeOK, DiskTypeOK
  <2>4. NetTypeOK'
    BY DEF Record, BootInv, BootTypeOK, NetTypeOK, netVars
  <2>5. ProcTypeOK' /\ PastTypeOK'
    BY <2>2
       DEF Record, BootInv, BootTypeOK, ProcTypeOK, PastTypeOK, fixedVars, pastVars
  <2>6. NextSteps'
    BY <2>1 DEF NextSteps
  <2>7. UninstallInv'
    BY <2>1 DEF UninstallInv
  <2>8. RunInv'
    BY <1>3, <2>2 DEF Record, BootInv, RunInv, netVars, pastVars
  <2>9. CoverInv'
    BY <1>3 DEF Record, BootInv, CoverInv, netVars, pastVars
  <2>10. AdapterInv'
    BY <1>3 DEF Record, BootInv, AdapterInv, pastVars
  <2> QED BY <2>1, <2>3, <2>4, <2>5, <2>6, <2>7, <2>8, <2>9, <2>10
             DEF BootInv, BootTypeOK
<1> QED BY <1>5, <1>6 DEF Record
, fixedVars, pastVars, LiftsBlock
\* When an adapter cannot be turned on, its record stays, and what acts at a boot.
LEMMA TurnOnKeeps ==
  ASSUME BootInv, TurnOn
  PROVE  BootInv'
<1>1. Now("turnOn")
  BY DEF TurnOn, LiftsBlock
<1>3. Shape(todo) /\ todo # <<>> /\ todo[1] = "turnOn" /\ IsAt(todo, 1, "turnOn") /\ power = "online" /\ installed
      /\ ~fresh
  BY <1>1, Working
<1>4. ~IsAt(todo, 1, "write") /\ ~IsAt(todo, 1, "delete") /\ ~IsAt(todo, 1, "unlink")
  BY <1>3 DEF IsAt
<1>5. CASE Then(<<>>)
  <2>1. todo' = Tail(todo)
    BY <1>3, <1>5, ThenNothing
  <2>2. Shape(todo') /\ ~IsAt(todo', 1, "write") /\ ~IsAt(todo', 1, "unlink") /\ ~IsAt(todo', 1, "dropBackup")
        /\ ~IsAt(todo', 1, "deregister")
        /\ (Uninstalling' => Uninstalling /\ ~up /\ \A i \in 1 .. Len(todo') : todo'[i] \in UninstallSteps)
    BY <1>1, <2>1, Advance
  <2>3. todo' \in Seq(Steps)
    BY <2>2, ListTyped
  <2>4. DiskTypeOK'
    BY DEF TurnOn, BootInv, BootTypeOK, DiskTypeOK, diskVars, fixedVars
  <2>5. NetTypeOK'
    BY DEF TurnOn, BootInv, BootTypeOK, NetTypeOK
  <2>6. ProcTypeOK' /\ PastTypeOK'
    BY <2>3
       DEF TurnOn, BootInv, BootTypeOK, ProcTypeOK, PastTypeOK, fixedVars, pastVars
  <2>7. NextSteps'
    BY <2>2 DEF NextSteps
  <2>8. UninstallInv'
    BY <1>4, <2>2 DEF TurnOn, BootInv, UninstallInv, diskVars, pastVars
  <2>9. RunInv'
    BY <1>3, <1>4 DEF TurnOn, BootInv, RunInv, diskVars, pastVars
  <2>10. CoverInv'
    BY DEF TurnOn, BootInv, CoverInv, diskVars, pastVars
  <2>11. AdapterInv'
    BY DEF TurnOn, BootInv, AdapterInv, diskVars, pastVars
  <2> QED BY <2>2, <2>4, <2>5, <2>6, <2>7, <2>8, <2>9, <2>10, <2>11
             DEF BootInv, BootTypeOK
<1>6. CASE todo' = Tail(Tail(Tail(todo)))
  <2>1. Shape(todo') /\ ~IsAt(todo', 1, "write") /\ ~IsAt(todo', 1, "unlink") /\ ~IsAt(todo', 1, "dropBackup")
        /\ ~IsAt(todo', 1, "deregister")
        /\ (Uninstalling' => Uninstalling) /\ Len(todo') = Len(todo) - 3 /\ Len(todo) \in Nat
        /\ \A i \in 1 .. Len(todo) - 3 : todo'[i] = todo[i + 3]
    BY <1>3, <1>6, RestoreSkipped DEF Seconds
  <2>2. (Uninstalling' => Uninstalling /\ ~up /\ \A i \in 1 .. Len(todo') : todo'[i] \in UninstallSteps)
    BY <2>1 DEF BootInv, UninstallInv
  <2>3. todo' \in Seq(Steps)
    BY <2>1, ListTyped
  <2>4. DiskTypeOK'
    BY DEF TurnOn, BootInv, BootTypeOK, DiskTypeOK, diskVars, fixedVars
  <2>5. NetTypeOK'
    BY DEF TurnOn, BootInv, BootTypeOK, NetTypeOK
  <2>6. ProcTypeOK' /\ PastTypeOK'
    BY <2>3
       DEF TurnOn, BootInv, BootTypeOK, ProcTypeOK, PastTypeOK, fixedVars, pastVars
  <2>7. NextSteps'
    BY <2>1 DEF NextSteps
  <2>8. UninstallInv'
    BY <1>4, <2>1 DEF TurnOn, BootInv, UninstallInv, diskVars, pastVars
  <2>9. RunInv'
    BY <1>3, <1>4 DEF TurnOn, BootInv, RunInv, diskVars, pastVars
  <2>10. CoverInv'
    BY DEF TurnOn, BootInv, CoverInv, diskVars, pastVars
  <2>11. AdapterInv'
    BY DEF TurnOn, BootInv, AdapterInv, diskVars, pastVars
  <2> QED BY <2>1, <2>4, <2>5, <2>6, <2>7, <2>8, <2>9, <2>10, <2>11
             DEF BootInv, BootTypeOK
<1> QED BY <1>5, <1>6 DEF TurnOn
, fixedVars, pastVars, LiftsBlock
\* After this no adapter is turned off at a boot, or that is known.
LEMMA DropNICRebootKeeps ==
  ASSUME BootInv, DropNICReboot
  PROVE  BootInv'
<1>1. Now("dropReboot")
  BY DEF DropNICReboot
<1>3. Shape(todo) /\ todo # <<>> /\ todo[1] = "dropReboot" /\ IsAt(todo, 1, "dropReboot") /\ power = "online"
      /\ installed /\ ~fresh
  BY <1>1, Working
<1>5. todo' = Tail(todo)
  BY <1>3, ThenNothing DEF DropNICReboot
<1>6. Shape(todo') /\ ~IsAt(todo', 1, "write") /\ ~IsAt(todo', 1, "unlink") /\ ~IsAt(todo', 1, "dropBackup")
      /\ (Uninstalling' => Uninstalling /\ ~up /\ \A i \in 1 .. Len(todo') : todo'[i] \in UninstallSteps)
  BY <1>1, <1>5, Advance
<1>7. todo' \in Seq(Steps)
  BY <1>6, ListTyped
<1>8. ~IsAt(todo, 1, "write") /\ ~IsAt(todo, 1, "delete") /\ ~IsAt(todo, 1, "unlink")
  BY <1>3 DEF IsAt
<1>9. DiskTypeOK'
  BY DEF DropNICReboot, BootInv, BootTypeOK, DiskTypeOK, fixedVars
<1>10. NetTypeOK'
  BY DEF DropNICReboot, BootInv, BootTypeOK, NetTypeOK, netVars
<1>11. ProcTypeOK' /\ PastTypeOK'
  BY <1>7 DEF DropNICReboot, BootInv, BootTypeOK, ProcTypeOK, PastTypeOK, fixedVars
<1>12. NextSteps'
  BY <1>6 DEF DropNICReboot, NextSteps
<1>13. UninstallInv'
  BY <1>6, <1>8 DEF DropNICReboot, BootInv, UninstallInv, netVars
<1>14. RunInv'
  BY <1>3, <1>8 DEF DropNICReboot, BootInv, RunInv, netVars
<1>15. CoverInv'
  BY DEF DropNICReboot, BootInv, CoverInv, netVars
<1>16. AdapterInv'
  BY <1>3 DEF DropNICReboot, BootInv, AdapterInv
<1> QED BY <1>6, <1>9, <1>10, <1>11, <1>12, <1>13, <1>14, <1>15, <1>16
           DEF BootInv, BootTypeOK

\* An uninstallation ends when nothing is left that acts at a boot.
LEMMA DeregisterKeeps ==
  ASSUME BootInv, Deregister
  PROVE  BootInv'
<1>1. Now("deregister")
  BY DEF Deregister
<1>3. Shape(todo) /\ todo # <<>> /\ todo[1] = "deregister" /\ IsAt(todo, 1, "deregister") /\ power = "online"
      /\ installed /\ ~fresh
  BY <1>1, Working
<1>4. todo' = Tail(todo)
  BY <1>3, ThenNothing DEF Deregister
<1>5. todo' = <<>>
  BY <1>1, <1>4, Advance
<1>6. Shape(todo') /\ ~IsAt(todo', 1, "write") /\ ~IsAt(todo', 1, "unlink") /\ ~IsAt(todo', 1, "dropBackup")
      /\ ~IsAt(todo', 1, "deregister")
      /\ ~Uninstalling' /\ todo' \in Seq(Steps)
  BY <1>5, NothingToDo
<1>7. Uninstalling
  BY <1>3 DEF Shape, Uninstalling
<1>8. ~IsAt(todo, 1, "write") /\ ~IsAt(todo, 1, "delete") /\ ~IsAt(todo, 1, "unlink")
  BY <1>3 DEF IsAt
<1>9. ~up /\ table = "none" /\ file = "none" /\ (ra => "ra" \in stuck) /\ said # "on"
      /\ (conf => "conf" \in stuck) /\ unit \in BOOLEAN
  BY <1>3, <1>7, <1>8 DEF BootInv, BootTypeOK, DiskTypeOK, UninstallInv, NextSteps
<1>2. unit' \in BOOLEAN /\ (unit' => unit) /\ installed' \in BOOLEAN
  <2>1. CASE installed' = FALSE /\ unit' = FALSE
    BY <2>1
  <2>2. CASE installed' \in BOOLEAN /\ unit' \in {FALSE, unit}
    <3>1. unit' = FALSE \/ unit' = unit
      BY <2>2
    <3>2. CASE unit' = FALSE
      BY <2>2, <3>2
    <3>3. CASE unit' = unit
      BY <1>9, <2>2, <3>3
    <3> QED BY <3>1, <3>2, <3>3
  <2> QED BY <2>2 DEF Deregister
<1>10. DiskTypeOK'
  <2>1. UNCHANGED <<kind, guardMode, nicSetting, trusted, wish, file, backup, conf>>
    BY DEF Deregister, fixedVars
  <2> QED BY <1>2, <2>1 DEF BootInv, BootTypeOK, DiskTypeOK
<1>11. NetTypeOK'
  BY DEF Deregister, BootInv, BootTypeOK, NetTypeOK, netVars
<1>12. ProcTypeOK' /\ PastTypeOK'
  <2>1. stuck' \subseteq {"conf", "unit", "ra"}
    <3>1. stuck' = stuck \/ stuck' = stuck \cup {"unit"}
      BY DEF Deregister
    <3> QED BY <3>1 DEF BootInv, BootTypeOK, PastTypeOK
  <2>2. UNCHANGED <<up, wants, on, pending, nft, said, fresh, bare>>
    BY DEF Deregister, fixedVars
  <2> QED BY <1>5, <2>1, <2>2 DEF BootInv, BootTypeOK, ProcTypeOK, PastTypeOK
<1>13. NextSteps'
  BY <1>6 DEF NextSteps
<1>14. UninstallInv'
  BY <1>6 DEF UninstallInv
<1>15. RunInv'
  BY <1>3, <1>5, <1>9 DEF Deregister, RunInv, netVars
<1>16. CoverInv'
  BY <1>9 DEF Deregister, CoverInv, netVars
<1>17. AdapterInv'
  BY <1>3 DEF Deregister, BootInv, AdapterInv
<1> QED BY <1>6, <1>10, <1>11, <1>12, <1>13, <1>14, <1>15, <1>16, <1>17
           DEF BootInv, BootTypeOK

\* The service takes the guard it finds for its own.
LEMMA StartServiceKeeps ==
  ASSUME BootInv, StartService
  PROVE  BootInv'
<1>1. todo = <<>>
  BY DEF StartService
<1>2. ~Uninstalling /\ ~IsAt(todo, 1, "write")
  BY <1>1 DEF IsAt, Uninstalling
<1>3. todo' = <<"reconcileGuard", "reconcileNic">>
  BY DEF StartService
<1>4. NewList(todo')
  BY <1>3, NewLists
<1>5. Shape(todo') /\ ~IsAt(todo', 1, "write") /\ ~IsAt(todo', 1, "unlink") /\ ~IsAt(todo', 1, "dropBackup")
      /\ ~IsAt(todo', 1, "deregister") /\ ~Uninstalling' /\ todo' \in Seq(Steps)
  BY <1>4 DEF NewList, Seconds, Shape, IsAt, Uninstalling
<1>6. DiskTypeOK'
  <2>1. unit' \in BOOLEAN /\ (kind' = "entware" => ~unit')
    <3>1. kind' = kind /\ kind \in {"systemd", "procd", "entware"} /\ unit \in BOOLEAN
          /\ (kind = "entware" => ~unit)
      BY DEF StartService, BootInv, BootTypeOK, DiskTypeOK, fixedVars
    <3>2. CASE unit' = (kind # "entware")
      BY <3>1, <3>2
    <3>3. CASE unit' = unit
      BY <3>1, <3>3
    <3> QED BY <3>2, <3>3 DEF StartService
  <2>2. UNCHANGED <<kind, installed, guardMode, nicSetting, trusted, wish, file, backup, conf>>
    BY DEF StartService, fixedVars
  <2> QED BY <2>1, <2>2 DEF BootInv, BootTypeOK, DiskTypeOK
<1>7. NetTypeOK'
  BY DEF StartService, BootInv, BootTypeOK, NetTypeOK, netVars
<1>8. ProcTypeOK' /\ PastTypeOK'
  BY <1>5 DEF StartService, BootInv, BootTypeOK, ProcTypeOK, PastTypeOK, fixedVars
<1>9. NextSteps'
  BY <1>5 DEF NextSteps
<1>10. UninstallInv'
  BY <1>5 DEF UninstallInv
<1>11. RunInv'
  BY DEF StartService, RunInv, netVars
<1>12. CoverInv'
  BY DEF StartService, BootInv, BootTypeOK, DiskTypeOK, CoverInv, netVars
<1>13. AdapterInv'
  BY DEF StartService, BootInv, AdapterInv
<1> QED BY <1>5, <1>6, <1>7, <1>8, <1>9, <1>10, <1>11, <1>12, <1>13
           DEF BootInv, BootTypeOK

\* What the user asks for is done step by step.
LEMMA AsksKeeps ==
  ASSUME BootInv, Asks
  PROVE  BootInv'
<1>1. todo = <<>>
  BY DEF Asks
<1>2. ~Uninstalling /\ ~IsAt(todo, 1, "write")
  BY <1>1 DEF IsAt, Uninstalling
<1>3. todo' = <<"syncGuard", "syncNic">>
  BY DEF Asks
<1>4. NewList(todo')
  BY <1>3, NewLists
<1>5. Shape(todo') /\ ~IsAt(todo', 1, "write") /\ ~IsAt(todo', 1, "unlink") /\ ~IsAt(todo', 1, "dropBackup")
      /\ ~IsAt(todo', 1, "deregister") /\ ~Uninstalling' /\ todo' \in Seq(Steps)
  BY <1>4 DEF NewList, Seconds, Shape, IsAt, Uninstalling
<1>6. DiskTypeOK'
  BY DEF Asks, BootInv, BootTypeOK, DiskTypeOK, fixedVars
<1>7. NetTypeOK'
  BY DEF Asks, BootInv, BootTypeOK, NetTypeOK, netVars
<1>8. ProcTypeOK' /\ PastTypeOK'
  BY <1>5 DEF Asks, BootInv, BootTypeOK, ProcTypeOK, PastTypeOK, fixedVars, pastVars
<1>9. NextSteps'
  BY <1>5 DEF NextSteps
<1>10. UninstallInv'
  BY <1>5 DEF UninstallInv
<1>11. RunInv'
  BY <1>2 DEF Asks, BootInv, RunInv, netVars, pastVars
<1>12. CoverInv'
  BY DEF Asks, BootInv, CoverInv, netVars, pastVars
<1>13. AdapterInv'
  BY DEF Asks, BootInv, RunInv, AdapterInv, pastVars
<1> QED BY <1>5, <1>6, <1>7, <1>8, <1>9, <1>10, <1>11, <1>12, <1>13
           DEF BootInv, BootTypeOK

\* The loop disables again what was turned on.
LEMMA NicTickKeeps ==
  ASSUME BootInv, NicTick
  PROVE  BootInv'
<1>1. todo' = todo /\ up /\ ~Uninstalling /\ table' = table /\ conf' \in BOOLEAN
  BY DEF NicTick, BootInv, UninstallInv
<1>2. /\ ~IsAt(todo, 1, "dropBackup") /\ ~IsAt(todo, 1, "deregister")
      /\ (IsAt(todo', 1, "write") <=> IsAt(todo, 1, "write"))
           /\ (IsAt(todo', 1, "unlink") <=> IsAt(todo, 1, "unlink"))
      /\ ~IsAt(todo', 1, "dropBackup") /\ ~IsAt(todo', 1, "deregister")
  BY DEF NicTick, IsAt
<1>3. ~Uninstalling' /\ Shape(todo') /\ todo' \in Seq(Steps)
  BY <1>1, ListTyped DEF Uninstalling, BootInv
<1>4. DiskTypeOK'
  BY DEF NicTick, BootInv, BootTypeOK, DiskTypeOK, fixedVars
<1>5. NetTypeOK'
  BY DEF NicTick, BootInv, BootTypeOK, NetTypeOK, LiftsBlock
<1>6. ProcTypeOK' /\ PastTypeOK'
  BY DEF NicTick, BootInv, BootTypeOK, NetTypeOK, ProcTypeOK, PastTypeOK, fixedVars,
         pastVars
<1>7. NextSteps'
  BY <1>1, <1>2 DEF BootInv, NextSteps
<1>8. UninstallInv'
  BY <1>3 DEF UninstallInv
<1>9. RunInv'
  BY DEF NicTick, BootInv, RunInv, pastVars
<1>10. CoverInv'
  BY DEF NicTick, BootInv, RunInv, CoverInv, pastVars
<1>11. AdapterInv'
  BY DEF NicTick, BootInv, RunInv, AdapterInv, pastVars
<1> QED BY <1>3, <1>4, <1>5, <1>6, <1>7, <1>8, <1>9, <1>10, <1>11
           DEF BootInv, BootTypeOK

\* The service is registered.
LEMMA InstallKeeps ==
  ASSUME BootInv, Install
  PROVE  BootInv'
<1>1. todo' = todo /\ todo = <<>>
  BY DEF Install, procVars
<1>2. Shape(todo') /\ ~IsAt(todo', 1, "write") /\ ~IsAt(todo', 1, "unlink") /\ ~IsAt(todo', 1, "dropBackup")
      /\ ~IsAt(todo', 1, "deregister")
      /\ ~Uninstalling' /\ todo' \in Seq(Steps) /\ ~IsAt(todo, 1, "write")
  BY <1>1, NothingToDo
<1>3. DiskTypeOK'
  BY DEF Install, BootInv, BootTypeOK, DiskTypeOK, fixedVars
<1>4. NetTypeOK'
  BY DEF Install, BootInv, BootTypeOK, NetTypeOK, netVars
<1>5. ProcTypeOK' /\ PastTypeOK'
  BY DEF Install, BootInv, BootTypeOK, ProcTypeOK, PastTypeOK, procVars, fixedVars
<1>6. NextSteps'
  BY <1>2 DEF NextSteps
<1>7. UninstallInv'
  BY <1>2 DEF UninstallInv
<1>8. RunInv'
  BY DEF Install, BootInv, RunInv, netVars, procVars
<1>9. CoverInv'
  BY DEF Install, BootInv, CoverInv, netVars
<1>10. AdapterInv'
  BY DEF Install, BootInv, AdapterInv
<1> QED BY <1>2, <1>3, <1>4, <1>5, <1>6, <1>7, <1>8, <1>9, <1>10
           DEF BootInv, BootTypeOK

\* An uninstallation clears the guard before anything else.
LEMMA UninstallKeeps ==
  ASSUME BootInv, Uninstall
  PROVE  BootInv'
<1> DEFINE rest == <<"dropReboot", "deregister">>
           back == Restore \o rest
<1>1. Shape(rest) /\ rest \in Seq(Steps) /\ Len(rest) = 2 /\ rest[1] = "dropReboot" /\ rest[2] = "deregister"
  BY DEF Shape, Steps
<1>2. \A x \in Seconds : ~IsAt(rest, 1, x)
  BY DEF Seconds, IsAt
<1>3. /\ Shape(Restore) /\ (\A i \in 1 .. Len(Restore) : Restore[i] # "deregister") /\ Len(Restore) = 3
      /\ Restore[1] = "turnOn" /\ Restore[2] = "dropConf" /\ Restore[3] = "dropBackup"
  BY NewLists DEF NewList, Restore
<1>4. /\ Shape(Clear) /\ (\A i \in 1 .. Len(Clear) : Clear[i] # "deregister") /\ Len(Clear) = 2
      /\ Clear[1] = "delete" /\ Clear[2] = "unlink"
  BY NewLists DEF NewList, Clear
<1> HIDE DEF rest
<1>5. /\ Shape(back) /\ Len(back) = Len(Restore) + Len(rest)
      /\ \A i \in 1 .. Len(Restore) : back[i] = Restore[i]
      /\ \A i \in 1 .. Len(rest) : back[Len(Restore) + i] = rest[i]
  <2>1. Shape(Restore) /\ Shape(rest) /\ (\A i \in 1 .. Len(Restore) : Restore[i] # "deregister")
        /\ (\A x \in Seconds : ~IsAt(rest, 1, x))
    BY <1>1, <1>2, <1>3
  <2> QED BY <2>1, ShapeOfConcat
<1> HIDE DEF back
<1>6. /\ Len(back) = 5 /\ back[1] = "turnOn" /\ back[2] = "dropConf" /\ back[3] = "dropBackup"
      /\ back[4] = "dropReboot" /\ back[5] = "deregister"
  <2>1. back[3 + 1] = rest[1] /\ back[3 + 2] = rest[2]
    BY <1>1, <1>3, <1>5
  <2> QED BY <1>1, <1>3, <1>5
<1>7. \A x \in Seconds : ~IsAt(back, 1, x)
  BY <1>6 DEF Seconds, IsAt
<1> DEFINE all == Clear \o back
<1>8. /\ Shape(all) /\ Len(all) = Len(Clear) + Len(back)
      /\ \A i \in 1 .. Len(Clear) : all[i] = Clear[i]
      /\ \A i \in 1 .. Len(back) : all[Len(Clear) + i] = back[i]
  <2>1. Shape(Clear) /\ Shape(back) /\ (\A i \in 1 .. Len(Clear) : Clear[i] # "deregister")
        /\ (\A x \in Seconds : ~IsAt(back, 1, x))
    BY <1>4, <1>5, <1>7
  <2> QED BY <2>1, ShapeOfConcat
<1>9. todo' = all
  <2>1. todo' = Clear \o Restore \o rest
    BY DEF Uninstall, rest
  <2>2. Clear \in Seq(Steps) /\ Restore \in Seq(Steps)
    BY <1>3, <1>4 DEF Shape
  <2>3. \A a, b, c \in Seq(Steps) : (a \o b) \o c = a \o (b \o c)
    OBVIOUS
  <2> QED BY <2>1 DEF back
<1> HIDE DEF all
<1>10. /\ Len(todo') = 7 /\ todo'[1] = "delete" /\ todo'[2] = "unlink" /\ todo'[3] = "turnOn"
       /\ todo'[4] = "dropConf"
       /\ todo'[5] = "dropBackup" /\ todo'[6] = "dropReboot" /\ todo'[7] = "deregister"
  <2>1. all[2 + 1] = back[1] /\ all[2 + 2] = back[2] /\ all[2 + 3] = back[3] /\ all[2 + 4] = back[4]
        /\ all[2 + 5] = back[5]
    BY <1>4, <1>6, <1>8
  <2> QED BY <1>4, <1>6, <1>8, <1>9
<1>11. IsAt(todo', 1, "delete") /\ \A i \in 1 .. Len(todo') : todo'[i] \in UninstallSteps
  BY <1>10 DEF IsAt, UninstallSteps
<1>12. Shape(todo') /\ ~IsAt(todo', 1, "write") /\ ~IsAt(todo', 1, "unlink") /\ ~IsAt(todo', 1, "dropBackup")
       /\ ~IsAt(todo', 1, "deregister")
       /\ todo' \in Seq(Steps)
  BY <1>8, <1>9, <1>10, ListTyped DEF IsAt
<1>13. todo = <<>>
  BY DEF Uninstall
<1>14. DiskTypeOK'
  BY DEF Uninstall, BootInv, BootTypeOK, DiskTypeOK, diskVars, fixedVars
<1>15. NetTypeOK'
  BY DEF Uninstall, BootInv, BootTypeOK, NetTypeOK, netVars
<1>16. ProcTypeOK' /\ PastTypeOK'
  BY <1>12 DEF Uninstall, BootInv, BootTypeOK, ProcTypeOK, PastTypeOK, fixedVars
<1>17. NextSteps'
  BY <1>12 DEF NextSteps
<1>18. UninstallInv'
  BY <1>11 DEF Uninstall, UninstallInv
<1>19. RunInv'
  BY DEF Uninstall, RunInv, diskVars, netVars
<1>20. CoverInv'
  BY DEF Uninstall, BootInv, CoverInv, diskVars, netVars
<1>21. AdapterInv'
  BY DEF Uninstall, BootInv, AdapterInv, diskVars
<1> QED BY <1>12, <1>14, <1>15, <1>16, <1>17, <1>18, <1>19, <1>20, <1>21
           DEF BootInv, BootTypeOK

\* What was on its list is forgotten.
LEMMA ProcessDiesKeeps ==
  ASSUME BootInv, ProcessDies
  PROVE  BootInv'
<1>1. todo' = <<>> /\ up' = FALSE /\ on' = FALSE /\ wants' = FALSE /\ pending' = FALSE
  BY DEF ProcessDies, Dead
<1>2. Shape(todo') /\ ~IsAt(todo', 1, "write") /\ ~IsAt(todo', 1, "unlink") /\ ~IsAt(todo', 1, "dropBackup")
      /\ ~IsAt(todo', 1, "deregister")
      /\ ~Uninstalling' /\ todo' \in Seq(Steps)
  BY <1>1, NothingToDo
<1>3. DiskTypeOK'
  BY DEF ProcessDies, BootInv, BootTypeOK, DiskTypeOK, diskVars, fixedVars
<1>4. NetTypeOK'
  BY DEF ProcessDies, BootInv, BootTypeOK, NetTypeOK, netVars
<1>5. ProcTypeOK' /\ PastTypeOK'
  BY <1>1, <1>2
     DEF ProcessDies, BootInv, BootTypeOK, ProcTypeOK, PastTypeOK, fixedVars,
         pastVars
<1>6. NextSteps'
  BY <1>2 DEF NextSteps
<1>7. UninstallInv'
  BY <1>2 DEF UninstallInv
<1>8. RunInv'
  BY <1>1 DEF ProcessDies, BootInv, RunInv, netVars
<1>9. CoverInv'
  BY DEF ProcessDies, BootInv, CoverInv, diskVars, netVars, pastVars
<1>10. AdapterInv'
  BY DEF ProcessDies, BootInv, RunInv, AdapterInv, diskVars, pastVars
<1> QED BY <1>2, <1>3, <1>4, <1>5, <1>6, <1>7, <1>8, <1>9, <1>10
           DEF BootInv, BootTypeOK

\* The table goes, the file stays.
LEMMA PowerFailsKeeps ==
  ASSUME BootInv, PowerFails
  PROVE  BootInv'
<1>1. todo' = <<>> /\ up' = FALSE /\ on' = FALSE /\ wants' = FALSE /\ pending' = FALSE
  BY DEF PowerFails, Dead
<1>2. Shape(todo') /\ ~IsAt(todo', 1, "write") /\ ~IsAt(todo', 1, "unlink") /\ ~IsAt(todo', 1, "dropBackup")
      /\ ~IsAt(todo', 1, "deregister")
      /\ ~Uninstalling' /\ todo' \in Seq(Steps)
  BY <1>1, NothingToDo
<1>3. DiskTypeOK'
  <2>1. file' \in {"none", "good", "bad"}
    BY DEF PowerFails, BootInv, BootTypeOK, DiskTypeOK
  <2>2. trusted' \in BOOLEAN /\ wish' \in {"yes", "no", "unknown"}
    BY DEF PowerFails, BootInv, BootTypeOK, DiskTypeOK
  <2>3. UNCHANGED <<kind, installed, unit, guardMode, nicSetting, backup, conf>>
    BY DEF PowerFails, fixedVars
  <2> QED BY <2>1, <2>2, <2>3 DEF BootInv, BootTypeOK, DiskTypeOK
<1>4. NetTypeOK'
  BY DEF PowerFails, NetTypeOK
<1>5. ProcTypeOK' /\ PastTypeOK'
  BY <1>1, <1>2
     DEF PowerFails, BootInv, BootTypeOK, ProcTypeOK, PastTypeOK, fixedVars
<1>6. NextSteps'
  BY <1>2 DEF NextSteps
<1>7. UninstallInv'
  BY <1>2 DEF UninstallInv
<1>8. RunInv'
  BY <1>1 DEF PowerFails, RunInv
<1>9. CoverInv'
  BY DEF PowerFails, BootInv, CoverInv
<1>10. AdapterInv'
  BY DEF PowerFails, BootInv, AdapterInv
<1> QED BY <1>2, <1>3, <1>4, <1>5, <1>6, <1>7, <1>8, <1>9, <1>10
           DEF BootInv, BootTypeOK

\* Before the network is up the guard is back.
LEMMA ApplyBootGuardKeeps ==
  ASSUME BootInv, ApplyBootGuard
  PROVE  BootInv'
<1>1. todo' = todo /\ todo = <<>>
  BY DEF ApplyBootGuard, BootInv, RunInv, procVars
<1>2. Shape(todo') /\ ~IsAt(todo', 1, "write") /\ ~IsAt(todo', 1, "unlink") /\ ~IsAt(todo', 1, "dropBackup")
      /\ ~IsAt(todo', 1, "deregister")
      /\ ~Uninstalling' /\ todo' \in Seq(Steps) /\ ~IsAt(todo, 1, "write")
  BY <1>1, NothingToDo
<1>3. DiskTypeOK'
  BY DEF ApplyBootGuard, BootInv, BootTypeOK, DiskTypeOK, diskVars, fixedVars
<1>4. NetTypeOK'
  <2>1. table' \in {"none", "guard", "strict"}
    BY DEF ApplyBootGuard, BootTable, BootInv, BootTypeOK, DiskTypeOK
  <2>2. ra' \in BOOLEAN /\ power' = "early" /\ addr' = addr
    BY DEF ApplyBootGuard
  <2>3. nic' \in {"on", "off"}
    BY DEF ApplyBootGuard
  <2> QED BY <2>1, <2>2, <2>3 DEF BootInv, BootTypeOK, NetTypeOK
<1>5. ProcTypeOK' /\ PastTypeOK'
  BY DEF ApplyBootGuard, NftFails, BootInv, BootTypeOK, ProcTypeOK, PastTypeOK,
         procVars, fixedVars
<1>6. NextSteps'
  BY <1>2 DEF NextSteps
<1>7. UninstallInv'
  BY <1>2 DEF UninstallInv
<1>8. RunInv'
  BY DEF ApplyBootGuard, BootInv, RunInv, procVars
<1>9. CoverInv'
  BY DEF ApplyBootGuard, NftFails, BootTable, BootBlocks, BootInv, BootTypeOK,
         DiskTypeOK,
         CoverInv, diskVars, fixedVars, pastVars, LiftsBlock
<1>10. AdapterInv'
  BY DEF ApplyBootGuard, BootBlocks, BootInv, BootTypeOK, DiskTypeOK, RunInv,
         AdapterInv, diskVars, fixedVars, pastVars, LiftsBlock
<1> QED BY <1>2, <1>3, <1>4, <1>5, <1>6, <1>7, <1>8, <1>9, <1>10
           DEF BootInv, BootTypeOK

\* The network comes up, or an adapter's IPv6 again.
LEMMA ReconfiguresKeeps ==
  ASSUME BootInv, Reconfigures
  PROVE  BootInv'
<1>1. todo' = todo /\ Shape(todo') /\ todo' \in Seq(Steps) /\ (Uninstalling' <=> Uninstalling)
      /\ \A x : IsAt(todo', 1, x) <=> IsAt(todo, 1, x)
  BY ListTyped DEF Reconfigures, BootInv, Uninstalling, procVars
<1>2. DiskTypeOK'
  BY DEF Reconfigures, BootInv, BootTypeOK, DiskTypeOK, diskVars, fixedVars
<1>3. NetTypeOK'
  BY DEF Reconfigures, BootInv, BootTypeOK, NetTypeOK
<1>4. ProcTypeOK' /\ PastTypeOK'
  BY DEF Reconfigures, BootInv, BootTypeOK, ProcTypeOK, PastTypeOK, procVars,
         fixedVars, pastVars
<1>5. NextSteps'
  BY <1>1 DEF Reconfigures, BootInv, NextSteps, diskVars, pastVars
<1>6. UninstallInv'
  BY <1>1 DEF Reconfigures, BootInv, UninstallInv, diskVars, procVars, pastVars
<1>7. RunInv'
  BY DEF Reconfigures, BootInv, RunInv, diskVars, procVars, pastVars
<1>8. CoverInv'
  BY DEF Reconfigures, BootInv, CoverInv, diskVars, pastVars
<1>9. AdapterInv'
  BY DEF Reconfigures, BootInv, AdapterInv, diskVars, pastVars
<1> QED BY <1>1, <1>2, <1>3, <1>4, <1>5, <1>6, <1>7, <1>8, <1>9
           DEF BootInv, BootTypeOK

\* An adapter gets an address when nothing drops the advertisements.
LEMMA AdvertisedKeeps ==
  ASSUME BootInv, Advertised
  PROVE  BootInv'
<1>1. todo' = todo /\ Shape(todo') /\ todo' \in Seq(Steps) /\ (Uninstalling' <=> Uninstalling)
      /\ \A x : IsAt(todo', 1, x) <=> IsAt(todo, 1, x)
  BY ListTyped DEF Advertised, BootInv, Uninstalling, procVars
<1>2. DiskTypeOK'
  BY DEF Advertised, BootInv, BootTypeOK, DiskTypeOK, diskVars, fixedVars
<1>3. NetTypeOK'
  BY DEF Advertised, BootInv, BootTypeOK, NetTypeOK
<1>4. ProcTypeOK' /\ PastTypeOK'
  BY DEF Advertised, BootInv, BootTypeOK, ProcTypeOK, PastTypeOK, procVars,
         fixedVars, pastVars
<1>5. NextSteps'
  BY <1>1 DEF Advertised, BootInv, NextSteps, diskVars, pastVars
<1>6. UninstallInv'
  BY <1>1 DEF Advertised, BootInv, UninstallInv, diskVars, procVars, pastVars
<1>7. RunInv'
  BY DEF Advertised, BootInv, RunInv, diskVars, procVars, pastVars
<1>8. CoverInv'
  BY DEF Advertised, BootInv, CoverInv, diskVars, pastVars
<1>9. AdapterInv'
  BY DEF Advertised, BootInv, AdapterInv, diskVars, pastVars
<1> QED BY <1>1, <1>2, <1>3, <1>4, <1>5, <1>6, <1>7, <1>8, <1>9
           DEF BootInv, BootTypeOK

\* It holds at first, whatever version is installed.
LEMMA BootInitially == BootInit => BootInv
<1> SUFFICES ASSUME BootInit PROVE BootInv
  OBVIOUS
<1>1. todo = <<>> /\ Shape(todo) /\ todo \in Seq(Steps)
  BY NewLists DEF BootInit, NewList
<1>2. ~Uninstalling /\ \A x : ~IsAt(todo, 1, x)
  BY <1>1 DEF Uninstalling, IsAt
<1>3. unit \in BOOLEAN /\ (kind = "entware" => ~unit)
  BY DEF BootInit
<1>4. DiskTypeOK /\ NetTypeOK /\ ProcTypeOK /\ PastTypeOK
  BY <1>1 DEF BootInit, DiskTypeOK, NetTypeOK, ProcTypeOK, PastTypeOK
<1>5. NextSteps /\ UninstallInv /\ RunInv /\ CoverInv /\ AdapterInv
  BY <1>2 DEF BootInit, NextSteps, UninstallInv, RunInv, CoverInv, AdapterInv
<1> QED BY <1>1, <1>4, <1>5 DEF BootInv, BootTypeOK

\* Every step keeps it.
LEMMA BootKept == BootInv /\ [BootNext]_bootVars => BootInv'
<1> SUFFICES ASSUME BootInv, [BootNext]_bootVars PROVE BootInv'
  OBVIOUS
<1>1. CASE UNCHANGED bootVars
  BY <1>1
     DEF bootVars, diskVars, netVars, procVars, BootInv, BootTypeOK, DiskTypeOK,
         NetTypeOK, ProcTypeOK, PastTypeOK, NextSteps, UninstallInv, Uninstalling, RunInv,
         CoverInv, AdapterInv, fixedVars, pastVars, LiftsBlock
<1>2. CASE LoadTable \/ WriteBootGuard \/ DeleteTable \/ Unlink
  BY <1>2, LoadTableKeeps, WriteBootGuardKeeps, DeleteTableKeeps, UnlinkKeeps
<1>3. CASE Record \/ TurnOff \/ TurnOn \/ DropConf \/ DropBackup \/ DropBootRA
  BY <1>3, RecordKeeps, TurnOffKeeps, TurnOnKeeps, DropConfKeeps, DropBackupKeeps,
     DropBootRAKeeps
<1>4. CASE StartService \/ reconcileGuard \/ reconcileNic \/ syncGuard \/ syncNic \/ Asks \/ NicTick
  BY <1>4, StartServiceKeeps, reconcileGuardKeeps, reconcileNicKeeps,
     syncGuardKeeps, syncNicKeeps, AsksKeeps, NicTickKeeps
<1>5. CASE Install \/ Uninstall \/ DropNICReboot \/ Deregister
  BY <1>5, InstallKeeps, UninstallKeeps, DropNICRebootKeeps, DeregisterKeeps
<1>6. CASE ProcessDies \/ PowerFails \/ ApplyBootGuard \/ Reconfigures \/ Advertised
  BY <1>6, ProcessDiesKeeps, PowerFailsKeeps, ApplyBootGuardKeeps,
     ReconfiguresKeeps, AdvertisedKeeps
<1> QED BY <1>1, <1>2, <1>3, <1>4, <1>5, <1>6 DEF BootNext

\* The invariant says what the properties do.
LEMMA BootInvIsQuiet == BootInv => BootTypeOK /\ BootIsQuiet /\ ClearedStaysCleared
<1> SUFFICES ASSUME BootInv PROVE BootTypeOK /\ BootIsQuiet /\ ClearedStaysCleared
  OBVIOUS
<1>1. BootCovered
  BY DEF BootInv, CoverInv, BootCovered
<1>2. NoAddressAtBoot
  BY DEF BootInv, AdapterInv, NoAddressAtBoot
<1>3. up /\ todo = <<>> /\ table # "none" => on
  BY DEF BootInv, RunInv, IsAt
<1>4. ClearedStaysCleared
  BY <1>3 DEF BootInv, CoverInv, AdapterInv, ClearedStaysCleared
<1> QED BY <1>1, <1>2, <1>4 DEF BootInv, BootIsQuiet

\* It always holds.
LEMMA BootInvariance == BootSpec => []BootInv
BY BootInitially, BootKept, PTL DEF BootSpec

\* The variables keep their types.
THEOREM BootTypeCorrect == BootSpec => []BootTypeOK
<1>1. BootInv => BootTypeOK
  BY BootInvIsQuiet
<1> QED BY <1>1, BootInvariance, PTL

\* Once the guard is up for every boot the computer is never on the network without it, and an adapter
\* that was turned off gets no address before the service runs, unless nft failed at this boot: after any
\* number of boots, damaged files, failed steps and processes that die between two of them.
THEOREM BootAlwaysQuiet == BootSpec => []BootIsQuiet
<1>1. BootInv => BootIsQuiet
  BY BootInvIsQuiet
<1> QED BY <1>1, BootInvariance, PTL

\* A guard that was taken away does not come back, one that blocks is known, and an uninstallation leaves
\* nothing that acts at a boot but what it could not delete.
THEOREM ClearedAlwaysStaysCleared == BootSpec => []ClearedStaysCleared
<1>1. BootInv => ClearedStaysCleared
  BY BootInvIsQuiet
<1> QED BY <1>1, BootInvariance, PTL

(***************************************************************************)
(* The guard of macOS (PfGuard)                                            *)
(*                                                                         *)
(* Two processes work through lists of pfctl calls, and so the invariant   *)
(* says what is left of a list when it is at each of its lines (Listed),   *)
(* what the guard's own calls have achieved by then (HeldInv for           *)
(* ApplyGuard, ArmedInv for ApplyBootGuard, KnownInv for ClearGuard), and  *)
(* what an interference or an interrupted clearing excuses (shaken,        *)
(* borrowed, behind).                                                      *)
(***************************************************************************)
-----------------------------------------------------------------------------
(* The guard of macOS *)

\* What can be left of the lists of the service: a start, ApplyGuard, ClearGuard.
ServiceLists ==
  {<<>>, <<"start">>, Apply, <<"enable", "token", "check", "write">>, <<"token", "check", "write">>,
   <<"check", "write">>, <<"write">>, ClearSteps, <<"unlink", "release", "forget">>,
   <<"release", "forget">>, <<"forget">>}
\* And of ApplyBootGuard.
BootLists ==
  {<<>>, BootSteps, <<"main", "load", "enable", "token", "check">>, <<"load", "enable", "token", "check">>,
   <<"enable", "token", "check">>, <<"token", "check">>, <<"check">>}

\* What a process does next.
Line(p) == IF steps[p] = <<>> THEN "idle" ELSE Head(steps[p])

\* What is left to do is the rest of a list.
Listed ==
  /\ steps \in [Procs -> ServiceLists \cup BootLists]
  /\ steps["service"] \in ServiceLists /\ steps["boot"] \in BootLists

\* pf is held enabled by a reference of the service's own.
Ours == refs \cap PfTokens # {}

\* The service has nothing to do and takes its guard to be up.
Kept == Line("service") = "idle" /\ believed /\ sought

\* What a line says of the service's intent and of its references.
Orderly ==
  /\ Line("service") \in {"flush", "unlink", "release", "forget"} => ~sought
  /\ \A p \in Procs : token[p] # 0 <=> Line(p) = "token"
  /\ Line("service") \in {"release", "forget"} => bootRules = "none" /\ ~armed
  /\ Line("boot") = "read" => ~armed

\* What ApplyGuard has done by each of its lines, unless pf was shaken.
HeldInv == shaken # "yes" =>
  /\ Kept \/ Line("service") \in {"enable", "token", "check", "write"} => anchored
  /\ ~borrowed /\ (Kept \/ Line("service") \in {"token", "check", "write"}) => Ours

\* What ApplyBootGuard has.
ArmedInv == armed =>
  /\ Line("boot") # "main" => hook
  /\ Line("boot") \notin {"main", "load"} => anchored
  /\ ~borrowed /\ Line("boot") \notin {"main", "load", "enable"} => Ours

\* What is there is known: whose each reference is, and what ClearGuard leaves at each of its lines.
KnownInv ==
  /\ refs \subseteq {Other} \cup lost \cup tokens \cup {token["service"], token["boot"]}
  /\ ~behind =>
       /\ Line("service") \in {"unlink", "release", "forget"} => ~anchored
       /\ Line("service") = "forget" => tokens \cap refs = {}
       /\ Line("service") = "idle" /\ ~believed =>
            ~anchored /\ bootRules = "none" /\ refs \subseteq {Other} \cup lost \cup {token["boot"]}

\* The variables but the lists are in their domains.
PfRest ==
  /\ anchored \in BOOLEAN /\ hook \in BOOLEAN /\ refs \subseteq {Other} \cup PfTokens
  /\ tokens \subseteq PfTokens /\ bootRules \in {"none", "good"}
  /\ token \in [Procs -> {0} \cup PfTokens]
  /\ sought \in BOOLEAN /\ believed \in BOOLEAN
  /\ lost \subseteq PfTokens
  /\ borrowed \in BOOLEAN /\ shaken \in {"no", "yes", "mending"} /\ armed \in BOOLEAN /\ behind \in BOOLEAN

PfInv == PfRest /\ Listed /\ Orderly /\ HeldInv /\ ArmedInv /\ KnownInv

\* What is left of the service's lists after a line.
LEMMA ServiceTails ==
  /\ Tail(<<"start">>) = <<>>
  /\ Tail(Apply) = <<"enable", "token", "check", "write">>
  /\ Tail(<<"enable", "token", "check", "write">>) = <<"token", "check", "write">>
  /\ Tail(<<"token", "check", "write">>) = <<"check", "write">>
  /\ Tail(<<"check", "write">>) = <<"write">>
  /\ Tail(<<"write">>) = <<>>
  /\ Tail(ClearSteps) = <<"unlink", "release", "forget">>
  /\ Tail(<<"unlink", "release", "forget">>) = <<"release", "forget">>
  /\ Tail(<<"release", "forget">>) = <<"forget">>
  /\ Tail(<<"forget">>) = <<>>
BY DEF Apply, ClearSteps

\* And of ApplyBootGuard's.
LEMMA BootTails ==
  /\ Tail(BootSteps) = <<"main", "load", "enable", "token", "check">>
  /\ Tail(<<"main", "load", "enable", "token", "check">>) = <<"load", "enable", "token", "check">>
  /\ Tail(<<"load", "enable", "token", "check">>) = <<"enable", "token", "check">>
  /\ Tail(<<"enable", "token", "check">>) = <<"token", "check">>
  /\ Tail(<<"token", "check">>) = <<"check">>
  /\ Tail(<<"check">>) = <<>>
BY DEF BootSteps

\* Which line comes first in each.
LEMMA ServiceHeads ==
  /\ Head(<<"start">>) = "start" /\ <<"start">> # <<>>
  /\ Head(Apply) = "load" /\ Apply # <<>>
  /\ Head(<<"enable", "token", "check", "write">>) = "enable" /\ <<"enable", "token", "check", "write">> # <<>>
  /\ Head(<<"token", "check", "write">>) = "token" /\ <<"token", "check", "write">> # <<>>
  /\ Head(<<"check", "write">>) = "check" /\ <<"check", "write">> # <<>>
  /\ Head(<<"write">>) = "write" /\ <<"write">> # <<>>
  /\ Head(ClearSteps) = "flush" /\ ClearSteps # <<>>
  /\ Head(<<"unlink", "release", "forget">>) = "unlink" /\ <<"unlink", "release", "forget">> # <<>>
  /\ Head(<<"release", "forget">>) = "release" /\ <<"release", "forget">> # <<>>
  /\ Head(<<"forget">>) = "forget" /\ <<"forget">> # <<>>
BY DEF Apply, ClearSteps

LEMMA BootHeads ==
  /\ Head(BootSteps) = "read" /\ BootSteps # <<>>
  /\ Head(<<"main", "load", "enable", "token", "check">>) = "main"
  /\ <<"main", "load", "enable", "token", "check">> # <<>>
  /\ Head(<<"load", "enable", "token", "check">>) = "load" /\ <<"load", "enable", "token", "check">> # <<>>
  /\ Head(<<"enable", "token", "check">>) = "enable" /\ <<"enable", "token", "check">> # <<>>
  /\ Head(<<"token", "check">>) = "token" /\ <<"token", "check">> # <<>>
  /\ Head(<<"check">>) = "check" /\ <<"check">> # <<>>
BY DEF BootSteps

\* A process is at a step when that is the head of its list.
LEMMA AtIsLine ==
  ASSUME NEW p \in Procs, NEW x, At(p, x)
  PROVE  Line(p) = x /\ steps[p] # <<>>
BY DEF At, Line

\* What the next line of each is.
LEMMA ServiceGoesOn ==
  ASSUME Listed, steps["service"] # <<>>, Onward("service")
  PROVE  /\ Listed' /\ Line("boot")' = Line("boot")
         /\ Line("service") = "load" => Line("service")' = "enable"
         /\ Line("service") = "enable" => Line("service")' = "token"
         /\ Line("service") = "token" => Line("service")' = "check"
         /\ Line("service") = "check" => Line("service")' = "write"
         /\ Line("service") = "write" => Line("service")' = "idle"
         /\ Line("service") = "flush" => Line("service")' = "unlink"
         /\ Line("service") = "unlink" => Line("service")' = "release"
         /\ Line("service") = "release" => Line("service")' = "forget"
         /\ Line("service") = "forget" => Line("service")' = "idle"
<1> DEFINE s == steps["service"]
<1>1. s \in ServiceLists /\ s # <<>> /\ Line("service") = Head(s)
  BY DEF Listed, Line
<1>2. steps' = [steps EXCEPT !["service"] = Tail(s)]
  BY DEF Onward
<1>3. /\ steps'["service"] = Tail(s) /\ steps'["boot"] = steps["boot"]
      /\ Line("service")' = IF Tail(s) = <<>> THEN "idle" ELSE Head(Tail(s))
      /\ Line("boot")' = Line("boot")
  BY <1>2 DEF Listed, Line, Procs
<1> HIDE DEF s
<1>4. /\ Tail(s) \in ServiceLists
      /\ Head(s) = "load" => Tail(s) # <<>> /\ Head(Tail(s)) = "enable"
      /\ Head(s) = "enable" => Tail(s) # <<>> /\ Head(Tail(s)) = "token"
      /\ Head(s) = "token" => Tail(s) # <<>> /\ Head(Tail(s)) = "check"
      /\ Head(s) = "check" => Tail(s) # <<>> /\ Head(Tail(s)) = "write"
      /\ Head(s) = "write" => Tail(s) = <<>>
      /\ Head(s) = "flush" => Tail(s) # <<>> /\ Head(Tail(s)) = "unlink"
      /\ Head(s) = "unlink" => Tail(s) # <<>> /\ Head(Tail(s)) = "release"
      /\ Head(s) = "release" => Tail(s) # <<>> /\ Head(Tail(s)) = "forget"
      /\ Head(s) = "forget" => Tail(s) = <<>>
  <2>1. CASE s = <<"start">> BY <2>1 DEF ServiceLists
  <2>2. CASE s = Apply BY <2>2, ServiceTails, ServiceHeads DEF ServiceLists
  <2>3. CASE s = <<"enable", "token", "check", "write">> BY <2>3 DEF ServiceLists
  <2>4. CASE s = <<"token", "check", "write">> BY <2>4 DEF ServiceLists
  <2>5. CASE s = <<"check", "write">> BY <2>5 DEF ServiceLists
  <2>6. CASE s = <<"write">> BY <2>6 DEF ServiceLists
  <2>7. CASE s = ClearSteps BY <2>7, ServiceTails, ServiceHeads DEF ServiceLists
  <2>8. CASE s = <<"unlink", "release", "forget">> BY <2>8 DEF ServiceLists
  <2>9. CASE s = <<"release", "forget">> BY <2>9 DEF ServiceLists
  <2>10. CASE s = <<"forget">> BY <2>10 DEF ServiceLists
  <2> QED BY <1>1, <2>1, <2>2, <2>3, <2>4, <2>5, <2>6, <2>7, <2>8, <2>9, <2>10,
             Zenon DEF ServiceLists
<1>5. Listed'
  BY <1>2, <1>3, <1>4 DEF Listed
<1> QED BY <1>1, <1>3, <1>4, <1>5

LEMMA BootGoesOn ==
  ASSUME Listed, steps["boot"] # <<>>, Onward("boot")
  PROVE  /\ Listed' /\ Line("service")' = Line("service")
         /\ Line("boot") = "read" => Line("boot")' = "main"
         /\ Line("boot") = "main" => Line("boot")' = "load"
         /\ Line("boot") = "load" => Line("boot")' = "enable"
         /\ Line("boot") = "enable" => Line("boot")' = "token"
         /\ Line("boot") = "token" => Line("boot")' = "check"
         /\ Line("boot") = "check" => Line("boot")' = "idle"
<1> DEFINE s == steps["boot"]
<1>1. s \in BootLists /\ s # <<>> /\ Line("boot") = Head(s)
  BY DEF Listed, Line
<1>2. steps' = [steps EXCEPT !["boot"] = Tail(s)]
  BY DEF Onward
<1>3. /\ steps'["boot"] = Tail(s) /\ steps'["service"] = steps["service"]
      /\ Line("boot")' = IF Tail(s) = <<>> THEN "idle" ELSE Head(Tail(s))
      /\ Line("service")' = Line("service")
  BY <1>2 DEF Listed, Line, Procs
<1> HIDE DEF s
<1>4. /\ Tail(s) \in BootLists
      /\ Head(s) = "read" => Tail(s) # <<>> /\ Head(Tail(s)) = "main"
      /\ Head(s) = "main" => Tail(s) # <<>> /\ Head(Tail(s)) = "load"
      /\ Head(s) = "load" => Tail(s) # <<>> /\ Head(Tail(s)) = "enable"
      /\ Head(s) = "enable" => Tail(s) # <<>> /\ Head(Tail(s)) = "token"
      /\ Head(s) = "token" => Tail(s) # <<>> /\ Head(Tail(s)) = "check"
      /\ Head(s) = "check" => Tail(s) = <<>>
  <2>1. CASE s = BootSteps BY <2>1, BootTails, BootHeads DEF BootLists
  <2>2. CASE s = <<"main", "load", "enable", "token", "check">>
    BY <2>2 DEF BootLists
  <2>3. CASE s = <<"load", "enable", "token", "check">> BY <2>3 DEF BootLists
  <2>4. CASE s = <<"enable", "token", "check">> BY <2>4 DEF BootLists
  <2>5. CASE s = <<"token", "check">> BY <2>5 DEF BootLists
  <2>6. CASE s = <<"check">> BY <2>6 DEF BootLists
  <2> QED BY <1>1, <2>1, <2>2, <2>3, <2>4, <2>5, <2>6, Zenon DEF BootLists
<1>5. Listed'
  BY <1>2, <1>3, <1>4 DEF Listed
<1> QED BY <1>1, <1>3, <1>4, <1>5

\* Where enablePF returns early, it is done with three lines at once.
LEMMA EnableReturns ==
  ASSUME Listed, NEW p \in Procs, At(p, "enable"), steps' = [steps EXCEPT ![p] = Tail(Tail(Tail(@)))]
  PROVE  /\ Listed' /\ Line(p)' = (IF p = "service" THEN "write" ELSE "idle")
         /\ \A q \in Procs \ {p} : Line(q)' = Line(q)
<1> DEFINE s == steps[p]
<1>1. s # <<>> /\ Head(s) = "enable"
  BY DEF At
<1>2. CASE p = "service"
  <2>1. s \in ServiceLists BY <1>2 DEF Listed
  <2> HIDE DEF s
  <2>2. s = <<"enable", "token", "check", "write">> BY <1>1, <2>1, ServiceHeads DEF ServiceLists
  <2>3. Tail(Tail(Tail(s))) = <<"write">> BY <2>2
  <2>4. /\ steps'["service"] = <<"write">> /\ steps'["boot"] = steps["boot"]
        /\ steps' \in [Procs -> ServiceLists \cup BootLists]
    BY <1>2, <2>3 DEF Listed, Procs, s, ServiceLists
  <2> QED BY <1>2, <2>4, ServiceHeads DEF Listed, Line, ServiceLists
<1>3. CASE p = "boot"
  <2>1. s \in BootLists BY <1>3 DEF Listed
  <2> HIDE DEF s
  <2>2. s = <<"enable", "token", "check">> BY <1>1, <2>1, BootHeads DEF BootLists
  <2>3. Tail(Tail(Tail(s))) = <<>> BY <2>2
  <2>4. /\ steps'["boot"] = <<>> /\ steps'["service"] = steps["service"]
        /\ steps' \in [Procs -> ServiceLists \cup BootLists]
    BY <1>3, <2>3 DEF Listed, s, BootLists
  <2> QED BY <1>3, <2>4 DEF Listed, Line, BootLists
<1> QED BY <1>2, <1>3 DEF Procs

\* Who gives up has nothing left to do.
LEMMA GaveUp ==
  ASSUME Listed, NEW p \in Procs, GivesUp(p)
  PROVE  Listed' /\ Line(p)' = "idle" /\ \A q \in Procs \ {p} : Line(q)' = Line(q)
BY DEF Listed, GivesUp, Line, ServiceLists, BootLists

\* The service begins a list.
LEMMA ServiceBegins ==
  ASSUME Listed, NEW list \in {Apply, ClearSteps, <<"start">>}, Does(list)
  PROVE  /\ Listed' /\ Line("boot")' = Line("boot")
         /\ Line("service")' = IF list = Apply THEN "load" ELSE IF list = ClearSteps THEN "flush" ELSE "start"
<1>1. list \in ServiceLists /\ list # <<>> BY ServiceHeads DEF ServiceLists
<1>2. /\ steps'["service"] = list /\ steps'["boot"] = steps["boot"]
      /\ steps' \in [Procs -> ServiceLists \cup BootLists]
  BY <1>1 DEF Listed, Does, Procs
<1>3. Listed' /\ Line("boot")' = Line("boot") /\ Line("service")' = Head(list)
  BY <1>1, <1>2 DEF Listed, Line
<1>4. Head(list) = IF list = Apply THEN "load" ELSE IF list = ClearSteps THEN "flush" ELSE "start"
  BY ServiceHeads, Zenon
<1> QED BY <1>3, <1>4

\* Where nobody moves.
LEMMA Stays ==
  UNCHANGED steps /\ Listed =>
    Listed' /\ Line("service")' = Line("service") /\ Line("boot")' = Line("boot")
BY DEF Listed, Line

\* What the lines are called.
LEMMA LinesAre ==
  ASSUME Listed
  PROVE  /\ Line("service") \in {"idle", "start", "load", "enable", "token", "check", "write",
                                 "flush", "unlink", "release", "forget"}
         /\ Line("boot") \in {"idle", "read", "main", "load", "enable", "token", "check"}
         /\ Idles <=> Line("service") = "idle"
         /\ steps["boot"] = <<>> <=> Line("boot") = "idle"
         /\ TakenDown <=> IF Line("service") = "idle" THEN ~believed
                          ELSE Line("service") \in {"unlink", "release", "forget"}
<1>1. /\ Line("service") \in {"idle", "start", "load", "enable", "token", "check", "write",
                                 "flush", "unlink", "release", "forget"}
      /\ steps["service"] = <<>> <=> Line("service") = "idle"
  BY ServiceHeads DEF Listed, Line, ServiceLists
<1>2. /\ Line("boot") \in {"idle", "read", "main", "load", "enable", "token", "check"}
      /\ steps["boot"] = <<>> <=> Line("boot") = "idle"
  BY BootHeads DEF Listed, Line, BootLists
<1> QED BY <1>1, <1>2 DEF Idles, TakenDown, Line

\* ApplyBootGuard reads the rules kept on disk: without them it gives up, and nothing is armed.
LEMMA ReadRulesRight ==
  ASSUME PfInv, ReadRules
  PROVE  PfInv'
<1>0. PfRest /\ Listed /\ Orderly /\ HeldInv /\ ArmedInv /\ KnownInv
  BY DEF PfInv
<1>1. Line("boot") = "read" /\ steps["boot"] # <<>>
  BY AtIsLine DEF Procs, ReadRules
<1>2. /\ Line("service") \in {"idle", "start", "load", "enable", "token", "check", "write",
                                 "flush", "unlink", "release", "forget"}
      /\ Line("boot") \in {"idle", "read", "main", "load", "enable", "token", "check"}
      /\ TakenDown <=> IF Line("service") = "idle" THEN ~believed
                       ELSE Line("service") \in {"unlink", "release", "forget"}
  BY <1>0, LinesAre
<1>3. Onward("boot") => Listed' /\ Line("service")' = Line("service") /\ Line("boot")' = "main"
  BY <1>0, <1>1, BootGoesOn
<1>4. GivesUp("boot") => Listed' /\ Line("service")' = Line("service") /\ Line("boot")' = "idle"
  BY <1>0, GaveUp DEF Procs
<1>5. Listed'
  BY <1>3, <1>4 DEF ReadRules
<1>6. PfRest'
  BY <1>0 DEF PfRest, ReadRules, osVars, keptVars
<1>7. Orderly'
  BY <1>0, <1>1, <1>3, <1>4 DEF Orderly, Procs, ReadRules, keptVars
<1>8. HeldInv'
  BY <1>0, <1>3, <1>4 DEF HeldInv, Kept, Ours, ReadRules, osVars
<1>9. ArmedInv'
  BY <1>3 DEF ArmedInv, ReadRules
<1>10. KnownInv'
  BY <1>0, <1>3, <1>4 DEF KnownInv, ReadRules, osVars, keptVars
<1> QED BY <1>5, <1>6, <1>7, <1>8, <1>9, <1>10 DEF PfInv

\* The hook is put into pf's main rules before anything is loaded through it.
LEMMA MainRulesRight ==
  ASSUME PfInv, MainRules
  PROVE  PfInv'
<1>0. PfRest /\ Listed /\ Orderly /\ HeldInv /\ ArmedInv /\ KnownInv
  BY DEF PfInv
<1>1. Line("boot") = "main" /\ steps["boot"] # <<>>
  BY AtIsLine DEF Procs, MainRules
<1>2. /\ Line("service") \in {"idle", "start", "load", "enable", "token", "check", "write",
                                 "flush", "unlink", "release", "forget"}
      /\ Line("boot") \in {"idle", "read", "main", "load", "enable", "token", "check"}
      /\ TakenDown <=> IF Line("service") = "idle" THEN ~believed
                       ELSE Line("service") \in {"unlink", "release", "forget"}
  BY <1>0, LinesAre
<1>3. Onward("boot") => Listed' /\ Line("service")' = Line("service") /\ Line("boot")' = "load"
  BY <1>0, <1>1, BootGoesOn
<1>4. GivesUp("boot") => Listed' /\ Line("service")' = Line("service") /\ Line("boot")' = "idle"
  BY <1>0, GaveUp DEF Procs
<1>5. Listed'
  BY <1>3, <1>4 DEF MainRules
<1>6. PfRest'
  BY <1>0 DEF PfRest, MainRules, keptVars
<1>7. Orderly'
  BY <1>0, <1>1, <1>3, <1>4 DEF Orderly, Procs, MainRules, keptVars
<1>8. HeldInv'
  BY <1>0, <1>3, <1>4 DEF HeldInv, Kept, Ours, MainRules
<1>9. ArmedInv'
  BY <1>3 DEF ArmedInv, MainRules
<1>10. KnownInv'
  BY <1>0, <1>3, <1>4 DEF KnownInv, MainRules, keptVars
<1> QED BY <1>5, <1>6, <1>7, <1>8, <1>9, <1>10 DEF PfInv

\* ApplyGuard loads its anchor; a call that fails ends it, and the service knows.
LEMMA ServiceLoadsRight ==
  ASSUME PfInv, LoadAnchor("service")
  PROVE  PfInv'
<1>0. PfRest /\ Listed /\ Orderly /\ HeldInv /\ ArmedInv /\ KnownInv
  BY DEF PfInv
<1>1. Line("service") = "load" /\ steps["service"] # <<>>
  BY AtIsLine DEF Procs, LoadAnchor
<1>2. /\ Line("service") \in {"idle", "start", "load", "enable", "token", "check", "write",
                                 "flush", "unlink", "release", "forget"}
      /\ Line("boot") \in {"idle", "read", "main", "load", "enable", "token", "check"}
      /\ TakenDown <=> IF Line("service") = "idle" THEN ~believed
                       ELSE Line("service") \in {"unlink", "release", "forget"}
  BY <1>0, LinesAre
<1>3. Onward("service") => Listed' /\ Line("boot")' = Line("boot") /\ Line("service")' = "enable"
  BY <1>0, <1>1, ServiceGoesOn
<1>4. GivesUp("service") => Listed' /\ Line("boot")' = Line("boot") /\ Line("service")' = "idle"
  BY <1>0, GaveUp DEF Procs
<1>5. Listed'
  BY <1>3, <1>4 DEF LoadAnchor
<1>6. PfRest'
  BY <1>0 DEF PfRest, LoadAnchor, Reports, keptVars
<1>7. Orderly'
  BY <1>0, <1>1, <1>3, <1>4 DEF Orderly, Procs, LoadAnchor
<1>8. HeldInv'
  BY <1>3 DEF HeldInv, Kept, Ours, LoadAnchor, Reports
<1>9. ArmedInv'
  BY <1>0, <1>3 DEF ArmedInv, Ours, LoadAnchor
<1>10. KnownInv'
  BY <1>0, <1>3, <1>4 DEF KnownInv, LoadAnchor, keptVars
<1> QED BY <1>5, <1>6, <1>7, <1>8, <1>9, <1>10 DEF PfInv

\* Where pf is enabled, somebody holds a reference.
LEMMA OursOrTheirs ==
  ASSUME PfRest, Enabled
  PROVE  refs = {Other} \/ Ours
BY DEF PfRest, Enabled, Ours

\* pfctl -E gives a reference of the service's own; where a kept one is still good there is nothing to do.
LEMMA ServiceEnablesRight ==
  ASSUME PfInv, EnablePF("service")
  PROVE  PfInv'
<1>0. PfRest /\ Listed /\ Orderly /\ HeldInv /\ ArmedInv /\ KnownInv
  BY DEF PfInv
<1>1. Line("service") = "enable" /\ steps["service"] # <<>> /\ At("service", "enable")
  BY AtIsLine DEF Procs, EnablePF
<1>2. /\ UNCHANGED <<anchored, hook, tokens, bootRules, sought, believed, lost>>
  BY DEF EnablePF, keptVars
<1>3. token["service"] = 0 /\ token["boot"] \in {0} \cup PfTokens
  BY <1>0, <1>1 DEF Orderly, PfRest, Procs
<1>4. CASE /\ Enabled /\ tokens # {} /\ steps' = [steps EXCEPT !["service"] = Tail(Tail(Tail(@)))]
           /\ borrowed' = (refs = {Other}) /\ UNCHANGED <<refs, token, armed, shaken, behind>>
  <2>1. Listed' /\ Line("boot")' = Line("boot") /\ Line("service")' = "write"
    BY <1>0, <1>1, <1>4, EnableReturns DEF Procs
  <2>7. refs = {Other} \/ Ours
    BY <1>0, <1>4, OursOrTheirs
  <2>2. PfRest'
    BY <1>0, <1>2, <1>4 DEF PfRest
  <2>3. Orderly'
    BY <1>0, <1>1, <1>4, <2>1 DEF Orderly, Procs
  <2>4. HeldInv'
    BY <1>0, <1>1, <1>2, <1>4, <2>7 DEF HeldInv, Ours
  <2>5. ArmedInv'
    BY <1>0, <1>2, <1>4, <2>1, <2>7 DEF ArmedInv, Ours
  <2>6. KnownInv'
    BY <1>0, <1>2, <1>4, <2>1 DEF KnownInv
  <2> QED BY <2>1, <2>2, <2>3, <2>4, <2>5, <2>6 DEF PfInv
<1>5. ASSUME NEW t \in PfTokens \ (refs \cup tokens), refs' = refs \cup {t}, token' = [token EXCEPT !["service"] = t],
             borrowed' = FALSE, Onward("service"), UNCHANGED <<armed, shaken, behind>>
      PROVE  PfInv'
  <2>1. Listed' /\ Line("boot")' = Line("boot") /\ Line("service")' = "token"
    BY <1>0, <1>1, <1>5, ServiceGoesOn
  <2>2. token'["service"] = t /\ token'["boot"] = token["boot"] /\ t # 0
    BY <1>0, <1>5, PfConstants DEF PfRest, Procs, Other
  <2>3. PfRest'
    BY <1>0, <1>2, <1>5 DEF PfRest
  <2>4. Orderly'
    BY <1>0, <1>5, <2>1, <2>2 DEF Orderly, Procs
  <2>5. HeldInv'
    BY <1>0, <1>1, <1>2, <1>5 DEF HeldInv, Ours
  <2>6. ArmedInv'
    BY <1>0, <1>2, <1>5, <2>1 DEF ArmedInv, Ours
  <2>7. KnownInv'
    BY <1>0, <1>2, <1>3, <1>5, <2>1, <2>2 DEF KnownInv, Other
  <2> QED BY <2>1, <2>3, <2>4, <2>5, <2>6, <2>7 DEF PfInv
<1>6. CASE Halfway("service") /\ UNCHANGED <<refs, token, borrowed>>
  <2>1. Listed' /\ Line("boot")' = Line("boot") /\ Line("service")' = "idle"
    BY <1>0, <1>6, GaveUp DEF Procs, Halfway
  <2>2. PfRest'
    BY <1>0, <1>2, <1>6 DEF PfRest, Halfway, Reports
  <2>3. Orderly'
    BY <1>0, <1>1, <1>6, <2>1 DEF Orderly, Procs, Halfway
  <2>4. HeldInv'
    BY <1>2, <1>6 DEF HeldInv, Ours, Halfway, Reports
  <2>5. ArmedInv'
    BY <1>6 DEF ArmedInv, Halfway
  <2>6. KnownInv'
    BY <1>0, <1>2, <1>6, <2>1 DEF KnownInv, Halfway
  <2> QED BY <2>1, <2>2, <2>3, <2>4, <2>5, <2>6 DEF PfInv
<1> QED BY <1>4, <1>5, <1>6 DEF EnablePF

\* The reference is written down, or the call fails and it is lost.
LEMMA ServiceSavesRight ==
  ASSUME PfInv, SaveToken("service")
  PROVE  PfInv'
<1>0. PfRest /\ Listed /\ Orderly /\ HeldInv /\ ArmedInv /\ KnownInv
  BY DEF PfInv
<1>1. Line("service") = "token" /\ steps["service"] # <<>>
  BY AtIsLine DEF Procs, SaveToken
<1>2. /\ Line("service") \in {"idle", "start", "load", "enable", "token", "check", "write",
                                 "flush", "unlink", "release", "forget"}
      /\ Line("boot") \in {"idle", "read", "main", "load", "enable", "token", "check"}
      /\ TakenDown <=> IF Line("service") = "idle" THEN ~believed
                       ELSE Line("service") \in {"unlink", "release", "forget"}
  BY <1>0, LinesAre
<1>3. Onward("service") => Listed' /\ Line("boot")' = Line("boot") /\ Line("service")' = "check"
  BY <1>0, <1>1, ServiceGoesOn
<1>4. Listed'
  BY <1>3 DEF SaveToken
<1>5. PfRest'
  BY <1>0, <1>1 DEF Orderly, PfRest, Procs, SaveToken, osVars
<1>6. Orderly'
  BY <1>0, <1>3 DEF Orderly, PfRest, Procs, SaveToken
<1>7. HeldInv'
  BY <1>0, <1>1 DEF HeldInv, Ours, SaveToken, osVars
<1>8. ArmedInv'
  BY <1>0, <1>3 DEF ArmedInv, Ours, SaveToken, osVars
<1>9. KnownInv'
  BY <1>0, <1>3 DEF KnownInv, SaveToken, osVars
<1> QED BY <1>4, <1>5, <1>6, <1>7, <1>8, <1>9 DEF PfInv

\* What the service finds of pf when it looks.
LEMMA ServiceChecksRight ==
  ASSUME PfInv, CheckEnabled("service")
  PROVE  PfInv'
<1>0. PfRest /\ Listed /\ Orderly /\ HeldInv /\ ArmedInv /\ KnownInv
  BY DEF PfInv
<1>1. Line("service") = "check" /\ steps["service"] # <<>>
  BY AtIsLine DEF Procs, CheckEnabled
<1>2. /\ Line("service") \in {"idle", "start", "load", "enable", "token", "check", "write",
                                 "flush", "unlink", "release", "forget"}
      /\ Line("boot") \in {"idle", "read", "main", "load", "enable", "token", "check"}
      /\ TakenDown <=> IF Line("service") = "idle" THEN ~believed
                       ELSE Line("service") \in {"unlink", "release", "forget"}
  BY <1>0, LinesAre
<1>3. Onward("service") => Listed' /\ Line("boot")' = Line("boot") /\ Line("service")' = "write"
  BY <1>0, <1>1, ServiceGoesOn
<1>4. GivesUp("service") => Listed' /\ Line("boot")' = Line("boot") /\ Line("service")' = "idle"
  BY <1>0, GaveUp DEF Procs
<1>5. Listed'
  BY <1>3, <1>4 DEF CheckEnabled, Halfway
<1>6. PfRest'
  BY <1>0 DEF PfRest, CheckEnabled, Halfway, Reports, osVars, keptVars
<1>7. Orderly'
  BY <1>0, <1>1, <1>3, <1>4 DEF Orderly, Procs, CheckEnabled, Halfway
<1>8. HeldInv'
  BY <1>0, <1>1 DEF HeldInv, Ours, CheckEnabled, Halfway, Reports, osVars
<1>9. ArmedInv'
  BY <1>0, <1>3 DEF ArmedInv, Ours, CheckEnabled, Halfway, osVars
<1>10. KnownInv'
  BY <1>0, <1>3, <1>4 DEF KnownInv, CheckEnabled, Halfway, osVars, keptVars
<1> QED BY <1>5, <1>6, <1>7, <1>8, <1>9, <1>10 DEF PfInv

\* The same calls made by ApplyBootGuard.
LEMMA BootLoadsRight ==
  ASSUME PfInv, LoadAnchor("boot")
  PROVE  PfInv'
<1>0. PfRest /\ Listed /\ Orderly /\ HeldInv /\ ArmedInv /\ KnownInv
  BY DEF PfInv
<1>1. Line("boot") = "load" /\ steps["boot"] # <<>>
  BY AtIsLine DEF Procs, LoadAnchor
<1>2. /\ Line("service") \in {"idle", "start", "load", "enable", "token", "check", "write",
                                 "flush", "unlink", "release", "forget"}
      /\ Line("boot") \in {"idle", "read", "main", "load", "enable", "token", "check"}
      /\ TakenDown <=> IF Line("service") = "idle" THEN ~believed
                       ELSE Line("service") \in {"unlink", "release", "forget"}
  BY <1>0, LinesAre
<1>3. Onward("boot") => Listed' /\ Line("service")' = Line("service") /\ Line("boot")' = "enable"
  BY <1>0, <1>1, BootGoesOn
<1>4. GivesUp("boot") => Listed' /\ Line("service")' = Line("service") /\ Line("boot")' = "idle"
  BY <1>0, GaveUp DEF Procs
<1>5. Listed'
  BY <1>3, <1>4 DEF LoadAnchor
<1>6. PfRest'
  BY <1>0 DEF PfRest, LoadAnchor, Reports, keptVars
<1>7. Orderly'
  BY <1>0, <1>1, <1>3, <1>4 DEF Orderly, Procs, LoadAnchor, keptVars
<1>8. HeldInv'
  BY <1>0, <1>3, <1>4 DEF HeldInv, Kept, Ours, LoadAnchor, Reports
<1>9. ArmedInv'
  BY <1>0, <1>1, <1>3 DEF ArmedInv, LoadAnchor
<1>10. KnownInv'
  <2>1. UNCHANGED <<refs, tokens, bootRules, token, believed, lost>>
    BY DEF LoadAnchor, keptVars
  <2>2. CASE anchored' = TRUE /\ Onward("boot") /\ behind' = (behind \/ TakenDown)
    BY <1>0, <1>2, <1>3, <2>1, <2>2 DEF KnownInv
  <2>3. CASE UNCHANGED anchored /\ GivesUp("boot") /\ behind' = (behind \/ ~believed)
    BY <1>0, <1>4, <2>1, <2>3 DEF KnownInv
  <2> QED BY <2>2, <2>3 DEF LoadAnchor
<1> QED BY <1>5, <1>6, <1>7, <1>8, <1>9, <1>10 DEF PfInv

LEMMA BootEnablesRight ==
  ASSUME PfInv, EnablePF("boot")
  PROVE  PfInv'
<1>0. PfRest /\ Listed /\ Orderly /\ HeldInv /\ ArmedInv /\ KnownInv
  BY DEF PfInv
<1>1. Line("boot") = "enable" /\ steps["boot"] # <<>> /\ At("boot", "enable")
  BY AtIsLine DEF Procs, EnablePF
<1>2. /\ UNCHANGED <<anchored, hook, tokens, bootRules, sought, believed, lost>>
  BY DEF EnablePF, keptVars
<1>3. token["boot"] = 0 /\ token["service"] \in {0} \cup PfTokens
  BY <1>0, <1>1 DEF Orderly, PfRest, Procs
<1>4. CASE /\ Enabled /\ tokens # {} /\ steps' = [steps EXCEPT !["boot"] = Tail(Tail(Tail(@)))]
           /\ borrowed' = (refs = {Other}) /\ UNCHANGED <<refs, token, armed, shaken, behind>>
  <2>1. Listed' /\ Line("service")' = Line("service") /\ Line("boot")' = "idle"
    BY <1>0, <1>1, <1>4, EnableReturns DEF Procs
  <2>7. refs = {Other} \/ Ours
    BY <1>0, <1>4, OursOrTheirs
  <2>2. PfRest'
    BY <1>0, <1>2, <1>4 DEF PfRest
  <2>3. Orderly'
    BY <1>0, <1>1, <1>2, <1>4, <2>1 DEF Orderly, Procs
  <2>4. HeldInv'
    BY <1>0, <1>2, <1>4, <2>1, <2>7 DEF HeldInv, Kept, Ours
  <2>5. ArmedInv'
    BY <1>0, <1>1, <1>2, <1>4, <2>7 DEF ArmedInv, Ours
  <2>6. KnownInv'
    BY <1>0, <1>2, <1>4, <2>1 DEF KnownInv
  <2> QED BY <2>1, <2>2, <2>3, <2>4, <2>5, <2>6 DEF PfInv
<1>5. ASSUME NEW t \in PfTokens \ (refs \cup tokens), refs' = refs \cup {t}, token' = [token EXCEPT !["boot"] = t],
             borrowed' = FALSE, Onward("boot"), UNCHANGED <<armed, shaken, behind>>
      PROVE  PfInv'
  <2>1. Listed' /\ Line("service")' = Line("service") /\ Line("boot")' = "token"
    BY <1>0, <1>1, <1>5, BootGoesOn
  <2>2. token'["boot"] = t /\ token'["service"] = token["service"] /\ t # 0
    BY <1>0, <1>5, PfConstants DEF PfRest, Procs, Other
  <2>3. PfRest'
    BY <1>0, <1>2, <1>5 DEF PfRest
  <2>4. Orderly'
    BY <1>0, <1>2, <1>5, <2>1, <2>2 DEF Orderly, Procs
  <2>5. HeldInv'
    BY <1>0, <1>2, <1>5, <2>1 DEF HeldInv, Kept, Ours
  <2>6. ArmedInv'
    BY <1>0, <1>1, <1>2, <1>5 DEF ArmedInv, Ours
  <2>7. KnownInv'
    BY <1>0, <1>2, <1>3, <1>5, <2>1, <2>2 DEF KnownInv, Other
  <2> QED BY <2>1, <2>3, <2>4, <2>5, <2>6, <2>7 DEF PfInv
<1>6. CASE Halfway("boot") /\ UNCHANGED <<refs, token, borrowed>>
  <2>1. Listed' /\ Line("service")' = Line("service") /\ Line("boot")' = "idle"
    BY <1>0, <1>6, GaveUp DEF Procs, Halfway
  <2>2. PfRest'
    BY <1>0, <1>2, <1>6 DEF PfRest, Halfway, Reports
  <2>3. Orderly'
    BY <1>0, <1>1, <1>2, <1>6, <2>1 DEF Orderly, Procs, Halfway
  <2>4. HeldInv'
    BY <1>0, <1>2, <1>6, <2>1 DEF HeldInv, Kept, Ours, Halfway, Reports
  <2>5. ArmedInv'
    BY <1>6 DEF ArmedInv, Halfway
  <2>6. KnownInv'
    BY <1>0, <1>2, <1>6 DEF KnownInv, Halfway
  <2> QED BY <2>1, <2>2, <2>3, <2>4, <2>5, <2>6 DEF PfInv
<1> QED BY <1>4, <1>5, <1>6 DEF EnablePF

LEMMA BootSavesRight ==
  ASSUME PfInv, SaveToken("boot")
  PROVE  PfInv'
<1>0. PfRest /\ Listed /\ Orderly /\ HeldInv /\ ArmedInv /\ KnownInv
  BY DEF PfInv
<1>1. Line("boot") = "token" /\ steps["boot"] # <<>>
  BY AtIsLine DEF Procs, SaveToken
<1>2. /\ Line("service") \in {"idle", "start", "load", "enable", "token", "check", "write",
                                 "flush", "unlink", "release", "forget"}
      /\ Line("boot") \in {"idle", "read", "main", "load", "enable", "token", "check"}
      /\ TakenDown <=> IF Line("service") = "idle" THEN ~believed
                       ELSE Line("service") \in {"unlink", "release", "forget"}
  BY <1>0, LinesAre
<1>3. Onward("boot") => Listed' /\ Line("service")' = Line("service") /\ Line("boot")' = "check"
  BY <1>0, <1>1, BootGoesOn
<1>4. Listed'
  BY <1>3 DEF SaveToken
<1>5. PfRest'
  BY <1>0, <1>1 DEF Orderly, PfRest, Procs, SaveToken, osVars
<1>6. Orderly'
  BY <1>0, <1>3 DEF Orderly, PfRest, Procs, SaveToken
<1>7. HeldInv'
  BY <1>0, <1>3 DEF HeldInv, Kept, Ours, SaveToken, osVars
<1>8. ArmedInv'
  BY <1>0, <1>1 DEF ArmedInv, Ours, SaveToken, osVars
<1>9. KnownInv'
  BY <1>0, <1>2, <1>3 DEF KnownInv, PfRest, Procs, SaveToken, osVars
<1> QED BY <1>4, <1>5, <1>6, <1>7, <1>8, <1>9 DEF PfInv

LEMMA BootChecksRight ==
  ASSUME PfInv, CheckEnabled("boot")
  PROVE  PfInv'
<1>0. PfRest /\ Listed /\ Orderly /\ HeldInv /\ ArmedInv /\ KnownInv
  BY DEF PfInv
<1>1. Line("boot") = "check" /\ steps["boot"] # <<>>
  BY AtIsLine DEF Procs, CheckEnabled
<1>2. /\ Line("service") \in {"idle", "start", "load", "enable", "token", "check", "write",
                                 "flush", "unlink", "release", "forget"}
      /\ Line("boot") \in {"idle", "read", "main", "load", "enable", "token", "check"}
      /\ TakenDown <=> IF Line("service") = "idle" THEN ~believed
                       ELSE Line("service") \in {"unlink", "release", "forget"}
  BY <1>0, LinesAre
<1>3. Onward("boot") => Listed' /\ Line("service")' = Line("service") /\ Line("boot")' = "idle"
  BY <1>0, <1>1, BootGoesOn
<1>4. GivesUp("boot") => Listed' /\ Line("service")' = Line("service") /\ Line("boot")' = "idle"
  BY <1>0, GaveUp DEF Procs
<1>5. Listed'
  BY <1>3, <1>4 DEF CheckEnabled, Halfway
<1>6. PfRest'
  BY <1>0 DEF PfRest, CheckEnabled, Halfway, Reports, osVars, keptVars
<1>7. Orderly'
  BY <1>0, <1>1, <1>3, <1>4 DEF Orderly, Procs, CheckEnabled, Halfway, keptVars
<1>8. HeldInv'
  BY <1>0, <1>3, <1>4
     DEF HeldInv, Kept, Ours, CheckEnabled, Halfway, Reports, osVars
<1>9. ArmedInv'
  BY <1>0, <1>1 DEF ArmedInv, Ours, CheckEnabled, Halfway, osVars
<1>10. KnownInv'
  BY <1>0, <1>3 DEF KnownInv, CheckEnabled, Halfway, osVars, keptVars
<1> QED BY <1>5, <1>6, <1>7, <1>8, <1>9, <1>10 DEF PfInv

\* The rules for the next boot are written last: then the service takes its guard to be up.
LEMMA WriteBootRulesRight ==
  ASSUME PfInv, WriteBootRules
  PROVE  PfInv'
<1>0. PfRest /\ Listed /\ Orderly /\ HeldInv /\ ArmedInv /\ KnownInv
  BY DEF PfInv
<1>1. Line("service") = "write" /\ steps["service"] # <<>>
  BY AtIsLine DEF Procs, WriteBootRules
<1>2. /\ Line("service") \in {"idle", "start", "load", "enable", "token", "check", "write",
                                 "flush", "unlink", "release", "forget"}
      /\ Line("boot") \in {"idle", "read", "main", "load", "enable", "token", "check"}
      /\ TakenDown <=> IF Line("service") = "idle" THEN ~believed
                       ELSE Line("service") \in {"unlink", "release", "forget"}
  BY <1>0, LinesAre
<1>3. Onward("service") => Listed' /\ Line("boot")' = Line("boot") /\ Line("service")' = "idle"
  BY <1>0, <1>1, ServiceGoesOn
<1>4. Listed'
  BY <1>3 DEF WriteBootRules
<1>5. PfRest'
  BY <1>0 DEF PfRest, WriteBootRules, osVars
<1>6. Orderly'
  BY <1>0, <1>1, <1>3 DEF Orderly, Procs, WriteBootRules
<1>7. HeldInv'
  BY <1>0, <1>1 DEF HeldInv, Ours, WriteBootRules, osVars
<1>8. ArmedInv'
  BY <1>0, <1>3 DEF ArmedInv, Ours, WriteBootRules, osVars
<1>9. KnownInv'
  BY <1>0, <1>3 DEF KnownInv, WriteBootRules, osVars
<1> QED BY <1>4, <1>5, <1>6, <1>7, <1>8, <1>9 DEF PfInv

\* ClearGuard empties the anchor first.
LEMMA FlushAnchorRight ==
  ASSUME PfInv, FlushAnchor
  PROVE  PfInv'
<1>0. PfRest /\ Listed /\ Orderly /\ HeldInv /\ ArmedInv /\ KnownInv
  BY DEF PfInv
<1>1. Line("service") = "flush" /\ steps["service"] # <<>>
  BY AtIsLine DEF Procs, FlushAnchor
<1>2. /\ Line("service") \in {"idle", "start", "load", "enable", "token", "check", "write",
                                 "flush", "unlink", "release", "forget"}
      /\ Line("boot") \in {"idle", "read", "main", "load", "enable", "token", "check"}
      /\ TakenDown <=> IF Line("service") = "idle" THEN ~believed
                       ELSE Line("service") \in {"unlink", "release", "forget"}
  BY <1>0, LinesAre
<1>3. Onward("service") => Listed' /\ Line("boot")' = Line("boot") /\ Line("service")' = "unlink"
  BY <1>0, <1>1, ServiceGoesOn
<1>4. GivesUp("service") => Listed' /\ Line("boot")' = Line("boot") /\ Line("service")' = "idle"
  BY <1>0, GaveUp DEF Procs
<1>5. Listed'
  BY <1>3, <1>4 DEF FlushAnchor
<1>6. PfRest'
  BY <1>0 DEF PfRest, FlushAnchor, keptVars
<1>7. Orderly'
  BY <1>0, <1>1, <1>3, <1>4 DEF Orderly, Procs, FlushAnchor
<1>8. HeldInv'
  BY <1>0, <1>1, <1>3, <1>4 DEF HeldInv, Orderly, Kept, FlushAnchor
<1>9. ArmedInv'
  BY DEF ArmedInv, FlushAnchor
<1>10. KnownInv'
  BY <1>0, <1>3, <1>4 DEF KnownInv, FlushAnchor, keptVars
<1> QED BY <1>5, <1>6, <1>7, <1>8, <1>9, <1>10 DEF PfInv

\* Then it removes what would act at a boot.
LEMMA RemoveBootRulesRight ==
  ASSUME PfInv, RemoveBootRules
  PROVE  PfInv'
<1>0. PfRest /\ Listed /\ Orderly /\ HeldInv /\ ArmedInv /\ KnownInv
  BY DEF PfInv
<1>1. Line("service") = "unlink" /\ steps["service"] # <<>>
  BY AtIsLine DEF Procs, RemoveBootRules
<1>2. /\ Line("service") \in {"idle", "start", "load", "enable", "token", "check", "write",
                                 "flush", "unlink", "release", "forget"}
      /\ Line("boot") \in {"idle", "read", "main", "load", "enable", "token", "check"}
      /\ TakenDown <=> IF Line("service") = "idle" THEN ~believed
                       ELSE Line("service") \in {"unlink", "release", "forget"}
  BY <1>0, LinesAre
<1>3. Onward("service") => Listed' /\ Line("boot")' = Line("boot") /\ Line("service")' = "release"
  BY <1>0, <1>1, ServiceGoesOn
<1>4. GivesUp("service") => Listed' /\ Line("boot")' = Line("boot") /\ Line("service")' = "idle"
  BY <1>0, GaveUp DEF Procs
<1>5. Listed'
  BY <1>3, <1>4 DEF RemoveBootRules
<1>6. PfRest'
  BY <1>0 DEF PfRest, RemoveBootRules, osVars
<1>7. Orderly'
  BY <1>0, <1>1, <1>3, <1>4 DEF Orderly, Procs, RemoveBootRules
<1>8. HeldInv'
  BY <1>0, <1>1, <1>3, <1>4 DEF HeldInv, Orderly, Kept, RemoveBootRules
<1>9. ArmedInv'
  BY DEF ArmedInv, RemoveBootRules
<1>10. KnownInv'
  BY <1>0, <1>3, <1>4 DEF KnownInv, RemoveBootRules, osVars
<1> QED BY <1>5, <1>6, <1>7, <1>8, <1>9, <1>10 DEF PfInv

\* Then it gives its references back.
LEMMA GiveBackRight ==
  ASSUME PfInv, GiveBack
  PROVE  PfInv'
<1>0. PfRest /\ Listed /\ Orderly /\ HeldInv /\ ArmedInv /\ KnownInv
  BY DEF PfInv
<1>1. Line("service") = "release" /\ steps["service"] # <<>>
  BY AtIsLine DEF Procs, GiveBack
<1>2. /\ Line("service") \in {"idle", "start", "load", "enable", "token", "check", "write",
                                 "flush", "unlink", "release", "forget"}
      /\ Line("boot") \in {"idle", "read", "main", "load", "enable", "token", "check"}
      /\ TakenDown <=> IF Line("service") = "idle" THEN ~believed
                       ELSE Line("service") \in {"unlink", "release", "forget"}
  BY <1>0, LinesAre
<1>3. Onward("service") => Listed' /\ Line("boot")' = Line("boot") /\ Line("service")' = "forget"
  BY <1>0, <1>1, ServiceGoesOn
<1>4. Listed'
  BY <1>3 DEF GiveBack
<1>5. PfRest'
  BY <1>0 DEF PfRest, GiveBack, keptVars, historyVars
<1>6. Orderly'
  BY <1>0, <1>1, <1>3 DEF Orderly, Procs, GiveBack, keptVars, historyVars
<1>7. HeldInv'
  BY <1>3 DEF HeldInv, Kept, GiveBack
<1>8. ArmedInv'
  BY <1>0, <1>1 DEF ArmedInv, Orderly, GiveBack, historyVars
<1>9. KnownInv'
  BY <1>0, <1>1, <1>3 DEF KnownInv, GiveBack, keptVars, historyVars
<1> QED BY <1>4, <1>5, <1>6, <1>7, <1>8, <1>9 DEF PfInv

\* And forgets them: what was cleared is gone.
LEMMA ForgetTokensRight ==
  ASSUME PfInv, ForgetTokens
  PROVE  PfInv'
<1>0. PfRest /\ Listed /\ Orderly /\ HeldInv /\ ArmedInv /\ KnownInv
  BY DEF PfInv
<1>1. Line("service") = "forget" /\ steps["service"] # <<>>
  BY AtIsLine DEF Procs, ForgetTokens
<1>2. /\ Line("service") \in {"idle", "start", "load", "enable", "token", "check", "write",
                                 "flush", "unlink", "release", "forget"}
      /\ Line("boot") \in {"idle", "read", "main", "load", "enable", "token", "check"}
      /\ TakenDown <=> IF Line("service") = "idle" THEN ~believed
                       ELSE Line("service") \in {"unlink", "release", "forget"}
  BY <1>0, LinesAre
<1>3. Onward("service") => Listed' /\ Line("boot")' = Line("boot") /\ Line("service")' = "idle"
  BY <1>0, <1>1, ServiceGoesOn
<1>4. Listed'
  BY <1>3 DEF ForgetTokens
<1>5. PfRest'
  BY <1>0 DEF PfRest, ForgetTokens, osVars
<1>6. Orderly'
  BY <1>0, <1>1, <1>3 DEF Orderly, Procs, ForgetTokens
<1>7. HeldInv'
  BY <1>3 DEF HeldInv, Kept, ForgetTokens
<1>8. ArmedInv'
  BY <1>0, <1>1 DEF ArmedInv, Orderly, ForgetTokens
<1>9. KnownInv'
  BY <1>0, <1>1 DEF KnownInv, Orderly, Other, Procs, ForgetTokens, osVars
<1> QED BY <1>4, <1>5, <1>6, <1>7, <1>8, <1>9 DEF PfInv

\* The user asks for the guard or for none.
LEMMA WishesRight ==
  ASSUME PfInv, Wishes
  PROVE  PfInv'
<1>0. PfRest /\ Listed /\ Orderly /\ HeldInv /\ ArmedInv /\ KnownInv
  BY DEF PfInv
<1>1. /\ Line("service") \in {"idle", "start", "load", "enable", "token", "check", "write",
                                 "flush", "unlink", "release", "forget"}
      /\ Line("boot") \in {"idle", "read", "main", "load", "enable", "token", "check"}
  BY <1>0, LinesAre
<1>2. /\ Listed' /\ Line("boot")' = Line("boot")
      /\ Line("service")' = IF sought' /\ ~(believed /\ Evaluated) THEN "load"
                            ELSE IF ~sought' /\ believed THEN "flush" ELSE "idle"
  BY <1>0, ServiceBegins, Stays, LinesAre, ServiceHeads, Zenon DEF Wishes
<1>3. Line("service") = "idle"
  BY <1>0, LinesAre DEF Wishes
<1>4. /\ sought' = ~sought /\ UNCHANGED <<anchored, hook, refs, tokens, bootRules, token, believed, lost, armed, behind>>
      /\ borrowed' = (borrowed \/ (sought' /\ believed /\ Unheld))
      /\ (shaken' = shaken \/ (shaken = "yes" /\ sought' /\ ~(believed /\ Evaluated)))
  BY ServiceHeads DEF Wishes, osVars, keptVars, Does
<1>5. sought' /\ believed /\ Evaluated /\ ~borrowed' => Ours
  BY <1>0, <1>4, OursOrTheirs DEF Unheld, Evaluated
<1>6. shaken' \in {"no", "yes", "mending"}
  BY <1>0 DEF Wishes, Does, PfRest
<1>7. PfRest'
  BY <1>0, <1>4, <1>6 DEF PfRest
<1>8. Orderly'
  BY <1>0, <1>2, <1>3, <1>4 DEF Orderly, Procs
<1>9. HeldInv'
  BY <1>2, <1>4, <1>5 DEF HeldInv, Kept, Ours, Evaluated
<1>10. ArmedInv'
  BY <1>0, <1>2, <1>4 DEF ArmedInv, Ours
<1>11. KnownInv'
  BY <1>0, <1>2, <1>3, <1>4 DEF KnownInv
<1> QED BY <1>2, <1>7, <1>8, <1>9, <1>10, <1>11 DEF PfInv

\* The watch finds the guard not in force, and has it applied again.
LEMMA GuardWatchRight ==
  ASSUME PfInv, GuardWatch
  PROVE  PfInv'
<1>0. PfRest /\ Listed /\ Orderly /\ HeldInv /\ ArmedInv /\ KnownInv
  BY DEF PfInv
<1>1. /\ Line("service") \in {"idle", "start", "load", "enable", "token", "check", "write",
                                 "flush", "unlink", "release", "forget"}
      /\ Line("boot") \in {"idle", "read", "main", "load", "enable", "token", "check"}
  BY <1>0, LinesAre
<1>2. Listed' /\ Line("boot")' = Line("boot") /\ Line("service")' = "load"
  BY <1>0, ServiceBegins DEF GuardWatch
<1>3. Line("service") = "idle"
  BY <1>0, LinesAre DEF GuardWatch
<1>4. PfRest'
  BY <1>0 DEF PfRest, GuardWatch, Does, osVars, keptVars
<1>5. Orderly'
  BY <1>0, <1>2, <1>3 DEF Orderly, Procs, GuardWatch
<1>6. HeldInv'
  BY <1>2 DEF HeldInv, Kept
<1>7. ArmedInv'
  BY <1>0, <1>2 DEF ArmedInv, Ours, GuardWatch, osVars
<1>8. KnownInv'
  BY <1>0, <1>2 DEF KnownInv, GuardWatch, osVars, keptVars
<1> QED BY <1>2, <1>4, <1>5, <1>6, <1>7, <1>8 DEF PfInv

\* A service that starts takes over what it finds.
LEMMA StartsRight ==
  ASSUME PfInv, Starts
  PROVE  PfInv'
<1>0. PfRest /\ Listed /\ Orderly /\ HeldInv /\ ArmedInv /\ KnownInv
  BY DEF PfInv
<1>1. /\ Line("service") \in {"idle", "start", "load", "enable", "token", "check", "write",
                                 "flush", "unlink", "release", "forget"}
      /\ Line("boot") \in {"idle", "read", "main", "load", "enable", "token", "check"}
  BY <1>0, LinesAre
<1>2. Listed' /\ Line("boot")' = Line("boot") /\ Line("service")' = IF sought THEN "load" ELSE "flush"
  BY <1>0, ServiceBegins, ServiceHeads DEF Starts
<1>3. Line("service") = "start"
  BY AtIsLine DEF Starts, Procs
<1>4. PfRest'
  BY <1>0 DEF PfRest, Starts, Does, Evaluated, osVars, keptVars
<1>5. Orderly'
  BY <1>0, <1>2, <1>3 DEF Orderly, Procs, Starts
<1>6. HeldInv'
  BY <1>2 DEF HeldInv, Kept
<1>7. ArmedInv'
  BY <1>0, <1>2 DEF ArmedInv, Ours, Starts, osVars
<1>8. KnownInv'
  BY <1>0, <1>2 DEF KnownInv, Starts, osVars, keptVars
<1> QED BY <1>2, <1>4, <1>5, <1>6, <1>7, <1>8 DEF PfInv

\* What was under way is given up.
LEMMA GuardDiesRight ==
  ASSUME PfInv, GuardDies
  PROVE  PfInv'
<1>0. PfRest /\ Listed /\ Orderly /\ HeldInv /\ ArmedInv /\ KnownInv
  BY DEF PfInv
<1>1. /\ Line("service") \in {"idle", "start", "load", "enable", "token", "check", "write",
                                 "flush", "unlink", "release", "forget"}
      /\ Line("boot") \in {"idle", "read", "main", "load", "enable", "token", "check"}
  BY <1>0, LinesAre
<1>2. Listed' /\ Line("boot")' = Line("boot") /\ Line("service")' = "start"
  BY <1>0, ServiceBegins, ServiceHeads DEF GuardDies
<1>3. PfRest'
  BY <1>0 DEF PfRest, Procs, GuardDies, Does, osVars, keptVars
<1>4. Orderly'
  BY <1>0, <1>2 DEF Orderly, PfRest, Procs, GuardDies
<1>5. HeldInv'
  BY <1>2 DEF HeldInv, Kept
<1>6. ArmedInv'
  BY <1>0, <1>2 DEF ArmedInv, Ours, GuardDies, osVars
<1>7. KnownInv'
  BY <1>0, <1>2 DEF KnownInv, GuardDies, osVars, keptVars
<1> QED BY <1>2, <1>3, <1>4, <1>5, <1>6, <1>7 DEF PfInv

\* Nothing of pf survives but the files.
LEMMA RebootsRight ==
  ASSUME PfInv, Reboots
  PROVE  PfInv'
<1>0. PfRest /\ Listed /\ Orderly /\ HeldInv /\ ArmedInv /\ KnownInv
  BY DEF PfInv
<1>1. /\ Line("service") \in {"idle", "start", "load", "enable", "token", "check", "write",
                                 "flush", "unlink", "release", "forget"}
      /\ Line("boot") \in {"idle", "read", "main", "load", "enable", "token", "check"}
  BY <1>0, LinesAre
<1>2. Listed' /\ Line("boot")' = "read" /\ Line("service")' = "start"
  BY BootHeads DEF Reboots, Listed, Line, Procs, ServiceLists, BootLists
<1>3. PfRest'
  BY <1>0 DEF PfRest, Reboots, keptVars
<1>4. Orderly'
  BY <1>2 DEF Orderly, Procs, Reboots
<1>5. HeldInv'
  BY <1>2 DEF HeldInv, Kept
<1>6. ArmedInv'
  BY DEF ArmedInv, Reboots
<1>7. KnownInv'
  BY <1>2 DEF KnownInv, Reboots
<1> QED BY <1>2, <1>3, <1>4, <1>5, <1>6, <1>7 DEF PfInv

\* The system loads its own main rules.
LEMMA SystemLoadsRight ==
  ASSUME PfInv, SystemLoads
  PROVE  PfInv'
<1>0. PfRest /\ Listed /\ Orderly /\ HeldInv /\ ArmedInv /\ KnownInv
  BY DEF PfInv
<1>1. /\ Line("service") \in {"idle", "start", "load", "enable", "token", "check", "write",
                                 "flush", "unlink", "release", "forget"}
      /\ Line("boot") \in {"idle", "read", "main", "load", "enable", "token", "check"}
  BY <1>0, LinesAre
<1>2. Listed' /\ Line("service")' = Line("service") /\ Line("boot")' = Line("boot")
  BY <1>0, Stays DEF SystemLoads
<1>3. PfRest'
  BY <1>0 DEF PfRest, SystemLoads, keptVars, historyVars
<1>4. Orderly'
  BY <1>0, <1>2 DEF Orderly, Procs, SystemLoads, keptVars, historyVars
<1>5. HeldInv'
  BY <1>0, <1>2 DEF HeldInv, Kept, Ours, SystemLoads, historyVars
<1>6. ArmedInv'
  BY <1>0, <1>2 DEF ArmedInv, SystemLoads, historyVars
<1>7. KnownInv'
  BY <1>0, <1>2 DEF KnownInv, SystemLoads, keptVars, historyVars
<1> QED BY <1>2, <1>3, <1>4, <1>5, <1>6, <1>7 DEF PfInv

\* Another program enables pf, or stops needing it.
LEMMA OtherUsesRight ==
  ASSUME PfInv, OtherUses
  PROVE  PfInv'
<1>0. PfRest /\ Listed /\ Orderly /\ HeldInv /\ ArmedInv /\ KnownInv
  BY DEF PfInv
<1>1. /\ Line("service") \in {"idle", "start", "load", "enable", "token", "check", "write",
                                 "flush", "unlink", "release", "forget"}
      /\ Line("boot") \in {"idle", "read", "main", "load", "enable", "token", "check"}
  BY <1>0, LinesAre
<1>2. Listed' /\ Line("service")' = Line("service") /\ Line("boot")' = Line("boot")
  BY <1>0, Stays DEF OtherUses
<1>3. PfRest'
  BY <1>0 DEF PfRest, OtherUses, keptVars, historyVars
<1>4. Orderly'
  BY <1>0, <1>2 DEF Orderly, Procs, OtherUses, keptVars, historyVars
<1>5. HeldInv'
  BY <1>0, <1>2, PfConstants DEF HeldInv, Kept, Ours, OtherUses, historyVars
<1>6. ArmedInv'
  BY <1>0, <1>2, PfConstants DEF ArmedInv, Ours, OtherUses, historyVars
<1>7. KnownInv'
  BY <1>0, <1>2, PfConstants DEF KnownInv, PfRest, OtherUses, keptVars, historyVars
<1> QED BY <1>2, <1>3, <1>4, <1>5, <1>6, <1>7 DEF PfInv

\* Another program flushes the anchor or disables pf.
LEMMA OtherBreaksRight ==
  ASSUME PfInv, OtherBreaks
  PROVE  PfInv'
<1>0. PfRest /\ Listed /\ Orderly /\ HeldInv /\ ArmedInv /\ KnownInv
  BY DEF PfInv
<1>1. /\ Line("service") \in {"idle", "start", "load", "enable", "token", "check", "write",
                                 "flush", "unlink", "release", "forget"}
      /\ Line("boot") \in {"idle", "read", "main", "load", "enable", "token", "check"}
  BY <1>0, LinesAre
<1>2. Listed' /\ Line("service")' = Line("service") /\ Line("boot")' = Line("boot")
  BY <1>0, Stays DEF OtherBreaks
<1>3. PfRest'
  BY <1>0 DEF PfRest, OtherBreaks, keptVars
<1>4. Orderly'
  BY <1>0, <1>2 DEF Orderly, Procs, OtherBreaks, keptVars
<1>5. HeldInv'
  BY DEF HeldInv, OtherBreaks
<1>6. ArmedInv'
  BY DEF ArmedInv, OtherBreaks
<1>7. KnownInv'
  <2>1. UNCHANGED <<tokens, bootRules, token, believed, behind>>
    BY DEF OtherBreaks, keptVars
  <2>2. CASE refs' = {} /\ lost' = {} /\ UNCHANGED anchored
    BY <1>0, <1>2, <2>1, <2>2 DEF KnownInv
  <2>3. CASE (anchored' = FALSE \/ UNCHANGED anchored) /\ UNCHANGED <<refs, lost>>
    BY <1>0, <1>2, <2>1, <2>3 DEF KnownInv
  <2> QED BY <2>2, <2>3 DEF OtherBreaks
<1> QED BY <1>2, <1>3, <1>4, <1>5, <1>6, <1>7 DEF PfInv

\* Nothing happens.
LEMMA PfStutters ==
  ASSUME PfInv, UNCHANGED pfVars
  PROVE  PfInv'
<1>0. PfRest /\ Listed /\ Orderly /\ HeldInv /\ ArmedInv /\ KnownInv
  BY DEF PfInv
<1>1. /\ Line("service") \in {"idle", "start", "load", "enable", "token", "check", "write",
                                 "flush", "unlink", "release", "forget"}
      /\ Line("boot") \in {"idle", "read", "main", "load", "enable", "token", "check"}
  BY <1>0, LinesAre
<1>2. Listed' /\ Line("service")' = Line("service") /\ Line("boot")' = Line("boot")
  BY <1>0, Stays DEF pfVars
<1>3. PfRest'
  BY <1>0 DEF PfRest, pfVars, osVars, keptVars, historyVars
<1>4. Orderly'
  BY <1>0, <1>2 DEF Orderly, Procs, pfVars, keptVars, historyVars
<1>5. HeldInv'
  BY <1>0, <1>2 DEF HeldInv, Kept, Ours, pfVars, osVars, historyVars
<1>6. ArmedInv'
  BY <1>0, <1>2 DEF ArmedInv, Ours, pfVars, osVars, historyVars
<1>7. KnownInv'
  BY <1>0, <1>2 DEF KnownInv, pfVars, osVars, keptVars, historyVars
<1> QED BY <1>2, <1>3, <1>4, <1>5, <1>6, <1>7 DEF PfInv

\* It holds at first.
LEMMA PfInitInv == PfInit => PfInv
<1> SUFFICES ASSUME PfInit PROVE PfInv
  OBVIOUS
<1>1. Listed /\ Line("service") = "idle" /\ Line("boot") = "idle"
  BY DEF PfInit, Listed, Line, Procs, ServiceLists, BootLists
<1>2. PfRest /\ Orderly
  BY <1>1 DEF PfInit, PfRest, Orderly, Procs
<1>3. HeldInv /\ ArmedInv /\ KnownInv
  BY <1>1 DEF PfInit, HeldInv, Kept, ArmedInv, KnownInv
<1> QED BY <1>1, <1>2, <1>3 DEF PfInv

\* Every step keeps it.
LEMMA PfInvKept == PfInv /\ [PfNext]_pfVars => PfInv'
<1> SUFFICES ASSUME PfInv, [PfNext]_pfVars PROVE PfInv'
  OBVIOUS
<1>1. ASSUME NEW p \in Procs, LoadAnchor(p) \/ EnablePF(p) \/ SaveToken(p) \/ CheckEnabled(p)
      PROVE  PfInv'
  <2>1. CASE p = "service"
    BY <1>1, <2>1, ServiceLoadsRight, ServiceEnablesRight, ServiceSavesRight,
       ServiceChecksRight
  <2>2. CASE p = "boot"
    BY <1>1, <2>2, BootLoadsRight, BootEnablesRight, BootSavesRight, BootChecksRight
  <2> QED BY <2>1, <2>2 DEF Procs
<1>2. CASE ReadRules \/ MainRules
  BY <1>2, ReadRulesRight, MainRulesRight
<1>3. CASE WriteBootRules \/ FlushAnchor \/ RemoveBootRules \/ GiveBack \/ ForgetTokens
  BY <1>3, WriteBootRulesRight, FlushAnchorRight, RemoveBootRulesRight,
     GiveBackRight, ForgetTokensRight
<1>4. CASE Wishes \/ GuardWatch \/ Starts \/ GuardDies \/ Reboots
  BY <1>4, WishesRight, GuardWatchRight, StartsRight, GuardDiesRight, RebootsRight
<1>5. CASE SystemLoads \/ OtherUses \/ OtherBreaks \/ UNCHANGED pfVars
  BY <1>5, SystemLoadsRight, OtherUsesRight, OtherBreaksRight, PfStutters
<1> QED BY <1>1, <1>2, <1>3, <1>4, <1>5 DEF PfNext

\* The invariant of the guard of macOS.
THEOREM PfAlways == PfSpec => []PfInv
BY PfInitInv, PfInvKept, PTL DEF PfSpec

\* It says what the types are.
LEMMA PfInvTyped == PfInv => PfTypeOK
<1> SUFFICES ASSUME PfInv PROVE PfTypeOK
  OBVIOUS
<1> DEFINE Names == {"read", "main", "load", "enable", "token", "check", "write",
                     "flush", "unlink", "release", "forget", "start"}
<1>1. ServiceLists \cup BootLists \subseteq Seq(Names)
  <2>1. ServiceLists \subseteq Seq(Names)
    BY DEF ServiceLists, Apply, ClearSteps
  <2>2. BootLists \subseteq Seq(Names)
    BY DEF BootLists, BootSteps
  <2> QED BY <2>1, <2>2
<1>2. steps \in [Procs -> Seq(Names)]
  BY <1>1 DEF PfInv, Listed
<1> QED BY <1>2 DEF PfInv, PfRest, PfTypeOK

\* The variables of PfGuard keep their types.
THEOREM PfTypeCorrect == PfSpec => []PfTypeOK
BY PfAlways, PfInvTyped, PTL

\* Whatever the service, the boot guard and other programs do in whatever order, and whatever fails: a
\* guard the service believes in is there and holds pf enabled, and one that was taken down left nothing
\* behind.
THEOREM PfAlwaysMatches == PfSpec => []PfMatches
<1>1. PfInv => PfMatches
  <2> SUFFICES ASSUME PfInv PROVE PfMatches
    OBVIOUS
  <2>1. PfRest /\ Listed /\ Orderly /\ HeldInv /\ ArmedInv /\ KnownInv
    BY DEF PfInv
  <2>2. (Idles <=> Line("service") = "idle") /\ (steps["boot"] = <<>> <=> Line("boot") = "idle")
    BY <2>1, LinesAre
  <2>3. GuardIsHeld
    BY <2>1, <2>2 DEF GuardIsHeld, HeldInv, ArmedInv, Kept, Ours, Evaluated, Enabled
  <2>4. NothingStaysBehind
    BY <2>1, <2>2 DEF NothingStaysBehind, KnownInv, Orderly, Procs, Other
  <2> QED BY <2>3, <2>4 DEF PfMatches
<1> QED BY <1>1, PfAlways, PTL

(***************************************************************************)
(* The computer as a whole (MCHost)                                        *)
(*                                                                         *)
(* Every step is a step of one part and leaves the others' variables       *)
(* alone, so each part's specification holds of the whole.                 *)
(***************************************************************************)
\* One of the components moves, and the others stay as they are.
LEMMA HostMoves ==
  [HostNext]_hostVars =>
    [SubNext]_subVars /\ [BootNext]_bootVars /\ [PfNext]_pfVars /\ [UpdNext]_updVars
<1> SUFFICES ASSUME [HostNext]_hostVars
             PROVE  [SubNext]_subVars /\ [BootNext]_bootVars /\ [PfNext]_pfVars /\ [UpdNext]_updVars
  OBVIOUS
<1>1. CASE UNCHANGED hostVars
  BY <1>1 DEF hostVars
<1>2. CASE HostNext
  BY <1>2 DEF HostNext
<1> QED BY <1>1, <1>2

\* What runs on a computer is each of the components.
LEMMA HostHasAll == HostSpec => SubSpec /\ BootSpec /\ PfSpec /\ UpdSpec
<1>1. HostInit => SubInit /\ BootInit /\ PfInit /\ UpdInit
  BY DEF HostInit
<1> QED BY <1>1, HostMoves, PTL DEF HostSpec, SubSpec, BootSpec, PfSpec, UpdSpec

\* The variables of every component keep their types on a computer that runs them all.
THEOREM HostTypeCorrect == HostSpec => []HostTypeOK
<1>1. SubTypeOK /\ BootTypeOK /\ PfTypeOK /\ UpdTypeOK => HostTypeOK
  BY DEF HostTypeOK
<1> QED BY <1>1, HostHasAll, SubTypeCorrect, BootTypeCorrect, PfTypeCorrect,
           UpdTypeCorrect, PTL

\* What the components promise, they promise on a computer that runs them all: the core is what it is taken
\* for, a boot is quiet, a guard that is believed in is there, and an update is genuine.
THEOREM HostAlwaysRight ==
  HostSpec => [](/\ RunningIsHonest /\ SelectedIsInForce /\ WaitersAreAnswered
                 /\ BootIsQuiet /\ ClearedStaysCleared /\ PfMatches
                 /\ UpdatesAreGenuine /\ NotLeftDown)
BY HostHasAll, RunningAlwaysHonest, SelectedAlwaysInForce, WaitersAlwaysAnswered,
   BootAlwaysQuiet,
   ClearedAlwaysStaysCleared, PfAlwaysMatches, UpdatesAlwaysGenuine, NeverLeftDown, PTL
=============================================================================

------------------------------ MODULE Versions ------------------------------
(***************************************************************************)
(* Which of two versions is the newer (internal/update/update.go, parse,   *)
(* cmpSuffix, splitRuns, Newer).  "1.2.3-a10" is three numbers and a       *)
(* suffix; the suffix is cut into runs of digits and runs of other         *)
(* characters, so that a9 comes before a10; no suffix comes after every    *)
(* suffix.                                                                 *)
(*                                                                         *)
(* A run is a pair <<class, value>>: digits are of class 1 and have their  *)
(* number as value; other runs are of class 0 when they begin with a sign  *)
(* that sorts before the digits ('.', '-') and of class 2 otherwise, with  *)
(* their place in the dictionary as value.  The order of two runs, by      *)
(* number when both are digits and by text otherwise, is then the order of *)
(* the pairs.  A run of digits too long for an int, which the code         *)
(* compares as text, has no counterpart here.                              *)
(***************************************************************************)
EXTENDS Integers, Sequences

Run == (0 .. 2) \X Nat
Version == [numbers : [1 .. 3 -> Nat], suffix : Seq(Run)]

\* What does not have three numbers; parse refuses it.
Unparsed == [numbers |-> <<>>, suffix |-> <<>>]

RunBefore(p, q) == p[1] < q[1] \/ (p[1] = q[1] /\ p[2] < q[2])

\* a comes before b at place k, up to which they agree.
FirstDiffers(a, b, k) ==
  /\ \A j \in 1 .. (k - 1) : j <= Len(a) /\ a[j] = b[j]
  /\ k = Len(a) + 1 \/ (k <= Len(a) /\ RunBefore(a[k], b[k]))

SuffixBefore(a, b) ==
  a # <<>> /\ (b = <<>> \/ \E k \in 1 .. Len(b) : FirstDiffers(a, b, k))

Lower(x, y, i) == (\A j \in 1 .. (i - 1) : x[j] = y[j]) /\ x[i] < y[i]

\* Is a newer than b?
Newer(a, b) ==
  /\ a # Unparsed /\ b # Unparsed
  /\ IF a.numbers = b.numbers THEN SuffixBefore(b.suffix, a.suffix)
     ELSE \E i \in 1 .. 3 : Lower(b.numbers, a.numbers, i)
=============================================================================

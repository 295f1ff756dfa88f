--------------------------- MODULE MCConnMachine ---------------------------
(* Model values and bounds for ConnMachine.                                *)
EXTENDS ConnMachine, TLC

(* Callers are interchangeable, and so are run identities.                 *)
Symmetric == Permutations(Callers) \cup Permutations(Runs)
=============================================================================

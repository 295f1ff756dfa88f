---------------------------- MODULE MCGuardSync ----------------------------
(* Instances of GuardSync for TLC *)
EXTENDS GuardSync, TLC

CONSTANTS h1, h2
BothHandlers == {h1, h2}
Symmetric == Permutations(BothHandlers)
=============================================================================

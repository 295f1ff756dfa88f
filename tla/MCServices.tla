----------------------------- MODULE MCServices -----------------------------
(***************************************************************************)
(* Small components of the service that do not touch each other's state,   *)
(* checked in one run: part says which of them a behaviour is about, and   *)
(* the others stay as they start.  The states are the union of theirs, not *)
(* the product.  The first two enable none of their fair actions while     *)
(* they rest, so their fairness can be assumed throughout; ExitLookup      *)
(* would start by itself, so its fairness is that of its own behaviours.   *)
(***************************************************************************)
EXTENDS SessionWatch, DirectHold, ExitLookup

VARIABLE part

servicesVars == <<sessionVars, directVars, exitVars, part>>

SessionAtRest == ~needed
DirectAtRest == ~wish /\ spec = "none" /\ ~on
ExitAtRest == ~hidden /\ chosen = AutoGroup /\ rest = CHOOSE b \in ExitBounds : TRUE

MCExitBounds ==
  {[requests |-> 1, surprises |-> 0, stops |-> 0, failures |-> 1],
   [requests |-> 0, surprises |-> 1, stops |-> 1, failures |-> 1]}

ServicesInit ==
  /\ part \in {"session", "direct", "exit"}
  /\ SessionInit /\ (part # "session" => SessionAtRest)
  /\ DirectInit /\ (part # "direct" => DirectAtRest)
  /\ ExitInit /\ (part # "exit" => ExitAtRest)

ServicesNext ==
  /\ \/ part = "session" /\ SessionNext /\ UNCHANGED <<directVars, exitVars>>
     \/ part = "direct" /\ DirectNext /\ UNCHANGED <<sessionVars, exitVars>>
     \/ part = "exit" /\ ExitNext /\ UNCHANGED <<sessionVars, directVars>>
  /\ UNCHANGED part

\* ExitFairness, of the behaviours that are about it
ExitGoesOn ==
  /\ \A l \in Slots : WF_exitVars(part = "exit" /\ LookupSteps(l))
  /\ WF_exitVars(part = "exit" /\ WatchSteps)
  /\ WF_exitVars(part = "exit" /\ RequestSteps)
  /\ WF_exitVars(part = "exit" /\ Ages)

ServicesSpec ==
  /\ ServicesInit /\ [][ServicesNext]_servicesVars
  /\ SessionFairness /\ DirectFairness /\ ExitGoesOn

\* What goes on in the background comes to an end: a warm-up of the session, whether it
\* succeeds or not, the arming of a guard, even when its installation fails, and the
\* search for the exit, though lookups fail and the automatic group moves.
BackgroundEnds == WarmingEnds /\ ArmingEnds /\ ExitSettles

\* The variables of every component keep their types.
ServicesTypeOK == SessionTypeOK /\ DirectTypeOK /\ ExitTypeOK
=============================================================================

----------------------------- MODULE MCNicIPv6 -----------------------------
(***************************************************************************)
(* Two kinds of behaviour for the safety run.  "service": the goroutines   *)
(* and the tool, with one failure and one adapter coming or going.         *)
(* "scripts": the two scripts alone, run by any process at any time, with  *)
(* as many failures as it takes to damage a row, lose its copy and then    *)
(* die.  The liveness run has the service alone.                           *)
(***************************************************************************)
EXTENDS NicIPv6

VARIABLE part

serviceVars == <<cfgVars, wishVars, recordVars, pc, ret, callVars, owed, disturbed>>

AtRest == disk = "no" /\ file = Default /\ plugs = MaxPlugs /\ faults = MaxFaults

MCInit ==
    /\ part \in {"service", "scripts"}
    /\ Init
    /\ IF part = "service" THEN faults <= 1 /\ plugs <= 1 ELSE AtRest

MCNext ==
    /\ \/ part = "service" /\ Next
       \/ part = "scripts" /\ NicNext /\ UNCHANGED serviceVars
    /\ UNCHANGED part

MCSpec == MCInit /\ [][MCNext]_<<vars, part>>

\* For liveness, the service alone, on adapters that the user has IPv6 on for: the
\* others never show an address.
LiveInit == Init /\ part = "service" /\ orig = [n \in Nic |-> TRUE]
LiveSpec == LiveInit /\ [][Next /\ UNCHANGED part]_<<vars, part>> /\ Fairness
=============================================================================

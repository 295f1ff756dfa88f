------------------------------- MODULE MCHost -------------------------------
(***************************************************************************)
(* What the service keeps on the computer it runs on, checked in one run:  *)
(* the subscriptions and the configuration made of them, the protection of *)
(* a Linux computer while it boots, the guard of macOS, the update of the  *)
(* program.  They share no state; one of them moves in a behaviour, and    *)
(* the others stay as they begin.                                          *)
(***************************************************************************)
EXTENDS Subscriptions, LinuxBoot, PfGuard, Update

VARIABLE part

hostVars == <<part, subVars, bootVars, pfVars, updVars>>

MCSubBounds ==
  {[requests |-> 1, changes |-> 1, stale |-> 0, setbacks |-> 0],
   [requests |-> 1, changes |-> 0, stale |-> 1, setbacks |-> 0],
   [requests |-> 0, changes |-> 1, stale |-> 1, setbacks |-> 1],
   [requests |-> 1, changes |-> 0, stale |-> 0, setbacks |-> 2]}

MCBootBounds ==
  {[boots |-> 1, requests |-> 2, faults |-> 2, drifts |-> 0],
   [boots |-> 1, requests |-> 2, faults |-> 1, drifts |-> 1],
   [boots |-> 2, requests |-> 1, faults |-> 1, drifts |-> 0]}

MCPfBounds ==
  {[boots |-> 1, requests |-> 2, strangers |-> 1, faults |-> 1],
   [boots |-> 1, requests |-> 2, strangers |-> 2, faults |-> 0]}

MCUpdBounds ==
  {[uploads |-> 2, checks |-> 2, updates |-> 2, faults |-> 0, ends |-> 1, unknowns |-> 0],
   [uploads |-> 2, checks |-> 2, updates |-> 1, faults |-> 1, ends |-> 0, unknowns |-> 0],
   [uploads |-> 4, checks |-> 1, updates |-> 1, faults |-> 1, ends |-> 0, unknowns |-> 1]}

\* 1.0.0-a9, of which 1.0.0-a10 is an update and 0.9.9 is not.
MCFirst == [numbers |-> <<1, 0, 0>>, suffix |-> <<<<2, 1>>, <<1, 9>>>>]
MCVersions ==
  {[numbers |-> <<1, 0, 0>>, suffix |-> <<<<2, 1>>, <<1, 10>>>>],
   [numbers |-> <<0, 9, 9>>, suffix |-> <<>>]}

SubAtRest == active = None /\ selected = "auto" /\ budget = CHOOSE b \in Bounds : TRUE
BootAtRest ==
  /\ kind = "systemd" /\ nft /\ unit /\ guardMode = "off" /\ ~nicSetting /\ wish = "no" /\ ~addr
  /\ left = CHOOSE b \in BootBounds : TRUE
PfAtRest == remaining = CHOOSE b \in PfBounds : TRUE
UpdAtRest == manager = "systemd" /\ releases = <<>> /\ chances = CHOOSE b \in UpdBounds : TRUE

HostInit ==
  /\ part \in {"subscriptions", "boot", "pf", "update"}
  /\ SubInit /\ (part # "subscriptions" => SubAtRest)
  /\ BootInit /\ (part # "boot" => BootAtRest)
  /\ PfInit /\ (part # "pf" => PfAtRest)
  /\ UpdInit /\ (part # "update" => UpdAtRest)

HostNext ==
  /\ \/ part = "subscriptions" /\ SubNext /\ UNCHANGED <<bootVars, pfVars, updVars>>
     \/ part = "boot" /\ BootNext /\ UNCHANGED <<subVars, pfVars, updVars>>
     \/ part = "pf" /\ PfNext /\ UNCHANGED <<subVars, bootVars, updVars>>
     \/ part = "update" /\ UpdNext /\ UNCHANGED <<subVars, bootVars, pfVars>>
  /\ UNCHANGED part

HostSpec == HostInit /\ [][HostNext]_hostVars

\* The variables of every component keep their types.
HostTypeOK == SubTypeOK /\ BootTypeOK /\ PfTypeOK /\ UpdTypeOK
=============================================================================

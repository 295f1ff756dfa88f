---------------------------- MODULE ConnPromise ----------------------------
(***************************************************************************)
(* What the connection state machine (internal/state/machine.go) promises  *)
(* to the daemon about the data plane, without saying how: nothing here    *)
(* mentions goroutines, contexts or locks.                                 *)
(*                                                                         *)
(*   - the data plane is one thing, started and stopped by one actor at a  *)
(*     time: a Start never meets a plane that is up or being stopped, and  *)
(*     a Stop never meets a Start in flight;                               *)
(*   - it is touched only while the machine is engaged, and the machine    *)
(*     engages only for a user who wants to be connected and a service     *)
(*     that is not shutting down;                                          *)
(*   - it disengages only by finishing a Stop.                             *)
(***************************************************************************)

VARIABLES
  wanted,    \* the user wants to be connected
  closed,    \* the service is shutting down for good
  engaged,   \* the machine owns the data plane
  plane      \* "down", "starting", "up" or "stopping"

promiseVars == <<wanted, closed, engaged, plane>>

PlaneState == {"down", "starting", "up", "stopping"}

Init ==
  /\ wanted = FALSE
  /\ closed = FALSE
  /\ engaged = FALSE
  /\ plane = "down"

(* The user connects. A service that is shutting down ignores it.          *)
Connect ==
  /\ ~closed
  /\ wanted' = TRUE
  /\ engaged' = TRUE
  /\ UNCHANGED <<closed, plane>>

(* The user disconnects: the plane is stopped later, by other steps.       *)
Withdraw ==
  /\ wanted' = FALSE
  /\ UNCHANGED <<closed, engaged, plane>>

(* The service shuts down: the user's intent is not touched.               *)
Close ==
  /\ closed' = TRUE
  /\ UNCHANGED <<wanted, engaged, plane>>

BeginStart ==
  /\ plane = "down"
  /\ engaged \/ (wanted /\ ~closed)
  /\ plane' = "starting"
  /\ engaged' = TRUE
  /\ UNCHANGED <<wanted, closed>>

(* A failed start leaves the plane down, or goes straight to the Stop that *)
(* cleans up after it.                                                     *)
EndStart ==
  /\ plane = "starting"
  /\ plane' \in {"up", "down", "stopping"}
  /\ UNCHANGED <<wanted, closed, engaged>>

BeginStop ==
  /\ engaged
  /\ plane \in {"down", "up"}
  /\ plane' = "stopping"
  /\ UNCHANGED <<wanted, closed, engaged>>

EndStop ==
  /\ plane = "stopping"
  /\ plane' = "down"
  /\ engaged' \in {engaged, FALSE}
  /\ UNCHANGED <<wanted, closed>>

Next ==
  \/ Connect \/ Withdraw \/ Close
  \/ BeginStart \/ EndStart \/ BeginStop \/ EndStop

Spec == Init /\ [][Next]_promiseVars
=============================================================================

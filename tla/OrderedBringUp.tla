--------------------------- MODULE OrderedBringUp ---------------------------
(***************************************************************************)
(* What bringing up a network service promises: a VDU is booted only after *)
(* every VDU it depends on is configured, and the service is ACTIVE only   *)
(* when all of them are. How the plugin and the manager get there is in    *)
(* NSOrchestration, which is shown to implement this module.               *)
(***************************************************************************)
CONSTANTS Vdu, Deps

VARIABLES
  stage,   \* how far each VDU is
  state    \* the state of the service

vars == <<stage, state>>

Configured == {v \in Vdu : stage[v] = "configured"}

Init ==
  /\ stage = [v \in Vdu |-> "absent"]
  /\ state = "PENDING"

Boot(v) ==
  /\ stage[v] = "absent" /\ Deps[v] \subseteq Configured
  /\ stage' = [stage EXCEPT ![v] = "booted"]
  /\ UNCHANGED state

Configure(v) ==
  /\ stage[v] = "booted"
  /\ stage' = [stage EXCEPT ![v] = "configured"]
  /\ UNCHANGED state

(* A failure of a machine or of a configuration may be reported at any     *)
(* time, also of a service that is ACTIVE.                                 *)
Fail ==
  /\ state' = "ERROR"
  /\ UNCHANGED stage

(* A service that reported a failure may still become ACTIVE.              *)
Activate ==
  /\ state # "ACTIVE" /\ Configured = Vdu
  /\ state' = "ACTIVE"
  /\ UNCHANGED stage

Next == (\E v \in Vdu : Boot(v) \/ Configure(v)) \/ Fail \/ Activate

Spec == Init /\ [][Next]_vars
=============================================================================

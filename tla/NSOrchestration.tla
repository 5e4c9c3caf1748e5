-------------------------- MODULE NSOrchestration ---------------------------
(***************************************************************************)
(* A network service being brought up: the plugin (Deployment) and the     *)
(* vnf-manager (VNFManager), interleaving over the casts and the           *)
(* acknowledgements of NetworkService.                                     *)
(***************************************************************************)
EXTENDS Deployment, VNFManager

vars == <<netVars, deployVars, mgrVars>>

Init == NetInit /\ DeployInit /\ MgrInit

Next ==
  \/ DeployNext /\ UNCHANGED mgrVars
  \/ MgrNext /\ UNCHANGED deployVars

Spec == Init /\ [][Next]_vars

(* The green thread and the handlers run whenever they can: the server and *)
(* the manager schedule cooperatively and every loop yields. nova and the  *)
(* drivers answer, one way or the other. Faults are never owed.            *)
Fairness ==
  /\ WF_vars(DeployStep /\ UNCHANGED mgrVars)
  /\ WF_vars(BootEnd /\ UNCHANGED mgrVars)
  /\ \A u \in Unit, s \in {"COMPLETE", "ERROR"} :
       WF_vars(SendAck(AckOf(u, s)) /\ UNCHANGED mgrVars)
  /\ WF_vars((MgrStart \/ MgrConstructed \/ MgrListen) /\ UNCHANGED deployVars)
  /\ WF_vars((\E m \in toMgr : Receive(m)) /\ UNCHANGED deployVars)
  /\ \A u \in Unit : WF_vars(Work(u) /\ UNCHANGED deployVars)

FairSpec == Spec /\ Fairness

-----------------------------------------------------------------------------
(* Safety *)

(* Every variable keeps its type.                                          *)
TypeOK == NetTypeOK /\ DeployTypeOK /\ MgrTypeOK

(* A VDU all of whose instances carry their initial configuration.         *)
InitDone(v) == UnitsOf("init", v) \subseteq done

(* End to end: the plugin has a VDU's machines created (_launch_vnfds)     *)
(* only after the drivers have configured every instance of every VDU it   *)
(* depends on. It rests on the guard of _resolve_dependency, on what       *)
(* build_acknowledge_list counts and on the manager's reports being true.  *)
DependencyOrder ==
  \A v \in Vdu : vm[v] # "none" =>
    \A d \in Deps[v] : d \in Vdu /\ InitDone(d)

(* deploy_vnfs writes ACTIVE only when every instance of every VDU really  *)
(* carries its initial configuration.                                      *)
ActiveMeansInitDone ==
  status = "ACTIVE" => \A v \in Vdu : InitDone(v)

(* An initial configuration that failed keeps the service from ever        *)
(* becoming ACTIVE, though PostDone writes the status unconditionally.     *)
InitErrorKeepsInactive ==
  (\E v \in Vdu : v \in errored) => status # "ACTIVE"

(* The loop of _resolve_dependency compares the length of 'configured' to  *)
(* the number of VDUs: it must never list a VDU twice.                     *)
ConfiguredOnce ==
  \A i, j \in DOMAIN configured : configured[i] = configured[j] => i = j

(* A machine is post-configured only after at least one instance of each   *)
(* VDU it depends on was, where that VDU has anything to post-configure.   *)
PostConfigureOrder ==
  \A u \in todo \cup {t \in Unit : threads[t] = "running"} :
    u[1] = "config" =>
      \A d \in Deps[VduOf[u[2]]] :
        \/ ~PostDriven(d)
        \/ \E w \in UnitsOf("config", d) : w \in done

(* An instance is initialised before it is post-configured.                *)
InitBeforeConfig ==
  \A i \in Inst : <<"config", i>> \in done => <<"init", i>> \in done

-----------------------------------------------------------------------------
(* Liveness *)

(* With no cast dropped and both processes staying up, deploy_vnfs ends:   *)
(* none of its waits, which have no timeout, waits for ever.               *)
DeploymentEnds ==
  [](~lostCasts /\ pc # "lost" /\ mgrProc # "dead")
    => <>(pc \in {"done", "failed"})

(* A driver that fails is reported: while both processes stay up, the      *)
(* service is eventually seen in ERROR, even if deploy_vnfs is over.       *)
FailureReported ==
  [](pc # "lost" /\ mgrProc # "dead") =>
    \A u \in Unit : threads[u] = "ERROR" ~> status = "ERROR"

-----------------------------------------------------------------------------
(* The promise of OrderedBringUp *)

stageOf == [v \in Vdu |->
  IF vm[v] = "none" THEN "absent"
  ELSE IF InitDone(v) THEN "configured" ELSE "booted"]

BringUp == INSTANCE OrderedBringUp WITH stage <- stageOf, state <- status

(* Every step of the plugin and the manager is a step of OrderedBringUp.   *)
Implements == BringUp!Spec
=============================================================================

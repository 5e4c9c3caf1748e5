------------------------- MODULE NSOrchestrationInv -------------------------
(***************************************************************************)
(* The inductive invariant behind the safety properties of                 *)
(* NSOrchestration: where the work of an instance can be, that it is at    *)
(* one place at a time, and what the plugin may conclude from its lists.   *)
(***************************************************************************)
EXTENDS NSOrchestration

InitUnit(i) == <<"init", i>>

Recorded(i) == i \in Range(ackList[VduOf[i]])

InFlight(u) == \E m \in toPlugin : m.unit = u

(* The manager and the network only know of VDUs that are deployed, and    *)
(* deployed VDUs have machines.                                            *)
KnownDeployed ==
  /\ \A v \in deployed : vm[v] # "none"
  /\ bootConf \subseteq deployed
  /\ \A m \in toMgr : m.event = "init" => m.vdus \subseteq deployed
  /\ drvConf \subseteq deployed

(* Only the plugin starts the manager, and before the manager has read its *)
(* configuration it has done nothing.                                      *)
ManagerFresh ==
  /\ ~mgrInvoked /\ pc \notin {"failed", "lost"} => mgrProc = "none"
  /\ mgrProc \in {"none", "starting"} => drvConf = {} /\ complete = {}

(* There is no work anywhere for a VDU the manager does not know.          *)
UnknownIdle ==
  /\ \A u \in Unit : VduOf[u[2]] \notin drvConf =>
       u \notin todo /\ threads[u] = "none" /\ ~InFlight(u) /\ u \notin done
  /\ \A i \in Inst : VduOf[i] \notin drvConf => ~Recorded(i) /\ i \notin complete

(* The initial configuration of an instance is in one place: still to do,  *)
(* in a thread, in an acknowledgement, or recorded.                        *)
OnePlace ==
  \A i \in Inst :
    /\ InitUnit(i) \in todo =>
         threads[InitUnit(i)] = "none" /\ ~InFlight(InitUnit(i)) /\ ~Recorded(i)
    /\ threads[InitUnit(i)] # "none" => ~InFlight(InitUnit(i)) /\ ~Recorded(i)
    /\ InFlight(InitUnit(i)) => ~Recorded(i)

(* There is at most one acknowledgement of it.                             *)
OneAck ==
  \A m, n \in toPlugin : m.unit = n.unit /\ m.unit[1] = "init" => m = n

(* Results and acknowledgements say what is so.                            *)
Truthful ==
  /\ \A u \in Unit : threads[u] = "COMPLETE" => u \in done
  /\ \A m \in toPlugin : m.status = "COMPLETE" => m.unit \in done
  /\ \A i \in Inst : Recorded(i) => InitUnit(i) \in done

(* A VDU's list holds its own instances, each of them once.                *)
AckListSound ==
  \A v \in Vdu :
    /\ Range(ackList[v]) \subseteq InstOf(v)
    /\ Cardinality(Range(ackList[v])) = Len(ackList[v])

(* 'configured' lists VDUs all of whose instances are recorded, each once. *)
ConfiguredSound ==
  /\ \A v \in Range(configured) : InstOf(v) \subseteq Range(ackList[v])
  /\ Cardinality(Range(configured)) = Len(configured)

(* A VDU in 'errored' has an instance whose work is over and unrecorded.   *)
ErroredSpent ==
  \A v \in errored : \E i \in InstOf(v) :
    /\ v \in drvConf
    /\ InitUnit(i) \notin todo
    /\ threads[InitUnit(i)] = "none"
    /\ ~InFlight(InitUnit(i))
    /\ ~Recorded(i)

(* Machines exist, or are about to, only after what they depend on.        *)
LaunchOrder ==
  \A v \in Vdu : v \in batch \/ vm[v] # "none" =>
    Deps[v] \subseteq Range(configured)

(* deploy_vnfs gets past its loop only when all VDUs are configured.       *)
PastLoop ==
  pc \in {"details", "post", "waitPost", "done"} \/ status = "ACTIVE" =>
    Vdu \subseteq Range(configured)

(* A VDU whose post-configuration others wait for has begun to carry it,   *)
(* or has none.                                                            *)
Served(v) == ~PostDriven(v) \/ \E w \in UnitsOf("config", v) : w \in done

(* A VDU may be post-configured: it is initialised, and what it depends on *)
(* is served.                                                              *)
MayConfigure(v) == InitDone(v) /\ \A d \in Deps[v] : Served(d)

(* Post-configurations that are asked for, on their way or under way are   *)
(* of VDUs that may be; the keys ns_postConfigure goes by are true.        *)
PostInv ==
  /\ \A v \in cfgAck : Served(v)
  /\ \A v \in postQueue : Deps[v] \subseteq cfgAck
  /\ \A m \in toMgr : m.event = "config" => \A v \in m.vdus : MayConfigure(v)
  /\ \A u \in Unit : u[1] = "config" /\ (u \in todo \/ threads[u] = "running") =>
       MayConfigure(VduOf[u[2]])
  /\ InitBeforeConfig

(* What is known of the work of the instances and of its record,           *)
WorkInv ==
  /\ UnknownIdle /\ OnePlace /\ OneAck /\ Truthful
  /\ AckListSound /\ ConfiguredSound /\ ErroredSpent

(* of the plugin's progress and what it has told the manager; and all of   *)
(* it, with the post-configurations.                                       *)
PlanInv == KnownDeployed /\ ManagerFresh /\ LaunchOrder /\ PastLoop

IInv == TypeOK /\ WorkInv /\ PlanInv /\ PostInv

(* VDUs that wait for one another are never booted, and a service that has *)
(* such VDUs never becomes ACTIVE: create_dependency_dict accepts a cycle, *)
(* and _resolve_dependency then goes round its loop without end.           *)
CycleNeverBoots ==
  \A S \in SUBSET Vdu :
    (S # {} /\ \A v \in S : Deps[v] \cap S # {})
      => (\A v \in S : vm[v] = "none") /\ status # "ACTIVE"
=============================================================================

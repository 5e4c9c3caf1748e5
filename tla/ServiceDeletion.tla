--------------------------- MODULE ServiceDeletion ---------------------------
(***************************************************************************)
(* Deleting network services, several at a time, while others are still    *)
(* being brought up. All deletions read what they delete from one module   *)
(* global, service_db_dict, which every delete request fills anew.         *)
(*                                                                         *)
(* Green threads give way in calls to nova, neutron and ansible; the       *)
(* database driver (MySQLdb) blocks, so what lies between is one step. Of  *)
(* a deployment only the steps are here that a deletion can get between:   *)
(* the rest of it is Deployment.                                           *)
(***************************************************************************)
EXTENDS Naturals, Sequences, FiniteSets, Functions

CONSTANTS
  Service,   \* the network services
  Vdu,       \* their VDUs
  Machine,   \* the machines of the VDUs
  Vdus,      \* Vdus[s]: the VDUs of a service, in the order of its row
  VduOf,     \* the VDU of each machine
  Remote,    \* the services whose manager ansible runs on another host
  Request,   \* the delete requests that may be made
  Faults     \* "boot": a machine ends in ERROR; "api": a call raises

ASSUME DeletionAssumption ==
  /\ Vdus \in [Service -> Seq(Vdu)] /\ \A s \in Service : IsInjective(Vdus[s])
  /\ \A s, t \in Service : Range(Vdus[s]) \cap Range(Vdus[t]) # {} => s = t
  /\ VduOf \in [Machine -> Vdu]
  /\ Remote \subseteq Service
  /\ Faults \subseteq {"boot", "api"}

MachinesOf(v) == {m \in Machine : VduOf[m] = v}
SvcOf(v) == {s \in Service : v \in Range(Vdus[s])}
MachinesIn(s) == {m \in Machine : VduOf[m] \in Range(Vdus[s])}

VARIABLES
  row,       \* the status column of each service's row; "none": no row
  recorded,  \* the machines listed in the instances columns
  up,        \* the machines nova has
  mgr,       \* the services whose vnf-manager runs
  deploy,    \* where deploy_vnfs of each service is
  booted,    \* the VDUs deploy_vnfs has created machines for
  invoked,   \* the services whose manager deploy_vnfs has started
  dict,      \* service_db_dict: a service's row, with the host of its
             \* manager if it is remote and known, and its VDUs' rows
  pc,        \* where each delete request is
  target,    \* the service it is to delete
  idx, last, \* the loop of delete_vdus over the VDUs
  todo       \* the rest of its loop over the machines of one VDU

dbVars == <<row, recorded>>
deployVars == <<deploy, booted, invoked>>
loopVars == <<idx, last, todo>>
vars == <<row, recorded, up, mgr, deploy, booted, invoked, dict, pc, target,
          idx, last, todo>>

VduRow == [vdu : Vdu, machines : SUBSET Machine]

(* Rows, machines, managers and each deletion's place keep their types.    *)
TypeOK ==
  /\ row \in [Service -> {"none", "PENDING", "ACTIVE", "ERROR", "DELETING"}]
  /\ recorded \subseteq Machine /\ up \subseteq Machine
  /\ mgr \subseteq Service
  /\ deploy \in [Service -> {"none", "booting", "creating", "over"}]
  /\ booted \subseteq Vdu /\ invoked \subseteq Service
  /\ dict \in [svc : SUBSET Service, host : SUBSET Service, vdus : Seq(VduRow)]
  /\ pc \in [Request -> {"idle", "absent", "puppet", "spawned", "listing",
                         "vdus", "network", "rows", "over", "failed"}]
  /\ target \in [Request -> Service]
  /\ idx \in [Request -> Nat] /\ last \in [Request -> Nat]
  /\ todo \in [Request -> SUBSET Machine]

Init ==
  /\ row = [s \in Service |-> "none"]
  /\ recorded = {} /\ up = {} /\ mgr = {}
  /\ deploy = [s \in Service |-> "none"] /\ booted = {} /\ invoked = {}
  /\ dict = [svc |-> {}, host |-> {}, vdus |-> << >>]
  /\ pc = [r \in Request |-> "idle"]
  /\ target \in [Request -> Service]
  /\ idx = [r \in Request |-> 0] /\ last = [r \in Request |-> 0]
  /\ todo = [r \in Request |-> {}]

Goto(r, l) == pc' = [pc EXCEPT ![r] = l]

-----------------------------------------------------------------------------
(* Bringing up *)

CreateService(s) ==
  /\ deploy[s] = "none"
  /\ row' = [row EXCEPT ![s] = "PENDING"]
  /\ deploy' = [deploy EXCEPT ![s] = "booting"]
  /\ UNCHANGED <<recorded, up, mgr, booted, invoked, dict, pc, target, loopVars>>

(* update_vdu_details raises when the VDU's row is gone; otherwise nova    *)
(* creates the machines.                                                   *)
CreateServers(s, v) ==
  /\ deploy[s] = "booting" /\ v \in Range(Vdus[s]) \ booted
  /\ IF row[s] = "none"
     THEN deploy' = [deploy EXCEPT ![s] = "over"] /\ UNCHANGED <<up, booted>>
     ELSE /\ up' = up \cup MachinesOf(v)
          /\ booted' = booted \cup {v}
          /\ deploy' = [deploy EXCEPT ![s] = "creating"]
  /\ UNCHANGED <<dbVars, mgr, invoked, dict, pc, target, loopVars>>

(* update_vdu_instance_details: likewise. Then the thread waits for nova.  *)
RecordInstances(s) ==
  /\ deploy[s] = "creating"
  /\ IF row[s] = "none"
     THEN deploy' = [deploy EXCEPT ![s] = "over"] /\ UNCHANGED recorded
     ELSE /\ recorded' = recorded \cup
               UNION {MachinesOf(v) : v \in Range(Vdus[s]) \cap booted}
          /\ deploy' = [deploy EXCEPT ![s] = "booting"]
  /\ UNCHANGED <<row, up, mgr, booted, invoked, dict, pc, target, loopVars>>

(* With the first VDUs up the manager is started; update_ns_vnfm_host then *)
(* raises when the row is gone.                                            *)
InvokeManager(s) ==
  /\ deploy[s] = "booting" /\ s \notin invoked
  /\ Range(Vdus[s]) \cap booted # {}
  /\ mgr' = mgr \cup {s} /\ invoked' = invoked \cup {s}
  /\ deploy' = IF row[s] = "none" THEN [deploy EXCEPT ![s] = "over"] ELSE deploy
  /\ UNCHANGED <<dbVars, up, booted, dict, pc, target, loopVars>>

(* A machine of the service ends up in ERROR.                              *)
InstanceError(s) ==
  /\ "boot" \in Faults
  /\ deploy[s] = "booting" /\ Range(Vdus[s]) \cap booted # {}
  /\ deploy' = [deploy EXCEPT ![s] = "over"]
  /\ row' = IF row[s] = "none" THEN row ELSE [row EXCEPT ![s] = "ERROR"]
  /\ UNCHANGED <<recorded, up, mgr, booted, invoked, dict, pc, target, loopVars>>

(* A call to OpenStack raises, perhaps with machines yet to be recorded.    *)
ApiFailure(s) ==
  /\ "api" \in Faults
  /\ deploy[s] \in {"booting", "creating"}
  /\ deploy' = [deploy EXCEPT ![s] = "over"]
  /\ UNCHANGED <<dbVars, up, mgr, booted, invoked, dict, pc, target, loopVars>>

(* The status becomes ACTIVE whatever it was, unless the row is gone.      *)
DeployDone(s) ==
  /\ deploy[s] = "booting" /\ s \in invoked /\ Range(Vdus[s]) \subseteq booted
  /\ deploy' = [deploy EXCEPT ![s] = "over"]
  /\ row' = IF row[s] = "none" THEN row ELSE [row EXCEPT ![s] = "ACTIVE"]
  /\ UNCHANGED <<recorded, up, mgr, booted, invoked, dict, pc, target, loopVars>>

-----------------------------------------------------------------------------
(* Deleting *)

(* delete_service_model fills the global. Without a row it leaves it half  *)
(* filled and the request ends there.                                      *)
DeleteService(r) ==
  LET s == target[r]
      rowOf(v) == [vdu |-> v, machines |-> recorded \cap MachinesOf(v)]
  IN /\ pc[r] = "idle"
     /\ \/ /\ row[s] = "none"
           /\ dict' = [svc |-> {}, host |-> {}, vdus |-> dict.vdus]
           /\ Goto(r, "absent")
        \/ /\ row[s] # "none"
           /\ dict' = [svc |-> {s}, host |-> {s} \cap invoked \cap Remote,
                       vdus |-> [i \in DOMAIN Vdus[s] |-> rowOf(Vdus[s][i])]]
           /\ Goto(r, "puppet")
     /\ UNCHANGED <<dbVars, up, mgr, deployVars, target, loopVars>>

(* After the call that deletes the puppet master: set the status, if the   *)
(* row is still there, and spawn delete_vnfs.                              *)
MarkDeleting(r) ==
  /\ pc[r] = "puppet"
  /\ row' = IF row[target[r]] = "none" THEN row ELSE [row EXCEPT ![target[r]] = "DELETING"]
  /\ Goto(r, "spawned")
  /\ UNCHANGED <<recorded, up, mgr, deployVars, dict, target, loopVars>>

(* Mutant: every manager of the host is stopped.                           *)
DeleteVnfmAll(r) ==
  /\ pc[r] = "spawned" /\ Goto(r, "listing")
  /\ mgr' = IF dict.host = {} THEN mgr ELSE {}
  /\ UNCHANGED <<dbVars, up, deployVars, dict, target, loopVars>>

(* delete_vtap_and_vnfm, for the service the global names now. On the      *)
(* local host "kill" is given the text of a shell command, not a process,  *)
(* and the manager stays. Whatever goes wrong is ignored.                  *)
DeleteVnfm(r) ==
  /\ pc[r] = "spawned" /\ Goto(r, "listing")
  /\ mgr' = mgr \ dict.host
  /\ UNCHANGED <<dbVars, up, deployVars, dict, target, loopVars>>

(* Mutant: one VDU too many is counted.                                    *)
ListVdusOneMore(r) ==
  /\ pc[r] = "listing" /\ Goto(r, "vdus")
  /\ idx' = [idx EXCEPT ![r] = 0]
  /\ last' = [last EXCEPT ![r] = Len(dict.vdus) + 1]
  /\ UNCHANGED <<dbVars, up, mgr, deployVars, dict, target, todo>>

(* delete_vdus: the number of VDUs is taken once,                          *)
ListVdus(r) ==
  /\ pc[r] = "listing" /\ Goto(r, "vdus")
  /\ idx' = [idx EXCEPT ![r] = 0]
  /\ last' = [last EXCEPT ![r] = Len(dict.vdus)]
  /\ UNCHANGED <<dbVars, up, mgr, deployVars, dict, target, todo>>

(* the VDUs are looked up in the global one by one, and                    *)
NextVdu(r) ==
  /\ pc[r] = "vdus" /\ todo[r] = {} /\ idx[r] < last[r]
  /\ IF idx[r] < Len(dict.vdus)
     THEN /\ idx' = [idx EXCEPT ![r] = @ + 1]
          /\ todo' = [todo EXCEPT ![r] = dict.vdus[idx[r] + 1].machines]
          /\ UNCHANGED pc
     ELSE Goto(r, "failed") /\ UNCHANGED <<idx, todo>>
  /\ UNCHANGED <<dbVars, up, mgr, deployVars, dict, target, last>>

(* Mutant: only one machine of a VDU is deleted.                           *)
DeleteInstanceFirst(r, m) ==
  /\ pc[r] = "vdus" /\ m \in todo[r]
  /\ up' = up \ {m}
  /\ todo' = [todo EXCEPT ![r] = {}]
  /\ UNCHANGED <<dbVars, mgr, deployVars, dict, pc, target, idx, last>>

(* each of a VDU's machines is deleted, until one cannot be or the VDU is  *)
(* not found in the row the global has by then.                            *)
DeleteInstance(r, m) ==
  /\ pc[r] = "vdus" /\ m \in todo[r]
  /\ \/ /\ m \in up
        /\ up' = up \ {m}
        /\ todo' = [todo EXCEPT ![r] =
             IF SvcOf(VduOf[m]) = dict.svc THEN @ \ {m} ELSE {}]
     \/ /\ m \notin up \/ "api" \in Faults
        /\ todo' = [todo EXCEPT ![r] = {}]
        /\ UNCHANGED up
  /\ UNCHANGED <<dbVars, mgr, deployVars, dict, pc, target, idx, last>>

VdusDeleted(r) ==
  /\ pc[r] = "vdus" /\ todo[r] = {} /\ idx[r] = last[r]
  /\ Goto(r, "network")
  /\ UNCHANGED <<dbVars, up, mgr, deployVars, dict, target, loopVars>>

(* delete_router_interfaces and delete_ports: without a row in the global, *)
(* or when neutron cannot list the ports, the thread ends.                 *)
DeleteNetwork(r) ==
  /\ pc[r] = "network"
  /\ \/ dict.svc # {} /\ Goto(r, "rows")
     \/ (dict.svc = {} \/ "api" \in Faults) /\ Goto(r, "failed")
  /\ UNCHANGED <<dbVars, up, mgr, deployVars, dict, target, loopVars>>

(* delete_db_dict, for the service of the request.                         *)
DeleteDbDict(r) ==
  LET s == target[r]
  IN /\ pc[r] = "rows"
     /\ IF row[s] = "none"
        THEN Goto(r, "failed") /\ UNCHANGED dbVars
        ELSE /\ row' = [row EXCEPT ![s] = "none"]
             /\ recorded' = recorded \ MachinesIn(s)
             /\ Goto(r, "over")
     /\ UNCHANGED <<up, mgr, deployVars, dict, target, loopVars>>

-----------------------------------------------------------------------------
Deploying(s) ==
  \/ CreateService(s) \/ RecordInstances(s) \/ InvokeManager(s)
  \/ InstanceError(s) \/ ApiFailure(s) \/ DeployDone(s)
  \/ \E v \in Vdu : CreateServers(s, v)

Deleting(r) ==
  \/ MarkDeleting(r) \/ DeleteVnfm(r) \/ ListVdus(r) \/ NextVdu(r)
  \/ VdusDeleted(r) \/ DeleteNetwork(r) \/ DeleteDbDict(r)
  \/ \E m \in todo[r] : DeleteInstance(r, m)

Next ==
  \/ \E s \in Service : Deploying(s)
  \/ \E r \in Request : DeleteService(r) \/ Deleting(r)

Spec == Init /\ [][Next]_vars

Active == {r \in Request : pc[r] \notin {"idle", "absent", "over", "failed"}}

(* Deletions are only made of services whose deployment is over,           *)
Settled == \A r \in Active : deploy[target[r]] = "over"

SettledSpec == Init /\ [][Next /\ Settled']_vars

(* and one at a time.                                                      *)
Alone ==
  (\E r \in Request : pc[r] = "idle" /\ pc'[r] # "idle") => Active = {}

SerialSpec ==
  /\ Init /\ [][Next /\ Settled' /\ Alone]_vars
  /\ \A r \in Request : WF_vars(Deleting(r))

-----------------------------------------------------------------------------
(* Whatever deletions and deployments do to one another, a machine and a   *)
(* manager are only taken from a service somebody asked to delete.         *)
Asked == {target[r] : r \in {q \in Request : pc[q] # "idle"}}

AskedMachines == UNION {MachinesIn(s) : s \in Asked}

OnlyAskedLose ==
  [][/\ up \ up' \subseteq AskedMachines
     /\ mgr \ mgr' \subseteq Asked]_vars

(* A deletion that ends has removed every machine of the service. (The     *)
(* rows are removed last: without them nobody knows of a machine left.)    *)
DeletedMeansGone ==
  \A r \in Request : pc[r] = "over" => up \cap MachinesIn(target[r]) = {}

(* The machines created for a service, and those a deletion finds in the   *)
(* rows after the first n of its VDUs.                                     *)
BootedIn(s) == UNION {MachinesOf(v) : v \in Range(Vdus[s]) \cap booted}
LeftAfter(n) == UNION {dict.vdus[k].machines : k \in n + 1 .. Len(dict.vdus)}

(* What makes it so when deletions are of deployed services and come one   *)
(* at a time: the rows list the machines a service has, unless one of its  *)
(* VDUs is just being booted or it is just being deleted;                  *)
ServiceSound(s) ==
  /\ deploy[s] = "none" =>
       row[s] = "none" /\ BootedIn(s) = {} /\ recorded \cap MachinesIn(s) = {}
  /\ deploy[s] \in {"booting", "creating"} => row[s] # "none" /\ BootedIn(s) \subseteq up
  /\ up \cap MachinesIn(s) \subseteq BootedIn(s)
  /\ deploy[s] # "creating" => up \cap MachinesIn(s) \subseteq recorded
  /\ row[s] # "none" /\ (\A r \in Active : target[r] # s) =>
       recorded \cap MachinesIn(s) \subseteq up

(* the global names the service that is deleted, and the machines it still *)
(* has are those the deletion has still to come to.                        *)
DeletionSound(r) ==
  LET s == target[r]
  IN /\ r \in Active =>
          /\ deploy[s] = "over" /\ dict.svc = {s} /\ Len(dict.vdus) = Len(Vdus[s])
          /\ \A k \in DOMAIN dict.vdus : dict.vdus[k].machines \subseteq MachinesOf(Vdus[s][k])
     /\ pc[r] \in {"puppet", "spawned", "listing"} => up \cap MachinesIn(s) = LeftAfter(0)
     /\ pc[r] = "vdus" =>
          /\ last[r] = Len(dict.vdus) /\ idx[r] <= last[r]
          /\ todo[r] \subseteq MachinesIn(s) /\ todo[r] \cap LeftAfter(idx[r]) = {}
          /\ up \cap MachinesIn(s) = todo[r] \cup LeftAfter(idx[r])
     /\ todo[r] # {} => pc[r] = "vdus"
     /\ pc[r] \in {"network", "rows"} => up \cap MachinesIn(s) = {}
     /\ pc[r] = "over" => deploy[s] = "over" /\ up \cap MachinesIn(s) = {}

SerialInv ==
  /\ TypeOK /\ \A r, q \in Active : r = q
  /\ \A s \in Service : ServiceSound(s)
  /\ \A r \in Request : DeletionSound(r)

(* A deletion ends with the rows gone.                                     *)
DeletionCompletes ==
  \A r \in Request : pc[r] = "puppet" ~> row[target[r]] = "none"
=============================================================================

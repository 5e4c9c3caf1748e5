--------------------------- MODULE ServiceNetwork ---------------------------
(***************************************************************************)
(* What a service has on OpenStack besides its machines: interfaces on a   *)
(* router, ports with fixed addresses, a puppet master, the two ports of   *)
(* its manager. preconfigure and the parser make the first three before    *)
(* the service has a row, a deletion removes what it finds on the networks *)
(* and the router the row names. Networks and routers are the user's, and  *)
(* services may share them. Every call to nova or neutron gives way.       *)
(***************************************************************************)
EXTENDS FiniteSets

CONSTANTS
  Service, Network, Router,
  NetsOf,      \* NetsOf[s]: the networks of a service
  MgmtOf,      \* its management network, or NoNet
  RoutedOf,    \* the networks it has an interface on a router for
  RouterOf,    \* that router
  WithPuppet,  \* the services with a puppet master
  ServiceNet,  \* the network managers reach the plugin by
  NoNet

Kind == {"fixed", "vm", "stap", "vtap"}

ASSUME NetAssumption ==
  /\ NetsOf \in [Service -> SUBSET Network]
  /\ MgmtOf \in [Service -> Network \cup {NoNet}]
  /\ \A s \in Service : RoutedOf[s] \subseteq NetsOf[s] /\ RoutedOf[s] # {}
  /\ \A s \in Service : MgmtOf[s] # NoNet => MgmtOf[s] \in NetsOf[s]
  /\ \A s \in WithPuppet : MgmtOf[s] # NoNet
  /\ RouterOf \in [Service -> Router] /\ WithPuppet \subseteq Service
  /\ ServiceNet \notin Network /\ NoNet \notin Network

VARIABLES
  netPc,      \* where create_service and deploy_vnfs of a service are
  preKeys,    \* the keys preconfigure has still to go through
  toRoute,    \* the networks router() has still to go through
  puppet,     \* the puppet master, as nova sees it
  rowPuppet,  \* the services whose row names it
  ifaces,     \* the interfaces of routers, <<router, network>>
  ports,      \* the ports, [owner, net, kind]
  delPc,      \* where the deletion of a service is
  delIfaces,  \* what list_router_ports told it
  delPorts,   \* what list_ports told it
  netFault    \* the services for which some call was refused

netVars == <<netPc, preKeys, toRoute, puppet, rowPuppet, ifaces, ports,
             delPc, delIfaces, delPorts, netFault>>

Port == [owner : Service, net : Network \cup {ServiceNet}, kind : Kind]

(* Ports, routers and puppet masters of services keep their types.         *)
NetTypeOK ==
  /\ netPc \in [Service -> {"idle", "preconfigure", "puppet", "failed", "boot",
                            "stap", "vtap", "up", "raised"}]
  /\ preKeys \in [Service -> SUBSET {"router", "cfg_engine"}]
  /\ toRoute \in [Service -> SUBSET Network]
  /\ puppet \in [Service -> {"none", "BUILD", "ACTIVE", "ERROR", "deleted"}]
  /\ rowPuppet \subseteq WithPuppet
  /\ ifaces \subseteq Router \X Network
  /\ ports \subseteq Port
  /\ delPc \in [Service -> {"none", "vdus", "list", "interfaces", "listports",
                            "ports", "done", "raised"}]
  /\ delIfaces \in [Service -> SUBSET Network]
  /\ delPorts \in [Service -> SUBSET Port]
  /\ netFault \subseteq Service

NetInit ==
  /\ netPc = [s \in Service |-> "idle"]
  /\ preKeys = [s \in Service |-> {}] /\ toRoute = [s \in Service |-> {}]
  /\ puppet = [s \in Service |-> "none"] /\ rowPuppet = {}
  /\ ifaces = {} /\ ports = {}
  /\ delPc = [s \in Service |-> "none"]
  /\ delIfaces = [s \in Service |-> {}] /\ delPorts = [s \in Service |-> {}]
  /\ netFault = {}

createVars == <<netPc, preKeys, toRoute, puppet, rowPuppet>>
delVars == <<delPc, delIfaces, delPorts>>

Goto(s, p) == netPc' = [netPc EXCEPT ![s] = p]
DelGoto(s, p) == delPc' = [delPc EXCEPT ![s] = p]
Refused(s) == netFault' = netFault \cup {s}
PortOf(s, n, k) == [owner |-> s, net |-> n, kind |-> k]

-----------------------------------------------------------------------------
(* create_service: the keys of 'preconfigure' in the order of a dictionary *)

CreateService(s) ==
  /\ netPc[s] = "idle" /\ Goto(s, "preconfigure")
  /\ preKeys' = [preKeys EXCEPT ![s] =
                  {"router"} \cup IF s \in WithPuppet THEN {"cfg_engine"} ELSE {}]
  /\ toRoute' = [toRoute EXCEPT ![s] = RoutedOf[s]]
  /\ UNCHANGED <<puppet, rowPuppet, ifaces, ports, delVars, netFault>>

(* router(): an interface that cannot be added is passed over.             *)
RouteNetwork(s, n) ==
  /\ netPc[s] = "preconfigure" /\ "router" \in preKeys[s] /\ n \in toRoute[s]
  /\ toRoute' = [toRoute EXCEPT ![s] = @ \ {n}]
  /\ preKeys' = IF toRoute[s] = {n} THEN [preKeys EXCEPT ![s] = @ \ {"router"}]
                                    ELSE preKeys
  /\ \/ ifaces' = ifaces \cup {<<RouterOf[s], n>>} /\ UNCHANGED netFault
     \/ Refused(s) /\ UNCHANGED ifaces
  /\ UNCHANGED <<netPc, puppet, rowPuppet, ports, delVars>>

(* router() goes through its networks before another key is looked at.     *)
CfgEngine(s) ==
  /\ netPc[s] = "preconfigure" /\ "cfg_engine" \in preKeys[s]
  /\ toRoute[s] \in {{}, RoutedOf[s]}
  /\ Goto(s, "puppet") /\ puppet' = [puppet EXCEPT ![s] = "BUILD"]
  /\ UNCHANGED <<preKeys, toRoute, rowPuppet, ifaces, ports, delVars, netFault>>

(* Mutant: the key is not done with when the puppet master is up.          *)
PuppetReadyAgain(s) ==
  /\ netPc[s] = "puppet" /\ puppet[s] = "ACTIVE"
  /\ Goto(s, "preconfigure")
  /\ UNCHANGED <<preKeys, toRoute, puppet, rowPuppet, ifaces, ports, delVars, netFault>>

(* It is polled until it is ACTIVE, whatever else becomes of it.           *)
PuppetReady(s) ==
  /\ netPc[s] = "puppet" /\ puppet[s] = "ACTIVE"
  /\ Goto(s, "preconfigure")
  /\ preKeys' = [preKeys EXCEPT ![s] = @ \ {"cfg_engine"}]
  /\ UNCHANGED <<toRoute, puppet, rowPuppet, ifaces, ports, delVars, netFault>>

(* The parser makes the port with a fixed address; the row follows without *)
(* a call in between.                                                      *)
FixedPort(s) == PortOf(s, CHOOSE n \in NetsOf[s] : TRUE, "fixed")

ParseAndStore(s) ==
  /\ netPc[s] = "preconfigure" /\ preKeys[s] = {}
  /\ ports' = ports \cup {FixedPort(s)}
  /\ rowPuppet' = rowPuppet \cup ({s} \cap WithPuppet)
  /\ Goto(s, "boot")
  /\ UNCHANGED <<preKeys, toRoute, puppet, ifaces, delVars, netFault>>

(* Any exception ends the request; nothing made so far is removed.         *)
CreateFails(s) ==
  /\ netPc[s] \in {"preconfigure", "puppet"}
  /\ Goto(s, "failed") /\ Refused(s)
  /\ \/ UNCHANGED ports
     \/ preKeys[s] = {} /\ ports' = ports \cup {FixedPort(s)}
  /\ UNCHANGED <<preKeys, toRoute, puppet, rowPuppet, ifaces, delVars>>

PuppetBuilt(s) ==
  /\ puppet[s] = "BUILD"
  /\ \E r \in {"ACTIVE", "ERROR"} : puppet' = [puppet EXCEPT ![s] = r]
  /\ UNCHANGED <<netPc, preKeys, toRoute, rowPuppet, ifaces, ports, delVars, netFault>>

-----------------------------------------------------------------------------
(* deploy_vnfs: nova makes a port for a machine, _create_ovs_script two    *)
(* for the manager. Without a management network it returns two values     *)
(* where three are expected, and the deployment ends with an exception.    *)

BootMachine(s) ==
  /\ netPc[s] = "boot" /\ Goto(s, "stap")
  /\ \E n \in NetsOf[s] : ports' = ports \cup {PortOf(s, n, "vm")}
  /\ UNCHANGED <<preKeys, toRoute, puppet, rowPuppet, ifaces, delVars, netFault>>

ManagerPort(s) ==
  /\ MgmtOf[s] # NoNet
  /\ \/ /\ netPc[s] = "stap" /\ Goto(s, "vtap")
        /\ ports' = ports \cup {PortOf(s, ServiceNet, "stap")}
     \/ /\ netPc[s] = "vtap" /\ Goto(s, "up")
        /\ ports' = ports \cup {PortOf(s, MgmtOf[s], "vtap")}
  /\ UNCHANGED <<preKeys, toRoute, puppet, rowPuppet, ifaces, delVars, netFault>>

DeployFails(s) ==
  /\ \/ netPc[s] \in {"boot", "stap", "vtap"} /\ Refused(s)
     \/ netPc[s] = "stap" /\ MgmtOf[s] = NoNet /\ UNCHANGED netFault
  /\ Goto(s, "raised")
  /\ UNCHANGED <<preKeys, toRoute, puppet, rowPuppet, ifaces, ports, delVars>>

-----------------------------------------------------------------------------
(* delete_service and delete_vnfs, of a service whose deployment is over   *)
(* (ServiceDeletion has those that are not)                                *)

DeletePuppetInstance(s) ==
  /\ netPc[s] \in {"up", "raised"} /\ delPc[s] = "none" /\ DelGoto(s, "vdus")
  /\ \/ /\ puppet' = IF s \in rowPuppet THEN [puppet EXCEPT ![s] = "deleted"] ELSE puppet
        /\ UNCHANGED netFault
     \/ s \in rowPuppet /\ Refused(s) /\ UNCHANGED puppet
  /\ UNCHANGED <<netPc, preKeys, toRoute, rowPuppet, ifaces, ports, delIfaces, delPorts>>

(* With its machine goes the port nova made for it.                        *)
DeleteVdus(s) ==
  /\ delPc[s] = "vdus" /\ DelGoto(s, "list")
  /\ \/ /\ ports' = {p \in ports : ~(p.owner = s /\ p.kind = "vm")}
        /\ UNCHANGED netFault
     \/ Refused(s) /\ UNCHANGED ports
  /\ UNCHANGED <<createVars, ifaces, delIfaces, delPorts>>

(* delete_router_interfaces: all the router has, whoever added them.       *)
ListRouterPorts(s) ==
  /\ delPc[s] = "list" /\ DelGoto(s, "interfaces")
  /\ delIfaces' = [delIfaces EXCEPT ![s] = {n \in Network : <<RouterOf[s], n>> \in ifaces}]
  /\ UNCHANGED <<createVars, ifaces, ports, delPorts, netFault>>

RemoveInterface(s, n) ==
  /\ delPc[s] = "interfaces" /\ n \in delIfaces[s]
  /\ delIfaces' = [delIfaces EXCEPT ![s] = @ \ {n}]
  /\ \/ ifaces' = ifaces \ {<<RouterOf[s], n>>} /\ UNCHANGED netFault
     \/ Refused(s) /\ UNCHANGED ifaces
  /\ UNCHANGED <<createVars, ports, delPc, delPorts>>

InterfacesRemoved(s) ==
  /\ delPc[s] = "interfaces" /\ delIfaces[s] = {} /\ DelGoto(s, "listports")
  /\ UNCHANGED <<createVars, ifaces, ports, delIfaces, delPorts, netFault>>

(* Mutant: the ports on whatever network.                                  *)
ListPortsAll(s) ==
  /\ delPc[s] = "listports" /\ DelGoto(s, "ports")
  /\ delPorts' = [delPorts EXCEPT ![s] = ports]
  /\ UNCHANGED <<createVars, ifaces, ports, delIfaces, netFault>>

(* delete_ports: all there are on the networks of the service.             *)
ListPorts(s) ==
  /\ delPc[s] = "listports" /\ DelGoto(s, "ports")
  /\ delPorts' = [delPorts EXCEPT ![s] = {p \in ports : p.net \in NetsOf[s]}]
  /\ UNCHANGED <<createVars, ifaces, ports, delIfaces, netFault>>

DeletePort(s, p) ==
  /\ delPc[s] = "ports" /\ p \in delPorts[s]
  /\ delPorts' = [delPorts EXCEPT ![s] = @ \ {p}]
  /\ \/ ports' = ports \ {p} /\ UNCHANGED netFault
     \/ Refused(s) /\ UNCHANGED ports
  /\ UNCHANGED <<createVars, ifaces, delPc, delIfaces>>

DeleteRow(s) ==
  /\ delPc[s] = "ports" /\ delPorts[s] = {} /\ DelGoto(s, "done")
  /\ rowPuppet' = rowPuppet \ {s}
  /\ UNCHANGED <<netPc, preKeys, toRoute, puppet, ifaces, ports, delIfaces,
                 delPorts, netFault>>

(* The two lists may be refused: the thread ends and the row stays.        *)
DeletionRaises(s) ==
  /\ delPc[s] \in {"list", "listports"} /\ DelGoto(s, "raised") /\ Refused(s)
  /\ UNCHANGED <<createVars, ifaces, ports, delIfaces, delPorts>>

-----------------------------------------------------------------------------
Creation(s) ==
  \/ \E n \in Network : RouteNetwork(s, n)
  \/ CfgEngine(s) \/ PuppetReady(s) \/ ParseAndStore(s)

Deployment(s) == BootMachine(s) \/ ManagerPort(s) \/ DeployFails(s)

Deletion(s) ==
  \/ DeletePuppetInstance(s) \/ DeleteVdus(s) \/ ListRouterPorts(s)
  \/ InterfacesRemoved(s) \/ ListPorts(s) \/ DeleteRow(s) \/ DeletionRaises(s)
  \/ \E n \in Network : RemoveInterface(s, n)
  \/ \E p \in delPorts[s] : DeletePort(s, p)

NetNext ==
  \E s \in Service :
    \/ CreateService(s) \/ Creation(s) \/ CreateFails(s) \/ PuppetBuilt(s)
    \/ Deployment(s) \/ Deletion(s)

NetSpec == NetInit /\ [][NetNext]_netVars

-----------------------------------------------------------------------------
Deleting(s) == delPc[s] # "none"
Sharers(s) ==
  {t \in Service \ {s} : NetsOf[s] \cap NetsOf[t] # {} \/ RouterOf[s] = RouterOf[t]}

(* A service that is up loses neither ports nor interfaces to the deletion *)
(* of another, unless the user gave both a network or the router.          *)
NetKept ==
  \A s \in Service :
    netPc[s] = "up" /\ ~Deleting(s) /\ (\A t \in Sharers(s) : ~Deleting(t)) =>
      /\ {p.kind : p \in {q \in ports : q.owner = s}} = Kind
      /\ s \notin netFault => \A n \in RoutedOf[s] : <<RouterOf[s], n>> \in ifaces

(* A deletion nothing is refused to leaves of its service the port on the  *)
(* network of managers, and nothing else.                                  *)
NetCleared ==
  \A s \in Service :
    delPc[s] = "done" /\ s \notin netFault /\ Sharers(s) = {} =>
      /\ {p \in ports : p.owner = s} \subseteq {PortOf(s, ServiceNet, "stap")}
      /\ \A n \in Network : <<RouterOf[s], n>> \notin ifaces
      /\ puppet[s] \in {"none", "deleted"}

(* Every puppet master that runs is known to the row of its service, but   *)
(* those of requests that are not done or have failed, and those whose     *)
(* deletion was refused.                                                   *)
PuppetKnown ==
  \A s \in Service :
    puppet[s] \notin {"none", "deleted"} =>
      \/ s \in rowPuppet \/ s \in netFault
      \/ netPc[s] \in {"preconfigure", "puppet"}

(* What makes it so. Ports are where their kind says;                      *)
PortsPlaced ==
  \A p \in ports : IF p.kind = "stap" THEN p.net = ServiceNet ELSE p.net \in NetsOf[p.owner]

(* a creation is through with its keys, and with the networks of its       *)
(* router, when it goes on to the parser;                                  *)
KeysSound(s) ==
  /\ puppet[s] # "none" \/ "cfg_engine" \in preKeys[s] => s \in WithPuppet
  /\ toRoute[s] # {} => "router" \in preKeys[s]
  /\ netPc[s] \notin {"idle", "preconfigure", "puppet", "failed"} => preKeys[s] = {}

(* what it has made stays, unless its deletion or that of a sharer begins; *)
Quiet(s) == ~Deleting(s) /\ \A t \in Sharers(s) : ~Deleting(t)
Has(s, k) == \E p \in ports : p.owner = s /\ p.kind = k

LaidSound(s) ==
  Quiet(s) =>
    /\ netPc[s] \in {"boot", "stap", "vtap", "up"} => Has(s, "fixed")
    /\ netPc[s] \in {"stap", "vtap", "up"} => Has(s, "vm")
    /\ netPc[s] \in {"vtap", "up"} => Has(s, "stap")
    /\ netPc[s] = "up" => Has(s, "vtap")
    /\ netPc[s] # "idle" /\ s \notin netFault =>
         \A n \in RoutedOf[s] \ toRoute[s] : <<RouterOf[s], n>> \in ifaces

(* and a deletion has on its lists what there is left, which nothing adds  *)
(* to as long as its networks and its router are its own.                  *)
ClearingSound(s) ==
  /\ Deleting(s) => netPc[s] \in {"up", "raised"}
  /\ \A p \in delPorts[s] : p.net \in NetsOf[s]
  /\ Deleting(s) /\ s \notin netFault =>
       /\ puppet[s] \in {"none", "deleted"}
       /\ delPc[s] \in {"ports", "done"} =>
            \A p \in ports : p.owner = s /\ p.net \in NetsOf[s] =>
              delPc[s] = "ports" /\ p \in delPorts[s]
       /\ delPc[s] \in {"interfaces", "listports", "ports", "done"} /\ Sharers(s) = {} =>
            \A n \in Network : <<RouterOf[s], n>> \in ifaces =>
              delPc[s] = "interfaces" /\ n \in delIfaces[s]

(* All that is so of the networks of services, which every step keeps.     *)
NetInv ==
  /\ NetTypeOK /\ PortsPlaced /\ PuppetKnown
  /\ \A s \in Service : KeysSound(s) /\ LaidSound(s) /\ ClearingSound(s)

(* A request to create a service is answered, unless the machine of its    *)
(* puppet master ends in ERROR: that is waited for without end.            *)
NetAnswered ==
  \A s \in Service :
    netPc[s] = "preconfigure" ~>
      \/ netPc[s] \in {"failed", "boot"}
      \/ netPc[s] = "puppet" /\ puppet[s] = "ERROR"
=============================================================================

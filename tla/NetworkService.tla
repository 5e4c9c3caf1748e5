--------------------------- MODULE NetworkService ---------------------------
(***************************************************************************)
(* One network service of OpenVNFManager: what its descriptors say, and    *)
(* the state that the vnfsvc plugin and the vnf-manager of the service     *)
(* share, i.e. the RPC queues between them and the machines they act on.   *)
(*                                                                         *)
(* A VDU is named "vnf:vdu" by the plugin and "vdu" by the manager; the    *)
(* model takes the two to be the same name, that is, no two VNFs of the    *)
(* service have a VDU of the same name.                                    *)
(***************************************************************************)
EXTENDS Naturals, Sequences, FiniteSets, Functions

CONSTANTS
  Vdu,          \* the VDUs of the network service
  Inst,         \* the machine instances of all its VDUs
  VduOf,        \* the VDU each instance belongs to
  Deps,         \* 'dependency' of each VDU: the VDUs it is updated from
  InitDriven,   \* VDUs whose 'init' lifecycle event names a driver
  ConfigEvent,  \* VDUs that have a 'config' lifecycle event
  ConfigDriven, \* those of them whose 'config' event names a driver
  Faults        \* the faults that may happen in a behaviour

(* boot: nova reports ERROR; driver: a driver returns ERROR; api: a call   *)
(* to OpenStack or to the database raises; descriptor: what the descriptor *)
(* says turns out unusable, e.g. a driver that cannot be imported, an      *)
(* instance without an address in 'mgmt-cidr', no network 'mgmt-if';       *)
(* restart: the server restarts; mgr: the manager's process dies.          *)
Fault == {"boot", "driver", "api", "descriptor", "restart", "mgr"}

(* Dependencies are taken from the descriptor unchecked: they may be       *)
(* cyclic or name a VDU that does not exist.                               *)
ASSUME ServiceAssumption ==
  /\ IsFiniteSet(Vdu) /\ IsFiniteSet(Inst)
  /\ VduOf \in [Inst -> Vdu]
  /\ \A v \in Vdu : \E i \in Inst : VduOf[i] = v
  /\ DOMAIN Deps = Vdu
  /\ ConfigDriven \subseteq ConfigEvent
  /\ Faults \subseteq Fault

InstOf(v) == {i \in Inst : VduOf[i] = v}

(* Whether post_configure has a driver to send for a VDU. Its loop         *)
(* variable shadows the parameter 'event', so for a VDU without a 'config' *)
(* event it takes the data and driver of the event the loop ended with:    *)
(* those of 'init'.                                                        *)
PostDriven(v) ==
  \/ v \in ConfigDriven
  \/ v \notin ConfigEvent /\ v \in InitDriven

(* What the manager may be asked to do for an instance.                    *)
Unit == {"init", "config"} \X Inst
UnitsOf(e, v) == {e} \X InstOf(v)

Ack == [unit : Unit, status : {"COMPLETE", "ERROR"}]
AckOf(u, s) == [unit |-> u, status |-> s]

(* Casts from the plugin to the manager: configure_vdus carries a          *)
(* configuration of several VDUs, postConfigure that of one.               *)
Cast == [event : {"init", "config"}, vdus : SUBSET Vdu]

VARIABLES
  vm,           \* vm[v]: the instances of VDU v on the compute service
  done,         \* units whose work a machine really carries
  mgrProc,      \* the vnf-manager process
  bootConf,     \* VDUs in the configuration file the manager starts with
  toMgr,        \* casts on their way to the manager
  lostCasts,    \* whether a cast was published with nobody listening
  toPlugin      \* acknowledgements on their way to the plugin

netVars == <<vm, done, mgrProc, bootConf, toMgr, lostCasts, toPlugin>>

(* Machines, casts and acknowledgements keep their types.                  *)
NetTypeOK ==
  /\ vm \in [Vdu -> {"none", "building", "active", "error"}]
  /\ done \subseteq Unit
  /\ mgrProc \in {"none", "starting", "configuring", "started", "ready", "dead"}
  /\ bootConf \subseteq Vdu
  /\ toMgr \subseteq Cast
  /\ lostCasts \in BOOLEAN
  /\ toPlugin \subseteq Ack

NetInit ==
  /\ vm = [v \in Vdu |-> "none"]
  /\ done = {}
  /\ mgrProc = "none"
  /\ bootConf = {}
  /\ toMgr = {}
  /\ lostCasts = FALSE
  /\ toPlugin = {}

(* A cast (fanout=False) goes to the queue the manager declares when its   *)
(* RPC service starts; published before that, or after the manager died,   *)
(* it is dropped.                                                          *)
SendCast(m) ==
  IF mgrProc = "ready"
  THEN toMgr' = toMgr \cup {m} /\ UNCHANGED lostCasts
  ELSE lostCasts' = TRUE /\ UNCHANGED toMgr
=============================================================================

----------------------------- MODULE Deployment -----------------------------
(***************************************************************************)
(* The plugin's side of bringing up one network service: the green thread  *)
(* deploy_vnfs, which boots the VDUs in dependency order, starts the       *)
(* vnf-manager and asks it to configure them, and the RPC handler send_ack *)
(* that records what the manager reports. Both run in the server's event   *)
(* loop and interleave at every call that yields.                          *)
(***************************************************************************)
EXTENDS NetworkService

VARIABLES
  pc,             \* where deploy_vnfs is
  batch,          \* VDUs of the current round still to be launched
  round,          \* all VDUs of the current round
  waiting,        \* VDUs wait_for_acknowledgment is called for
  postQueue,      \* VDUs ns_postConfigure has still to go through
  deployed,       \* ns_dict['deployed_vdus']
  confGenerated,  \* ns_dict['conf_generated']
  mgrInvoked,     \* ns_dict['is_manager_invoked']
  ackList,        \* ns_dict['acknowledge_list']: instances by VDU
  configured,     \* ns_dict['configured']: a list, in order of arrival
  errored,        \* ns_dict['errored']
  cfgAck,         \* keys of ns_dict['config-event']['acknowledge_list']
  cfgErrored,     \* ns_dict['config-event']['errored']
  status          \* the status column of the service's row

deployVars == <<pc, batch, round, waiting, postQueue, deployed, confGenerated,
                mgrInvoked, ackList, configured, errored, cfgAck, cfgErrored,
                status>>
progressVars == <<batch, round, waiting, postQueue>>
bookVars == <<deployed, confGenerated, mgrInvoked>>
ackVars == <<ackList, configured, errored, cfgAck, cfgErrored>>

(* The plugin's lists and the green thread's place keep their types.       *)
DeployTypeOK ==
  /\ pc \in {"start", "launch", "booting", "wait", "resolve", "details",
             "post", "waitPost", "done", "failed", "lost"}
  /\ batch \subseteq Vdu /\ round \subseteq Vdu
  /\ waiting \subseteq Vdu /\ postQueue \subseteq Vdu
  /\ deployed \subseteq Vdu /\ confGenerated \subseteq Vdu
  /\ mgrInvoked \in BOOLEAN
  /\ ackList \in [Vdu -> Seq(Inst)]
  /\ configured \in Seq(Vdu)
  /\ errored \subseteq Vdu /\ cfgAck \subseteq Vdu /\ cfgErrored \subseteq Vdu
  /\ status \in {"PENDING", "ACTIVE", "ERROR"}

DeployInit ==
  /\ pc = "start"
  /\ batch = {} /\ round = {} /\ waiting = {} /\ postQueue = {}
  /\ deployed = {} /\ confGenerated = {} /\ mgrInvoked = FALSE
  /\ ackList = [v \in Vdu |-> << >>] /\ configured = << >>
  /\ errored = {} /\ cfgAck = {} /\ cfgErrored = {}
  /\ status = "PENDING"

Independent == {v \in Vdu : Deps[v] = {}}

(* Mutant: the dependencies are not looked at.                             *)
ReadyAfterNothing(have) == Vdu \ have

(* VDUs not in 'have' all of whose dependencies are.                       *)
ReadyAfter(have) == {v \in Vdu \ have : Deps[v] \subseteq have}

(* VDUs the next configuration is generated for.                           *)
Unconfigured == deployed \ confGenerated

-----------------------------------------------------------------------------
(* Launching *)

CreateVnfds ==
  /\ pc = "start"
  /\ pc' = "launch" /\ batch' = Independent /\ round' = Independent
  /\ UNCHANGED <<waiting, postQueue, bookVars, ackVars, status, netVars>>

BootStart(v) ==
  /\ pc = "launch" /\ v \in batch
  /\ vm' = [vm EXCEPT ![v] = "building"]
  /\ pc' = "booting" /\ batch' = batch \ {v}
  /\ UNCHANGED <<round, waiting, postQueue, bookVars, ackVars, status, done,
                 mgrProc, bootConf, toMgr, lostCasts, toPlugin>>

(* nova reports the machines ACTIVE and with an address.                   *)
BootDone(v) ==
  /\ pc = "booting" /\ vm[v] = "building"
  /\ vm' = [vm EXCEPT ![v] = "active"]
  /\ deployed' = deployed \cup {v}
  /\ pc' = "launch"
  /\ UNCHANGED <<progressVars, confGenerated, mgrInvoked, ackVars, status, done,
                 mgrProc, bootConf, toMgr, lostCasts, toPlugin>>

(* nova reports ERROR: InstanceException ends the green thread.            *)
BootError(v) ==
  /\ "boot" \in Faults
  /\ pc = "booting" /\ vm[v] = "building"
  /\ vm' = [vm EXCEPT ![v] = "error"]
  /\ status' = "ERROR" /\ pc' = "failed"
  /\ UNCHANGED <<progressVars, bookVars, ackVars, done, mgrProc, bootConf,
                 toMgr, lostCasts, toPlugin>>

(* The first round is launched: write the configuration of its VDUs to the *)
(* file and start the manager with it.                                     *)
InvokeManager ==
  /\ pc = "launch" /\ batch = {} /\ ~mgrInvoked
  /\ confGenerated' = confGenerated \cup Unconfigured
  /\ bootConf' = Unconfigured /\ mgrProc' = "starting"
  /\ mgrInvoked' = TRUE
  /\ waiting' = round /\ pc' = "wait"
  /\ UNCHANGED <<batch, round, postQueue, deployed, ackVars, status, vm, done,
                 toMgr, lostCasts, toPlugin>>

(* Without 'mgmt-if' the ovs script returns two values where three are     *)
(* unpacked: the green thread ends before the manager is started.          *)
InvokeWithoutMgmtIf ==
  /\ "descriptor" \in Faults
  /\ pc = "launch" /\ batch = {} /\ ~mgrInvoked
  /\ confGenerated' = confGenerated \cup Unconfigured
  /\ pc' = "failed"
  /\ UNCHANGED <<progressVars, deployed, mgrInvoked, ackVars, status, netVars>>

(* The manager is started, and then neutron cannot update its ports, or    *)
(* the row for its host is gone.                                           *)
InvokeManagerFails ==
  /\ "api" \in Faults
  /\ pc = "launch" /\ batch = {} /\ ~mgrInvoked
  /\ confGenerated' = confGenerated \cup Unconfigured
  /\ bootConf' = Unconfigured /\ mgrProc' = "starting"
  /\ pc' = "failed"
  /\ UNCHANGED <<progressVars, deployed, mgrInvoked, ackVars, status, vm, done,
                 toMgr, lostCasts, toPlugin>>

(* A later round is launched: cast its configuration to the manager.       *)
SendConfigure ==
  /\ pc = "launch" /\ batch = {} /\ mgrInvoked
  /\ SendCast([event |-> "init", vdus |-> Unconfigured])
  /\ confGenerated' = confGenerated \cup Unconfigured \cup round
  /\ waiting' = round /\ pc' = "wait"
  /\ UNCHANGED <<batch, round, postQueue, deployed, mgrInvoked, ackVars, status,
                 vm, done, mgrProc, bootConf, toPlugin>>

-----------------------------------------------------------------------------
(* Waiting and resolving dependencies *)

(* exceptions.ConfigurationError does not exist, but the AttributeError    *)
(* ends the green thread just as well.                                     *)
WaitRaise ==
  /\ \/ pc = "wait" /\ waiting \cap errored # {}
     \/ pc = "waitPost" /\ waiting \cap cfgErrored # {}
  /\ pc' = "failed"
  /\ UNCHANGED <<progressVars, bookVars, ackVars, status, netVars>>

WaitDone ==
  /\ pc = "wait" /\ waiting \cap errored = {}
  /\ waiting \subseteq Range(configured)
  /\ pc' = "resolve"
  /\ UNCHANGED <<progressVars, bookVars, ackVars, status, netVars>>

ResolveRound ==
  /\ pc = "resolve" /\ Len(configured) # Cardinality(Vdu)
  /\ round' = ReadyAfter(Range(configured)) /\ batch' = round'
  /\ pc' = "launch"
  /\ UNCHANGED <<waiting, postQueue, bookVars, ackVars, status, netVars>>

ResolveDone ==
  /\ pc = "resolve" /\ Len(configured) = Cardinality(Vdu)
  /\ pc' = "details"
  /\ UNCHANGED <<progressVars, bookVars, ackVars, status, netVars>>

-----------------------------------------------------------------------------
(* Post-configuration *)

(* get_ns_config_details and _modify_iptables, then ns_postConfigure.      *)
ConfigDetails ==
  /\ pc = "details"
  /\ pc' = "post" /\ postQueue' = Independent
  /\ UNCHANGED <<batch, round, waiting, bookVars, ackVars, status, netVars>>

PostConfigure(v) ==
  /\ pc = "post" /\ v \in postQueue
  /\ postQueue' = postQueue \ {v}
  /\ \/ /\ PostDriven(v)
        /\ SendCast([event |-> "config", vdus |-> {v}])
        /\ waiting' = {v} /\ pc' = "waitPost"
        /\ UNCHANGED cfgAck
     \/ /\ ~PostDriven(v)
        /\ cfgAck' = cfgAck \cup {v}
        /\ UNCHANGED <<waiting, pc, toMgr, lostCasts>>
  /\ UNCHANGED <<batch, round, bookVars, ackList, configured, errored,
                 cfgErrored, status, vm, done, mgrProc, bootConf, toPlugin>>

(* An entry for the VDU is enough, whichever instance made it.             *)
WaitPostDone ==
  /\ pc = "waitPost" /\ waiting \cap cfgErrored = {}
  /\ waiting \subseteq cfgAck
  /\ pc' = "post"
  /\ UNCHANGED <<progressVars, bookVars, ackVars, status, netVars>>

(* Mutant: a round takes all VDUs that are left.                           *)
PostRoundAll ==
  /\ pc = "post" /\ postQueue = {}
  /\ Cardinality(Vdu) # Cardinality(cfgAck)
  /\ postQueue' = Vdu \ cfgAck
  /\ UNCHANGED <<pc, batch, round, waiting, bookVars, ackVars, status, netVars>>

PostRound ==
  /\ pc = "post" /\ postQueue = {}
  /\ Cardinality(Vdu) # Cardinality(cfgAck)
  /\ postQueue' = ReadyAfter(cfgAck)
  /\ UNCHANGED <<pc, batch, round, waiting, bookVars, ackVars, status, netVars>>

(* The status is overwritten whatever it is.                               *)
PostDone ==
  /\ pc = "post" /\ postQueue = {}
  /\ Cardinality(Vdu) = Cardinality(cfgAck)
  /\ pc' = "done" /\ status' = "ACTIVE"
  /\ UNCHANGED <<progressVars, bookVars, ackVars, netVars>>

-----------------------------------------------------------------------------
(* Faults *)

(* An exception of an OpenStack client or of the database: nothing catches *)
(* it, the green thread ends and the status stays what it was.             *)
ApiFailure ==
  /\ "api" \in Faults
  /\ pc \in {"launch", "booting", "details", "post"}
  /\ pc' = "failed"
  /\ UNCHANGED <<progressVars, bookVars, ackVars, status, netVars>>

(* The server restarts: ns_dict and agent_mapping live in memory only.     *)
Restart ==
  /\ "restart" \in Faults /\ pc # "lost"
  /\ pc' = "lost"
  /\ UNCHANGED <<progressVars, bookVars, ackVars, status, netVars>>

-----------------------------------------------------------------------------
(* The RPC handler send_ack *)

(* Mutant: the first instance of a VDU is enough.                          *)
InitAckFirst(u, s) ==
  LET v == VduOf[u[2]]
  IN \/ /\ s = "ERROR"
        /\ errored' = errored \cup {v} /\ status' = "ERROR"
        /\ UNCHANGED <<ackList, configured>>
     \/ /\ s = "COMPLETE"
        /\ ackList' = [ackList EXCEPT ![v] = Append(@, u[2])]
        /\ configured' = Append(configured, v)
        /\ UNCHANGED <<errored, status>>

(* Mutant: one acknowledgement more than there are instances is expected.  *)
InitAckOneMore(u, s) ==
  LET v == VduOf[u[2]]
      acks == Append(ackList[v], u[2])
  IN \/ /\ s = "ERROR"
        /\ errored' = errored \cup {v} /\ status' = "ERROR"
        /\ UNCHANGED <<ackList, configured>>
     \/ /\ s = "COMPLETE"
        /\ ackList' = [ackList EXCEPT ![v] = acks]
        /\ configured' = IF Cardinality(InstOf(v)) < Len(acks)
                         THEN Append(configured, v) ELSE configured
        /\ UNCHANGED <<errored, status>>

(* build_acknowledge_list                                                  *)
InitAck(u, s) ==
  LET v == VduOf[u[2]]
      acks == Append(ackList[v], u[2])
  IN \/ /\ s = "ERROR"
        /\ errored' = errored \cup {v} /\ status' = "ERROR"
        /\ UNCHANGED <<ackList, configured>>
     \/ /\ s = "COMPLETE"
        /\ ackList' = [ackList EXCEPT ![v] = acks]
        /\ configured' = IF Cardinality(InstOf(v)) <= Len(acks)
                         THEN Append(configured, v) ELSE configured
        /\ UNCHANGED <<errored, status>>

(* Mutant: a failed post-configuration does not reach the status.          *)
ConfigAckSilent(u, s) ==
  LET v == VduOf[u[2]]
  IN /\ cfgErrored' = IF s = "ERROR" THEN cfgErrored \cup {v} ELSE cfgErrored
     /\ cfgAck' = IF s = "COMPLETE" THEN cfgAck \cup {v} ELSE cfgAck
     /\ UNCHANGED status

(* buildConfigAck                                                          *)
ConfigAck(u, s) ==
  LET v == VduOf[u[2]]
  IN \/ /\ s = "ERROR"
        /\ cfgErrored' = cfgErrored \cup {v} /\ status' = "ERROR"
        /\ UNCHANGED cfgAck
     \/ /\ s = "COMPLETE"
        /\ cfgAck' = cfgAck \cup {v}
        /\ UNCHANGED <<cfgErrored, status>>

(* After a restart ns_dict has no entry for the service: KeyError.         *)
SendAck(m) ==
  /\ m \in toPlugin /\ toPlugin' = toPlugin \ {m}
  /\ \/ /\ pc # "lost" /\ m.unit[1] = "init"
        /\ InitAck(m.unit, m.status)
        /\ UNCHANGED <<cfgAck, cfgErrored>>
     \/ /\ pc # "lost" /\ m.unit[1] = "config"
        /\ ConfigAck(m.unit, m.status)
        /\ UNCHANGED <<ackList, configured, errored>>
     \/ pc = "lost" /\ UNCHANGED <<ackVars, status>>
  /\ UNCHANGED <<pc, progressVars, bookVars, vm, done, mgrProc, bootConf, toMgr,
                 lostCasts>>

-----------------------------------------------------------------------------
(* The steps deploy_vnfs takes by itself.                                  *)
DeployStep ==
  \/ CreateVnfds \/ InvokeManager \/ SendConfigure
  \/ WaitRaise \/ WaitDone \/ ResolveRound \/ ResolveDone
  \/ ConfigDetails \/ WaitPostDone \/ PostRound \/ PostDone
  \/ \E v \in Vdu : BootStart(v) \/ PostConfigure(v)

BootEnd == \E v \in Vdu : BootDone(v) \/ BootError(v)

DeployNext ==
  \/ DeployStep \/ BootEnd \/ InvokeWithoutMgmtIf \/ InvokeManagerFails
  \/ ApiFailure \/ Restart
  \/ \E m \in toPlugin : SendAck(m)
=============================================================================

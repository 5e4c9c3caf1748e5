---------------------------- MODULE ServiceUpdate ----------------------------
(***************************************************************************)
(* Changing a service while it is brought up, runs or is deleted. A        *)
(* request finds the row of the service whatever its status, checks the    *)
(* VDU it names, and casts to the vnf-manager of the row over the proxy    *)
(* the plugin holds for it (agent_mapping, in memory only, never cleared). *)
(* The row is committed first; machines are booted, the manager is started *)
(* and the proxy recorded by a green thread that may fail at any of these. *)
(***************************************************************************)
EXTENDS Naturals, FiniteSets

CONSTANTS
  Owner,        \* services; each has one manager, which bears its name here
  Asker,        \* requests under way at a time
  OwnerVdus,    \* the VDUs each service has in its row
  AskedVdu,     \* names of VDUs a request may give
  MaxRestarts   \* bound: restarts of the plugin

ASSUME UpdateAssumption == MaxRestarts \in Nat

VARIABLES
  rowState,      \* of each service: "none", "here", "deleting", "gone"
  launch,        \* its deployment: "none", "booting", "starting" its manager,
                 \* "invoked" (the proxy is recorded) or "over" without that
  agentMapping,  \* the services whose manager the plugin holds a proxy of
  managerIs,     \* of each manager: "down", "starting", "ready" (it listens)
  managerInbox,  \* update messages on their way to a manager
  asked,         \* the request of each caller
  restarts       \* of the plugin

serviceVars == <<rowState, launch>>
updateVars == <<serviceVars, agentMapping, managerIs, managerInbox, asked, restarts>>

WayIn == {"update", "configuration"}
UpdateOutcomes == {"TypeError", "NoVduforNsd", "KeyError", "cast"}
NotAsking == [pc |-> "idle", of |-> "", vdu |-> "", way |-> ""]
UpdateRequests ==
  [pc : {"idle"} \cup UpdateOutcomes, of : {""}, vdu : {""}, way : {""}]
    \cup [pc : {"begun", "read", "casting"}, of : Owner, vdu : AskedVdu, way : WayIn]

(* Rows, deployments, proxies, managers and requests keep their types.     *)
UpdateTypeOK ==
  /\ rowState \in [Owner -> {"none", "here", "deleting", "gone"}]
  /\ launch \in [Owner -> {"none", "booting", "starting", "invoked", "over"}]
  /\ agentMapping \subseteq Owner
  /\ managerIs \in [Owner -> {"down", "starting", "ready"}]
  /\ managerInbox \subseteq [to : Owner, vdu : AskedVdu]
  /\ asked \in [Asker -> UpdateRequests]
  /\ restarts \in 0 .. MaxRestarts

UpdateInit ==
  /\ rowState = [o \in Owner |-> "none"] /\ launch = [o \in Owner |-> "none"]
  /\ agentMapping = {} /\ managerIs = [o \in Owner |-> "down"] /\ managerInbox = {}
  /\ asked = [c \in Asker |-> NotAsking] /\ restarts = 0

-----------------------------------------------------------------------------
(* create_service and the green thread of deploy_vnfs                      *)

RowCreated(o) ==
  /\ launch[o] = "none" /\ launch' = [launch EXCEPT ![o] = "booting"]
  /\ rowState' = [rowState EXCEPT ![o] = "here"]
  /\ UNCHANGED <<agentMapping, managerIs, managerInbox, asked, restarts>>

(* Whatever raises before the proxy is recorded ends the green thread, and *)
(* the row stays.                                                          *)
LaunchFails(o) ==
  /\ launch[o] \in {"booting", "starting"} /\ launch' = [launch EXCEPT ![o] = "over"]
  /\ UNCHANGED <<rowState, agentMapping, managerIs, managerInbox, asked, restarts>>

(* The process is started, unless ansible fails, which goes unnoticed, or  *)
(* vnfmconf says neither local nor ansible.                                *)
StartManager(o) ==
  /\ launch[o] = "booting" /\ launch' = [launch EXCEPT ![o] = "starting"]
  /\ managerIs' \in {managerIs, [managerIs EXCEPT ![o] = "starting"]}
  /\ UNCHANGED <<rowState, agentMapping, managerInbox, asked, restarts>>

(* What fails later finds the proxy recorded.                              *)
RecordProxy(o) ==
  /\ launch[o] = "starting" /\ launch' = [launch EXCEPT ![o] = "invoked"]
  /\ agentMapping' = agentMapping \cup {o}
  /\ UNCHANGED <<rowState, managerIs, managerInbox, asked, restarts>>

(* Its VDUs taken in, a manager declares its queue, perhaps before ansible *)
(* returns to the plugin.                                                  *)
ManagerListens(o) ==
  /\ managerIs[o] = "starting" /\ managerIs' = [managerIs EXCEPT ![o] = "ready"]
  /\ UNCHANGED <<serviceVars, agentMapping, managerInbox, asked, restarts>>

(* A driver that cannot be imported at the start, a crash: nobody starts   *)
(* the manager again, and what waits for it is read by nobody.             *)
ManagerEnds(o) ==
  /\ managerIs[o] # "down" /\ managerIs' = [managerIs EXCEPT ![o] = "down"]
  /\ managerInbox' = {m \in managerInbox : m.to # o}
  /\ UNCHANGED <<serviceVars, agentMapping, asked, restarts>>

-----------------------------------------------------------------------------
(* delete_service and the green thread of delete_vnfs                      *)

(* delete_vtap_and_vnfm passes over whatever goes wrong: the manager may   *)
(* go on.                                                                  *)
DeleteVnfm(o) ==
  /\ rowState[o] = "here" /\ rowState' = [rowState EXCEPT ![o] = "deleting"]
  /\ \/ UNCHANGED <<managerIs, managerInbox>>
     \/ /\ managerIs' = [managerIs EXCEPT ![o] = "down"]
        /\ managerInbox' = {m \in managerInbox : m.to # o}
  /\ UNCHANGED <<launch, agentMapping, asked, restarts>>

(* The row may be asked to be deleted again.                               *)
DeletionFails(o) ==
  /\ rowState[o] = "deleting" /\ rowState' = [rowState EXCEPT ![o] = "here"]
  /\ UNCHANGED <<launch, agentMapping, managerIs, managerInbox, asked, restarts>>

(* Mutant: the proxy goes with the row.                                    *)
RowRemovedWithProxy(o) ==
  /\ rowState[o] = "deleting" /\ rowState' = [rowState EXCEPT ![o] = "gone"]
  /\ agentMapping' = agentMapping \ {o}
  /\ UNCHANGED <<launch, managerIs, managerInbox, asked, restarts>>

(* Nothing leaves agent_mapping.                                           *)
RowRemoved(o) ==
  /\ rowState[o] = "deleting" /\ rowState' = [rowState EXCEPT ![o] = "gone"]
  /\ UNCHANGED <<launch, agentMapping, managerIs, managerInbox, asked, restarts>>

(* The green threads of deployments, deletions and requests are lost with  *)
(* the proxies; rows, managers and messages are not.                       *)
PluginRestart ==
  /\ restarts < MaxRestarts /\ restarts' = restarts + 1
  /\ agentMapping' = {} /\ asked' = [c \in Asker |-> NotAsking]
  /\ launch' = [o \in Owner |-> IF launch[o] = "none" THEN "none" ELSE "over"]
  /\ rowState' = [o \in Owner |-> IF rowState[o] = "deleting" THEN "here" ELSE rowState[o]]
  /\ UNCHANGED <<managerIs, managerInbox>>

-----------------------------------------------------------------------------
(* update_service and update_configuration                                 *)

AskUpdate(c, o, n, via) ==
  /\ asked[c].pc \notin {"begun", "read", "casting"}
  /\ asked' = [asked EXCEPT ![c] = [pc |-> "begun", of |-> o, vdu |-> n, way |-> via]]
  /\ UNCHANGED <<serviceVars, agentMapping, managerIs, managerInbox, restarts>>

GoesOn(c, at) == asked' = [asked EXCEPT ![c] = [@ EXCEPT !.pc = at]]
AnsweredWith(c, outcome) == asked' = [asked EXCEPT ![c] = [NotAsking EXCEPT !.pc = outcome]]

(* get_service_by_nsd_id finds a row whatever its status, and has '' for a *)
(* service it does not find.                                               *)
FoundByNsdId(o) == rowState[o] \in {"here", "deleting"}

ReadService(c) ==
  /\ asked[c].pc = "begun"
  /\ IF FoundByNsdId(asked[c].of) THEN GoesOn(c, "read") ELSE AnsweredWith(c, "TypeError")
  /\ UNCHANGED <<serviceVars, agentMapping, managerIs, managerInbox, restarts>>

RefuseUpdate(c) ==
  /\ asked[c].pc = "read" /\ asked[c].vdu \notin OwnerVdus[asked[c].of]
  /\ AnsweredWith(c, "NoVduforNsd") /\ UNCHANGED agentMapping

UpdateService(c) ==
  /\ asked[c].pc = "read" /\ asked[c].vdu \in OwnerVdus[asked[c].of]
  /\ asked[c].way = "update"
  /\ agentMapping' = agentMapping \cup {asked[c].of} /\ GoesOn(c, "casting")

UpdateConfiguration(c) ==
  /\ asked[c].pc = "read" /\ asked[c].vdu \in OwnerVdus[asked[c].of]
  /\ asked[c].way = "configuration" /\ UNCHANGED agentMapping
  /\ IF asked[c].of \in agentMapping THEN GoesOn(c, "casting") ELSE AnsweredWith(c, "KeyError")

CheckUpdate(c) ==
  /\ RefuseUpdate(c) \/ UpdateService(c) \/ UpdateConfiguration(c)
  /\ UNCHANGED <<serviceVars, managerIs, managerInbox, restarts>>

(* A cast to a manager that does not listen is lost, and answered alike.   *)
CastUpdate(c) ==
  /\ asked[c].pc = "casting" /\ AnsweredWith(c, "cast")
  /\ managerInbox' = managerInbox \cup {m \in {[to |-> asked[c].of, vdu |-> asked[c].vdu]} :
                                          managerIs[m.to] = "ready"}
  /\ UNCHANGED <<serviceVars, agentMapping, managerIs, restarts>>

(* update_vdu_configuration of the manager: _configure_vdu is called       *)
(* without the event, so that every update fails, and the failure stays    *)
(* with the manager.                                                       *)
UpdateVduConfiguration(m) ==
  /\ m \in managerInbox /\ managerInbox' = managerInbox \ {m}
  /\ UNCHANGED <<serviceVars, agentMapping, managerIs, asked, restarts>>

UpdateNext ==
  \/ \E o \in Owner :
       \/ RowCreated(o) \/ LaunchFails(o) \/ StartManager(o) \/ RecordProxy(o)
       \/ ManagerListens(o) \/ ManagerEnds(o)
       \/ DeleteVnfm(o) \/ DeletionFails(o) \/ RowRemoved(o)
  \/ PluginRestart
  \/ \E c \in Asker, o \in Owner, n \in AskedVdu, via \in WayIn : AskUpdate(c, o, n, via)
  \/ \E c \in Asker : ReadService(c) \/ CheckUpdate(c) \/ CastUpdate(c)
  \/ \E m \in managerInbox : UpdateVduConfiguration(m)

UpdateSpec == UpdateInit /\ [][UpdateNext]_updateVars

(***************************************************************************)
(* Properties                                                              *)
(***************************************************************************)

(* Once its manager was invoked, the plugin has a proxy of a service until *)
(* it restarts, though the service may be updated and deleted meanwhile    *)
(* and its manager may have ended; and it has one of no service that never *)
(* had a row.                                                              *)
ProxyHeld ==
  /\ \A o \in Owner : launch[o] = "invoked" => o \in agentMapping
  /\ \A o \in agentMapping : rowState[o] # "none"

(* A message on its way names a VDU of the service its manager is for, and *)
(* that manager listens, although the deployment may have failed, the row  *)
(* may have gone and the plugin may have restarted since it was checked.   *)
MessagesMeant ==
  \A m \in managerInbox : m.vdu \in OwnerVdus[m.to] /\ managerIs[m.to] = "ready"

(* Only a service with a row is deployed, only a deployment that got to it *)
(* starts a manager, and a request that goes on has found a row, and a VDU *)
(* of it before it casts.                                                  *)
LaunchesMeant ==
  /\ \A o \in Owner :
       /\ launch[o] = "none" <=> rowState[o] = "none"
       /\ managerIs[o] # "down" => launch[o] \notin {"none", "booting"}
  /\ \A c \in Asker :
       /\ asked[c].pc \in {"read", "casting"} => rowState[asked[c].of] # "none"
       /\ asked[c].pc = "casting" =>
            asked[c].of \in agentMapping /\ asked[c].vdu \in OwnerVdus[asked[c].of]

UpdateInv == UpdateTypeOK /\ ProxyHeld /\ MessagesMeant /\ LaunchesMeant

(* An update fails for want of a proxy only at a service whose manager     *)
(* this plugin has not invoked since it started: one that is still booted, *)
(* one whose deployment failed before, or one that an earlier plugin       *)
(* deployed. A deletion beside the request never brings that about.        *)
NoProxyYet ==
  [][\A c \in Asker :
       (asked[c].pc = "read" /\ asked'[c].pc = "KeyError")
         => launch[asked[c].of] # "invoked"]_updateVars

(* A request that begins when its service has gone is not answered as if   *)
(* the change were under way.                                              *)
GoneIsRefused ==
  [][\A c \in Asker :
       (asked[c].pc = "begun" /\ ~FoundByNsdId(asked[c].of)) => asked'[c].pc # "read"]_updateVars
=============================================================================

---------------------------- MODULE SharedPlugin ----------------------------
(***************************************************************************)
(* Several network services brought up by the one plugin object of the     *)
(* server. What belongs to a service is in its entry of ns_dict; but some  *)
(* of what create_service and deploy_vnfs need on the way is kept in       *)
(* attributes of the plugin, which the green threads of all services write *)
(* and read between calls that yield. This module has those attributes and *)
(* the steps that touch them; what Deployment and VNFManager say of one    *)
(* service (failures, several instances, post-configuration in order) is   *)
(* left out, and the manager of a service acknowledges what it is given.   *)
(*                                                                         *)
(* A VNFD has one VDU, and one name stands for both: two services may have *)
(* VDUs of the same name, which have different places in ns_dict.          *)
(***************************************************************************)
EXTENDS Naturals, Sequences, FiniteSets

CONSTANTS
  Service,     \* the services that may be created
  Template,    \* the templates they are created from
  Vdu,         \* the names of VDUs
  TemplateOf,  \* TemplateOf[s]: the template of service s
  VdusOf,      \* VdusOf[t]: the VDUs of template t
  Deps,        \* Deps[t][v]: the VDUs of t that v is updated from
  TenantOf     \* TenantOf[s]: the tenant on whose behalf s is created

ASSUME SharedAssumption ==
  /\ TemplateOf \in [Service -> Template]
  /\ \A t \in Template :
       /\ VdusOf[t] \subseteq Vdu /\ VdusOf[t] # {} /\ IsFiniteSet(VdusOf[t])
       /\ Deps[t] \in [VdusOf[t] -> SUBSET VdusOf[t]]

VARIABLES
  (* attributes of the plugin *)
  template_id,
  independent_vdus,
  lfevent_details,       \* per service: the VDUs whose events it has
  configured_instances,  \* names of instances; one made of a VDU bears its name
  client,                \* whose token novaclient carries
  (* ns_dict, and the rows of the services *)
  pc, parsed, todo, at, round, waiting, deployed, confGenerated, invoked,
  configured,
  rowTemplate, rowEvents, status,
  (* outside *)
  machines,              \* per service and VDU: the templates booted from
  manager,               \* per service: the process, "none", "up" or "dead"
  asked,                 \* per service: what it has still to acknowledge
  overlapped             \* history: whether two services were under way at once

attrVars == <<template_id, independent_vdus, lfevent_details, configured_instances, client>>
roundVars == <<todo, at, round, waiting>>
bookVars == <<deployed, confGenerated, invoked, configured>>
rowVars == <<parsed, rowTemplate, rowEvents, status>>
outVars == <<machines, manager, asked>>
vars == <<attrVars, pc, roundVars, bookVars, rowVars, outVars, overlapped>>

None == "none"
NoToken == "no token"

VdusIn(s) == VdusOf[TemplateOf[s]]
DepsIn(s) == Deps[TemplateOf[s]]

(* The plugin's attributes and each service's place keep their types.      *)
TypeOK ==
  /\ template_id \in Template \cup {None}
  /\ independent_vdus \subseteq Vdu
  /\ lfevent_details \in [Service -> SUBSET Vdu]
  /\ configured_instances \subseteq Vdu
  /\ client \in Service \cup {NoToken}
  /\ pc \in [Service -> {"idle", "parse", "start", "launch", "booting", "invoking",
                         "wait", "resolve", "details", "post", "done", "failed"}]
  /\ todo \in [Service -> SUBSET Vdu] /\ at \in [Service -> Vdu \cup {None}]
  /\ round \in [Service -> SUBSET Vdu] /\ waiting \in [Service -> SUBSET Vdu]
  /\ deployed \in [Service -> SUBSET Vdu]
  /\ confGenerated \in [Service -> SUBSET Vdu]
  /\ invoked \in [Service -> BOOLEAN]
  /\ configured \in [Service -> SUBSET Vdu]
  /\ parsed \in [Service -> SUBSET Vdu]
  /\ rowTemplate \in [Service -> Template \cup {None}]
  /\ rowEvents \in [Service -> SUBSET Vdu]
  /\ status \in [Service -> {None, "PENDING", "ACTIVE"}]
  /\ machines \in [Service -> [Vdu -> Seq(Template)]]
  /\ manager \in [Service -> {"none", "up", "dead"}]
  /\ asked \in [Service -> SUBSET Vdu]
  /\ overlapped \in BOOLEAN

Init ==
  LET none == [s \in Service |-> {}]
  IN /\ template_id = None /\ independent_vdus = {} /\ lfevent_details = none
     /\ configured_instances = {} /\ client = NoToken
     /\ pc = [s \in Service |-> "idle"]
     /\ todo = none /\ at = [s \in Service |-> None] /\ round = none /\ waiting = none
     /\ deployed = none /\ confGenerated = none /\ configured = none
     /\ invoked = [s \in Service |-> FALSE]
     /\ parsed = none /\ rowEvents = none
     /\ rowTemplate = [s \in Service |-> None] /\ status = [s \in Service |-> None]
     /\ machines = [s \in Service |-> [v \in Vdu |-> << >>]]
     /\ manager = [s \in Service |-> "none"] /\ asked = none
     /\ overlapped = FALSE

Goto(s, l) == pc' = [pc EXCEPT ![s] = l]

-----------------------------------------------------------------------------
(* create_service *)

(* Mutant: configured_instances is not emptied.                            *)
CreateServiceKeepsInstances(s) ==
  /\ pc[s] = "idle" /\ Goto(s, "parse")
  /\ lfevent_details' = [x \in Service |-> {}]
  /\ template_id' = TemplateOf[s]
  /\ client' = s
  /\ UNCHANGED <<independent_vdus, configured_instances, roundVars, bookVars, rowVars, outVars>>

(* Up to the first call that yields: _ns_dict_init, and the template's id. *)
CreateService(s) ==
  /\ pc[s] = "idle" /\ Goto(s, "parse")
  /\ lfevent_details' = [x \in Service |-> {}]
  /\ configured_instances' = {}
  /\ template_id' = TemplateOf[s]
  /\ client' = s
  /\ UNCHANGED <<independent_vdus, roundVars, bookVars, rowVars, outVars>>

(* create_service_model and the spawn of deploy_vnfs, with the last VNFD.  *)
EnterRow(s, events) ==
  /\ rowTemplate' = [rowTemplate EXCEPT ![s] = template_id]
  /\ rowEvents' = [rowEvents EXCEPT ![s] = events]
  /\ status' = [status EXCEPT ![s] = "PENDING"]
  /\ Goto(s, "start")

(* Mutant: only the events of the VNFD just parsed are extracted.          *)
ParseVnfdOnly(s, v) ==
  /\ pc[s] = "parse" /\ v \in VdusIn(s) \ parsed[s]
  /\ parsed' = [parsed EXCEPT ![s] = @ \cup {v}]
  /\ lfevent_details' = [lfevent_details EXCEPT ![s] = @ \cup {v}]
  /\ IF parsed'[s] = VdusIn(s)
     THEN EnterRow(s, lfevent_details'[s])
     ELSE UNCHANGED <<pc, rowTemplate, rowEvents, status>>
  /\ UNCHANGED <<template_id, independent_vdus, configured_instances, client, roundVars,
                 bookVars, outVars>>

(* The parser makes ports, and _extract_lfevents goes through all VNFDs    *)
(* parsed so far.                                                          *)
ParseVnfd(s, v) ==
  /\ pc[s] = "parse" /\ v \in VdusIn(s) \ parsed[s]
  /\ parsed' = [parsed EXCEPT ![s] = @ \cup {v}]
  /\ lfevent_details' = [lfevent_details EXCEPT ![s] = parsed'[s]]
  /\ IF parsed'[s] = VdusIn(s)
     THEN EnterRow(s, lfevent_details'[s])
     ELSE UNCHANGED <<pc, rowTemplate, rowEvents, status>>
  /\ UNCHANGED <<template_id, independent_vdus, configured_instances, client, roundVars,
                 bookVars, outVars>>

-----------------------------------------------------------------------------
(* deploy_vnfs *)

Independent(s) == {v \in VdusIn(s) : DepsIn(s)[v] = {}}

CreateVnfds(s) ==
  /\ pc[s] = "start" /\ Goto(s, "launch")
  /\ independent_vdus' = Independent(s)
  /\ todo' = [todo EXCEPT ![s] = Independent(s)]
  /\ round' = [round EXCEPT ![s] = Independent(s)]
  /\ client' = s
  /\ UNCHANGED <<template_id, lfevent_details, configured_instances, at, waiting, bookVars,
                 rowVars, outVars>>

(* _get_vm_details looks the VDU up under the plugin's template_id. When   *)
(* that template has none of the name, None has no vdu_flavor and the      *)
(* green thread ends; otherwise nova is asked for a machine.               *)
Launch(s, v) ==
  /\ pc[s] = "launch" /\ v \in todo[s]
  /\ todo' = [todo EXCEPT ![s] = @ \ {v}]
  /\ client' = s
  /\ IF v \in VdusOf[template_id]
     THEN /\ machines' = [machines EXCEPT ![s][v] = Append(@, template_id)]
          /\ at' = [at EXCEPT ![s] = v]
          /\ Goto(s, "booting")
     ELSE Goto(s, "failed") /\ UNCHANGED <<machines, at>>
  /\ UNCHANGED <<template_id, independent_vdus, lfevent_details, configured_instances, round,
                 waiting, bookVars, rowVars, manager, asked>>

(* nova shows a server to the tenant it belongs to.                        *)
Shown(s) == client \in Service /\ TenantOf[client] = TenantOf[s]

Booted(s) ==
  /\ pc[s] = "booting" /\ Shown(s)
  /\ deployed' = [deployed EXCEPT ![s] = @ \cup {at[s]}]
  /\ Goto(s, "launch")
  /\ UNCHANGED <<attrVars, roundVars, confGenerated, invoked, configured, rowVars, outVars>>

(* get_server raises, and nothing catches it.                              *)
BootedUnseen(s) ==
  /\ pc[s] = "booting" /\ ~Shown(s)
  /\ Goto(s, "failed")
  /\ UNCHANGED <<attrVars, roundVars, bookVars, rowVars, outVars>>

-----------------------------------------------------------------------------
(* _generate_vnfm_conf: an instance already in configured_instances is     *)
(* given no lifecycle events.                                              *)
Unconfigured(s) == deployed[s] \ confGenerated[s]
Bare(s) == Unconfigured(s) \cap configured_instances

(* A manager that is given a VDU without events finds no 'init' and        *)
(* configures nothing of that configuration.                               *)
GenerateConf(s) ==
  /\ configured_instances' = configured_instances \cup Unconfigured(s)
  /\ confGenerated' = [confGenerated EXCEPT ![s] = @ \cup Unconfigured(s) \cup round[s]]
  /\ asked' = IF Bare(s) = {} /\ manager'[s] = "up"
              THEN [asked EXCEPT ![s] = @ \cup Unconfigured(s)]
              ELSE asked

(* The KeyError of the first configuration ends the process.               *)
InvokeManager(s) ==
  /\ pc[s] = "launch" /\ todo[s] = {} /\ ~invoked[s]
  /\ manager' = [manager EXCEPT ![s] = IF Bare(s) = {} THEN "up" ELSE "dead"]
  /\ GenerateConf(s)
  /\ invoked' = [invoked EXCEPT ![s] = TRUE]
  /\ Goto(s, "invoking")
  /\ UNCHANGED <<template_id, independent_vdus, lfevent_details, client, roundVars, deployed,
                 configured, rowVars, machines>>

(* With the manager's process, scripts and ports behind it,                *)
(* _resolve_dependency waits for whatever independent_vdus is now.         *)
WaitIndependent(s) ==
  /\ pc[s] = "invoking" /\ Goto(s, "wait")
  /\ waiting' = [waiting EXCEPT ![s] = independent_vdus]
  /\ client' = s
  /\ UNCHANGED <<template_id, independent_vdus, lfevent_details, configured_instances, todo,
                 at, round, bookVars, rowVars, outVars>>

SendConfigure(s) ==
  /\ pc[s] = "launch" /\ todo[s] = {} /\ invoked[s]
  /\ UNCHANGED manager /\ GenerateConf(s)
  /\ waiting' = [waiting EXCEPT ![s] = round[s]]
  /\ Goto(s, "wait")
  /\ UNCHANGED <<template_id, independent_vdus, lfevent_details, client, todo, at, round,
                 deployed, invoked, configured, rowVars, machines>>

(* Mutant: one of the VDUs is enough.                                      *)
WaitDoneAny(s) ==
  /\ pc[s] = "wait" /\ waiting[s] \cap configured[s] # {}
  /\ Goto(s, "resolve")
  /\ UNCHANGED <<attrVars, roundVars, bookVars, rowVars, outVars>>

WaitDone(s) ==
  /\ pc[s] = "wait" /\ waiting[s] \subseteq configured[s]
  /\ Goto(s, "resolve")
  /\ UNCHANGED <<attrVars, roundVars, bookVars, rowVars, outVars>>

(* Mutant: all VDUs that are left are taken.                               *)
ReadyLeft(s) == VdusIn(s) \ configured[s]

Ready(s) == {v \in VdusIn(s) \ configured[s] : DepsIn(s)[v] \subseteq configured[s]}

ResolveRound(s) ==
  /\ pc[s] = "resolve" /\ Cardinality(configured[s]) # Cardinality(VdusIn(s))
  /\ todo' = [todo EXCEPT ![s] = Ready(s)] /\ round' = [round EXCEPT ![s] = Ready(s)]
  /\ Goto(s, "launch")
  /\ UNCHANGED <<attrVars, at, waiting, bookVars, rowVars, outVars>>

(* Mutant: the loop ends one VDU early.                                    *)
ResolveDoneEarly(s) ==
  /\ pc[s] = "resolve" /\ Cardinality(configured[s]) + 1 >= Cardinality(VdusIn(s))
  /\ Goto(s, "details")
  /\ UNCHANGED <<attrVars, roundVars, bookVars, rowVars, outVars>>

ResolveDone(s) ==
  /\ pc[s] = "resolve" /\ Cardinality(configured[s]) = Cardinality(VdusIn(s))
  /\ Goto(s, "details")
  /\ UNCHANGED <<attrVars, roundVars, bookVars, rowVars, outVars>>

(* ns_postConfigure sets independent_vdus too, and goes through its own    *)
(* list.                                                                   *)
PostConfigure(s) ==
  /\ pc[s] = "details" /\ Goto(s, "post")
  /\ independent_vdus' = Independent(s)
  /\ client' = s
  /\ UNCHANGED <<template_id, lfevent_details, configured_instances, roundVars, bookVars,
                 rowVars, outVars>>

DeployDone(s) ==
  /\ pc[s] = "post" /\ Goto(s, "done")
  /\ status' = [status EXCEPT ![s] = "ACTIVE"]
  /\ client' \in {client, NoToken}
  /\ UNCHANGED <<template_id, independent_vdus, lfevent_details, configured_instances,
                 roundVars, bookVars, parsed, rowTemplate, rowEvents, outVars>>

(* build_acknowledge_list. The context of the manager's cast has no token, *)
(* and the clients made from it stay in the plugin.                        *)
BuildAcknowledgeList(s, v) ==
  /\ v \in asked[s]
  /\ asked' = [asked EXCEPT ![s] = @ \ {v}]
  /\ configured' = [configured EXCEPT ![s] = @ \cup {v}]
  /\ client' = NoToken
  /\ UNCHANGED <<template_id, independent_vdus, lfevent_details, configured_instances, pc,
                 roundVars, deployed, confGenerated, invoked, rowVars, machines, manager>>

-----------------------------------------------------------------------------
Deploying(s) ==
  \/ \E v \in VdusIn(s) : ParseVnfd(s, v) \/ Launch(s, v)
  \/ CreateVnfds(s) \/ Booted(s) \/ BootedUnseen(s)
  \/ InvokeManager(s) \/ WaitIndependent(s) \/ SendConfigure(s)
  \/ WaitDone(s) \/ ResolveRound(s) \/ ResolveDone(s)
  \/ PostConfigure(s) \/ DeployDone(s)

UnderWay == {s \in Service : pc[s] \notin {"idle", "done", "failed"}}

Step(A) == A /\ overlapped' = (overlapped \/ Cardinality(UnderWay') > 1)

Next ==
  \E s \in Service :
    \/ Step(CreateService(s))
    \/ Step(Deploying(s))
    \/ \E v \in Vdu : Step(BuildAcknowledgeList(s, v))

Spec == Init /\ [][Next]_vars

(* Green threads run when they can, and nova and the managers answer.      *)
FairSpec ==
  /\ Spec
  /\ \A s \in Service : WF_vars(Step(Deploying(s)))
  /\ \A s \in Service, v \in Vdu : WF_vars(Step(BuildAcknowledgeList(s, v)))

-----------------------------------------------------------------------------
(* Whatever services are brought up beside it, the machines of a VDU are   *)
(* created only when what it depends on in its own service is configured:  *)
(* a wait for the wrong VDUs changes when a round begins, not its guard.   *)
OrderKept ==
  \A s \in Service, v \in Vdu : machines[s][v] # << >> /\ v \in VdusIn(s) =>
    DepsIn(s)[v] \subseteq configured[s]

(* The row of a service has the events of all its VNFDs, though another    *)
(* _ns_dict_init may empty lfevent_details between any two of them.        *)
EventsComplete ==
  \A s \in Service : status[s] # None => rowEvents[s] = VdusIn(s)

(* ACTIVE means that all VDUs of the service are configured.               *)
ActiveMeansConfigured ==
  \A s \in Service : status[s] = "ACTIVE" => configured[s] = VdusIn(s)

(* As long as no two services are brought up at a time, a service is       *)
(* entered with its own template, and each of its VDUs is booted from that *)
(* template, once.                                                         *)
OwnTemplate ==
  ~overlapped =>
    \A s \in Service :
      /\ rowTemplate[s] \in {None, TemplateOf[s]}
      /\ \A v \in Vdu : machines[s][v] \in {<< >>, <<TemplateOf[s]>>}

(* Whatever overlaps, the lists of a service have VDUs of its own, of      *)
(* which those to be launched may be; a service that is parsed has a row;  *)
(* and past the loop of _resolve_dependency all its VDUs are configured.   *)
ListsSound ==
  \A s \in Service :
    /\ todo[s] \cup deployed[s] \cup asked[s] \cup configured[s] \subseteq VdusIn(s)
    /\ \A v \in todo[s] : DepsIn(s)[v] \subseteq configured[s]
    /\ pc[s] # "idle" => template_id \in Template
    /\ pc[s] \notin {"idle", "parse"} => status[s] # None
    /\ pc[s] = "booting" => at[s] \in VdusIn(s)
    /\ pc[s] \in {"details", "post"} => configured[s] = VdusIn(s)

Launched(s) == {v \in Vdu : machines[s][v] # << >>}

(* A service that is alone waits for the round it has launched, so that no *)
(* VDU is left over for the next.                                          *)
RoundSound(s) ==
  /\ pc[s] \in {"idle", "parse", "start"} => Launched(s) = {}
  /\ pc[s] \in {"launch", "booting", "invoking", "wait"} =>
       Launched(s) \subseteq (configured[s] \cup round[s]) \ todo[s]
  /\ pc[s] \in {"launch", "booting"} => todo[s] \subseteq round[s]
  /\ pc[s] \in {"launch", "booting"} => invoked[s] \/ round[s] = independent_vdus
  /\ pc[s] \in {"invoking", "wait", "resolve"} => invoked[s]
  /\ pc[s] = "invoking" => round[s] = independent_vdus
  /\ pc[s] = "wait" => waiting[s] = round[s]
  /\ pc[s] = "resolve" => Launched(s) \subseteq configured[s]

(* As long as no two services are brought up at a time, the attributes are *)
(* those of the one that is.                                               *)
LoneService ==
  /\ IsFiniteSet(UnderWay)
  /\ ~overlapped =>
       /\ \A s, r \in UnderWay : s = r
       /\ \A s \in UnderWay : template_id = TemplateOf[s]
       /\ \A s \in Service : RoundSound(s)

(* What the row of a service says is so, whoever overwrites the plugin's   *)
(* attributes meanwhile, and what makes it so: the invariant of the        *)
(* plugin, which every step keeps.                                         *)
PluginInv ==
  /\ TypeOK /\ ListsSound /\ LoneService
  /\ EventsComplete /\ ActiveMeansConfigured /\ OrderKept /\ OwnTemplate

(* plugin.py:271: "This is method is used to bring up a network service".  *)
(* A service that is created becomes ACTIVE: nothing fails in this module. *)
BroughtUp == \A s \in Service : pc[s] = "parse" ~> status[s] = "ACTIVE"

(* It does, as long as no two services are brought up at a time.           *)
BroughtUpAlone == [](~overlapped) => BroughtUp
=============================================================================

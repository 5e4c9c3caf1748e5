----------------------- MODULE ServiceDeletion_proofs -----------------------
(***************************************************************************)
(* Proofs about ServiceDeletion, for any number of services, VDUs,         *)
(* machines and delete requests, whatever they do to one another.          *)
(***************************************************************************)
EXTENDS ServiceDeletion, TLAPS

USE DeletionAssumption

(* What the global holds is of services somebody asked to delete,          *)
DictAsked ==
  /\ dict.host \subseteq Asked
  /\ \A k \in DOMAIN dict.vdus : dict.vdus[k].machines \subseteq AskedMachines

(* and so is what a request has still to delete.                           *)
TodoAsked == \A r \in Request : todo[r] \subseteq AskedMachines

DInv == TypeOK /\ DictAsked /\ TodoAsked

(* The machines of a VDU are machines, and the rows of a service's VDUs    *)
(* are such rows.                                                          *)
LEMMA RowTypes ==
  /\ \A v \in Vdu : MachinesOf(v) \subseteq Machine
  /\ \A s \in Service : Vdus[s] \in Seq(Vdu) /\ Range(Vdus[s]) \subseteq Vdu
  /\ \A s \in Service : \A k \in DOMAIN Vdus[s] : Vdus[s][k] \in Vdu
BY DEF MachinesOf, Range

(* Assigning to one request's rest keeps the type of todo, and the parts   *)
(* of the global make a global.                                            *)
LEMMA TodoType ==
  ASSUME todo \in [Request -> SUBSET Machine], NEW r \in Request,
         NEW S \in SUBSET Machine
  PROVE  [todo EXCEPT ![r] = S] \in [Request -> SUBSET Machine]
OBVIOUS

LEMMA DictType ==
  ASSUME NEW S \in SUBSET Service, NEW H \in SUBSET Service, NEW V \in Seq(VduRow)
  PROVE  [svc |-> S, host |-> H, vdus |-> V]
           \in [svc : SUBSET Service, host : SUBSET Service, vdus : Seq(VduRow)]
OBVIOUS

(* The steps of a deployment keep the types.                               *)
LEMMA DeployingTypes ==
  ASSUME TypeOK, NEW s \in Service, Deploying(s) PROVE TypeOK'
<1> USE DEF TypeOK, dbVars, deployVars, loopVars
<1>1. CASE CreateService(s)
  BY <1>1 DEF CreateService
<1>2. ASSUME NEW v \in Vdu, CreateServers(s, v) PROVE TypeOK'
  <2>m. MachinesOf(v) \subseteq Machine
    BY RowTypes
  <2>1. up' \subseteq Machine /\ booted' \subseteq Vdu
    <3>1. (up' = up \/ up' = up \cup MachinesOf(v))
          /\ (booted' = booted \/ booted' = booted \cup {v})
      <4> HIDE DEF TypeOK
      <4> QED
        BY <1>2 DEF CreateServers
    <3>2. up \subseteq Machine /\ booted \subseteq Vdu
      OBVIOUS
    <3> HIDE DEF TypeOK
    <3> QED
      BY <2>m, <3>1, <3>2
  <2>2. deploy' \in [Service -> {"none", "booting", "creating", "over"}]
    <3>1. \E l \in {"over", "creating"} : deploy' = [deploy EXCEPT ![s] = l]
      BY <1>2 DEF CreateServers
    <3> QED
      BY <3>1
  <2> QED
    BY <1>2, <2>1, <2>2 DEF CreateServers
<1>3. CASE RecordInstances(s)
  <2>1. UNION {MachinesOf(v) : v \in Range(Vdus[s]) \cap booted} \subseteq Machine
    BY RowTypes
  <2> QED
    BY <1>3, <2>1 DEF RecordInstances
<1>4. CASE InvokeManager(s)
  BY <1>4 DEF InvokeManager
<1>5. CASE InstanceError(s) \/ ApiFailure(s) \/ DeployDone(s)
  <2>1. row' \in [Service -> {"none", "PENDING", "ACTIVE", "ERROR", "DELETING"}]
    BY <1>5 DEF InstanceError, ApiFailure, DeployDone
  <2>2. deploy' \in [Service -> {"none", "booting", "creating", "over"}]
    BY <1>5 DEF InstanceError, ApiFailure, DeployDone
  <2>3. UNCHANGED <<recorded, up, mgr, booted, invoked, dict, pc, target, loopVars>>
    BY <1>5 DEF InstanceError, ApiFailure, DeployDone
  <2> QED
    BY <2>1, <2>2, <2>3
<1> QED
  BY <1>1, <1>2, <1>3, <1>4, <1>5 DEF Deploying

(* A request fills the global with rows.                                   *)
LEMMA RowsAre ==
  ASSUME NEW s \in Service
  PROVE  [k \in DOMAIN Vdus[s] |->
            [vdu |-> Vdus[s][k], machines |-> recorded \cap MachinesOf(Vdus[s][k])]]
           \in Seq(VduRow)
<1> DEFINE row1(v) == [vdu |-> v, machines |-> recorded \cap MachinesOf(v)]
<1>1. \A v \in Vdu : row1(v) \in VduRow
  BY RowTypes DEF VduRow
<1>2. Vdus[s] \in Seq(Vdu)
  BY RowTypes
<1>3. /\ Len(Vdus[s]) \in Nat /\ DOMAIN Vdus[s] = 1 .. Len(Vdus[s])
      /\ \A k \in 1 .. Len(Vdus[s]) : row1(Vdus[s][k]) \in VduRow
  BY <1>1, <1>2
<1> HIDE DEF row1
<1>4. [k \in 1 .. Len(Vdus[s]) |-> row1(Vdus[s][k])] \in [1 .. Len(Vdus[s]) -> VduRow]
  BY <1>3
<1>5. [k \in 1 .. Len(Vdus[s]) |-> row1(Vdus[s][k])] \in Seq(VduRow)
  BY <1>3, <1>4
<1> QED
  BY <1>3, <1>5 DEF row1

(* The steps of a deletion keep the types.                                 *)
LEMMA DeletingTypes ==
  ASSUME TypeOK, NEW r \in Request, DeleteService(r) \/ Deleting(r) PROVE TypeOK'
<1> USE DEF TypeOK, dbVars, deployVars, loopVars, Goto
<1>s. target[r] \in Service
  OBVIOUS
<1>1. CASE DeleteService(r)
  <2>1. dict' \in [svc : SUBSET Service, host : SUBSET Service, vdus : Seq(VduRow)]
    <3> DEFINE rows == [k \in DOMAIN Vdus[target[r]] |->
                 [vdu |-> Vdus[target[r]][k],
                  machines |-> recorded \cap MachinesOf(Vdus[target[r]][k])]]
    <3>1. \/ dict' = [svc |-> {}, host |-> {}, vdus |-> dict.vdus]
          \/ dict' = [svc |-> {target[r]},
                       host |-> {target[r]} \cap invoked \cap Remote, vdus |-> rows]
      BY <1>1 DEF DeleteService
    <3>2. rows \in Seq(VduRow) /\ dict.vdus \in Seq(VduRow)
      BY <1>s, RowsAre
    <3> HIDE DEF rows
    <3>3. {target[r]} \in SUBSET Service
          /\ {target[r]} \cap invoked \cap Remote \in SUBSET Service
      BY <1>s
    <3> HIDE DEF TypeOK
    <3> QED
      BY <3>1, <3>2, <3>3, DictType
  <2> QED
    BY <1>1, <2>1 DEF DeleteService
<1>2. CASE MarkDeleting(r) \/ DeleteVnfm(r) \/ VdusDeleted(r) \/ DeleteNetwork(r)
  BY <1>2 DEF MarkDeleting, DeleteVnfm, VdusDeleted, DeleteNetwork
<1>3. CASE ListVdus(r)
  <2>1. Len(dict.vdus) \in Nat
    OBVIOUS
  <2> QED
    BY <1>3, <2>1 DEF ListVdus
<1>4. CASE NextVdu(r)
  <2>1. ASSUME idx[r] < Len(dict.vdus)
        PROVE  dict.vdus[idx[r] + 1].machines \subseteq Machine
    <3>1. dict.vdus \in Seq(VduRow) /\ idx[r] + 1 \in 1 .. Len(dict.vdus)
      BY <2>1
    <3>2. dict.vdus[idx[r] + 1] \in VduRow
      BY <3>1
    <3> QED
      BY <3>2 DEF VduRow
  <2>t. todo \in [Request -> SUBSET Machine] /\ idx \in [Request -> Nat]
    OBVIOUS
  <2> HIDE DEF TypeOK
  <2>2. idx' \in [Request -> Nat]
    <3>1. idx' = idx \/ idx' = [idx EXCEPT ![r] = idx[r] + 1]
      BY <1>4 DEF NextVdu
    <3> QED
      BY <2>t, <3>1
  <2>3. todo' \in [Request -> SUBSET Machine]
    <3>1. CASE idx[r] < Len(dict.vdus)
      <4>1. todo' = [todo EXCEPT ![r] = dict.vdus[idx[r] + 1].machines]
        BY <1>4, <3>1 DEF NextVdu
      <4> QED
        BY <2>t, <2>1, <3>1, <4>1, TodoType
    <3>2. CASE ~(idx[r] < Len(dict.vdus))
      BY <1>4, <2>t, <3>2 DEF NextVdu
    <3> QED
      BY <3>1, <3>2
  <2> QED
    BY <1>4, <2>2, <2>3 DEF NextVdu, TypeOK
<1>5. ASSUME NEW m \in todo[r], DeleteInstance(r, m) PROVE TypeOK'
  <2>1. todo[r] \subseteq Machine
    OBVIOUS
  <2>2. todo' \in [Request -> SUBSET Machine] /\ up' \subseteq Machine
    <3>1. \/ todo' = [todo EXCEPT ![r] = todo[r] \ {m}]
          \/ todo' = [todo EXCEPT ![r] = {}]
      BY <1>5 DEF DeleteInstance
    <3>2. up' = up \ {m} \/ up' = up
      BY <1>5 DEF DeleteInstance
    <3>3. todo[r] \ {m} \in SUBSET Machine /\ {} \in SUBSET Machine
      BY <2>1
    <3>4. todo \in [Request -> SUBSET Machine] /\ up \subseteq Machine
      OBVIOUS
    <3> HIDE DEF TypeOK
    <3>5. todo' \in [Request -> SUBSET Machine]
      BY <3>1, <3>3, <3>4, TodoType
    <3> QED
      BY <3>2, <3>4, <3>5
  <2> QED
    BY <1>5, <2>2 DEF DeleteInstance
<1>6. CASE DeleteDbDict(r)
  BY <1>6, <1>s DEF DeleteDbDict
<1> QED
  BY <1>1, <1>2, <1>3, <1>4, <1>5, <1>6 DEF Deleting

(* Nobody takes back having asked.                                         *)
LEMMA AskedGrows == TypeOK /\ Next => Asked \subseteq Asked'
<1> SUFFICES ASSUME TypeOK, Next PROVE Asked \subseteq Asked'
  OBVIOUS
<1>1. target' = target
  BY DEF Next, Deploying, CreateService, CreateServers, RecordInstances,
     InvokeManager, InstanceError, ApiFailure, DeployDone, DeleteService, Deleting,
     MarkDeleting, DeleteVnfm, ListVdus, NextVdu, DeleteInstance, VdusDeleted,
     DeleteNetwork, DeleteDbDict
<1>2. \A r \in Request : pc[r] # "idle" => pc'[r] # "idle"
  <2>1. ASSUME NEW s \in Service, Deploying(s) PROVE pc' = pc
    BY <2>1 DEF Deploying, CreateService, CreateServers, RecordInstances,
       InvokeManager, InstanceError, ApiFailure, DeployDone
  <2>2. ASSUME NEW r \in Request, DeleteService(r) \/ Deleting(r)
        PROVE  pc' = pc \/ \E l \in {"absent", "puppet", "spawned", "listing", "vdus",
                  "network", "rows", "over", "failed"} : pc' = [pc EXCEPT ![r] = l]
    BY <2>2 DEF DeleteService, Deleting, MarkDeleting, DeleteVnfm, ListVdus, NextVdu,
       DeleteInstance, VdusDeleted, DeleteNetwork, DeleteDbDict, Goto
  <2> QED
    BY <2>1, <2>2 DEF Next, TypeOK
<1> QED
  BY <1>1, <1>2 DEF Asked

LEMMA StepTypes == TypeOK /\ [Next]_vars => TypeOK'
<1>1. CASE UNCHANGED vars
  BY <1>1 DEF TypeOK, vars
<1>2. CASE Next
  BY <1>2, DeployingTypes, DeletingTypes DEF Next
<1> QED
  BY <1>1, <1>2

(* DInv holds at first and is kept: what enters the global is of the       *)
(* request's own service, and the requests only take from the global.      *)
LEMMA InitInv == Init => DInv
BY DEF Init, DInv, TypeOK, DictAsked, TodoAsked, VduRow

LEMMA FrameInv ==
  ASSUME DInv, TypeOK', Asked \subseteq Asked', UNCHANGED <<dict, todo>>
  PROVE  DInv'
<1>1. AskedMachines \subseteq AskedMachines'
  BY DEF AskedMachines
<1> QED
  BY <1>1 DEF DInv, DictAsked, TodoAsked

LEMMA StepInv == DInv /\ [Next]_vars => DInv'
<1> SUFFICES ASSUME DInv, [Next]_vars PROVE DInv'
  OBVIOUS
<1>t. TypeOK /\ TypeOK'
  BY StepTypes DEF DInv
<1>a. Asked \subseteq Asked'
  <2>1. CASE UNCHANGED vars
    BY <2>1 DEF vars, Asked
  <2> QED
    BY <2>1, <1>t, AskedGrows
<1>m. AskedMachines \subseteq AskedMachines'
  BY <1>a DEF AskedMachines
<1>1. CASE UNCHANGED <<dict, todo>>
  BY <1>1, <1>t, <1>a, FrameInv
<1>2. ASSUME NEW r \in Request, DeleteService(r) PROVE DInv'
  <2>1. target[r] \in Service /\ target[r] \in Asked'
    <3>1. target' = target /\ pc'[r] # "idle"
      BY <1>2, <1>t DEF DeleteService, Goto, TypeOK
    <3> QED
      BY <1>t, <3>1 DEF Asked, TypeOK
  <2>2. ASSUME NEW k \in DOMAIN Vdus[target[r]]
        PROVE  MachinesOf(Vdus[target[r]][k]) \subseteq AskedMachines'
    <3>1. MachinesOf(Vdus[target[r]][k]) \subseteq MachinesIn(target[r])
      BY <2>2 DEF MachinesOf, MachinesIn, Range
    <3> QED
      BY <2>1, <3>1 DEF AskedMachines
  <2>3. ASSUME dict' = [svc |-> {}, host |-> {}, vdus |-> dict.vdus]
        PROVE  DictAsked'
    BY <1>m, <2>3 DEF DInv, DictAsked
  <2>4. ASSUME dict' = [svc |-> {target[r]},
                  host |-> {target[r]} \cap invoked \cap Remote,
                  vdus |-> [k \in DOMAIN Vdus[target[r]] |->
                     [vdu |-> Vdus[target[r]][k],
                      machines |-> recorded \cap MachinesOf(Vdus[target[r]][k])]]]
        PROVE  DictAsked'
    <3>1. dict'.host \subseteq {target[r]}
      BY <2>4
    <3>2. /\ DOMAIN dict'.vdus = DOMAIN Vdus[target[r]]
          /\ \A k \in DOMAIN dict'.vdus :
               dict'.vdus[k].machines = recorded \cap MachinesOf(Vdus[target[r]][k])
      BY <2>4
    <3> QED
      BY <2>1, <2>2, <3>1, <3>2 DEF DictAsked
  <2>5. DictAsked'
    BY <1>2, <2>3, <2>4 DEF DeleteService
  <2>6. todo' = todo
    BY <1>2 DEF DeleteService, loopVars
  <2> QED
    BY <1>t, <1>m, <2>5, <2>6 DEF DInv, TodoAsked
<1>3. ASSUME NEW r \in Request, NextVdu(r) PROVE DInv'
  <2>1. dict' = dict /\ todo \in [Request -> SUBSET Machine]
        /\ idx[r] \in Nat /\ dict.vdus \in Seq(VduRow)
    BY <1>3, <1>t DEF NextVdu, TypeOK
  <2>2. todo' = todo \/ \E S \in SUBSET AskedMachines : todo' = [todo EXCEPT ![r] = S]
    <3>1. CASE idx[r] < Len(dict.vdus)
      <4>1. idx[r] + 1 \in DOMAIN dict.vdus
        BY <2>1, <3>1
      <4>2. dict.vdus[idx[r] + 1].machines \subseteq AskedMachines
        BY <4>1 DEF DInv, DictAsked
      <4> QED
        BY <1>3, <3>1, <4>2 DEF NextVdu
    <3>2. CASE ~(idx[r] < Len(dict.vdus))
      BY <1>3, <3>2 DEF NextVdu
    <3> QED
      BY <3>1, <3>2
  <2> QED
    BY <1>t, <1>a, <1>m, <2>1, <2>2 DEF DInv, DictAsked, TodoAsked
<1>4. ASSUME NEW r \in Request, NEW m \in todo[r], DeleteInstance(r, m) PROVE DInv'
  <2>1. dict' = dict /\ todo \in [Request -> SUBSET Machine]
    BY <1>4, <1>t DEF DeleteInstance, TypeOK
  <2>2. todo[r] \subseteq AskedMachines
    BY DEF DInv, TodoAsked
  <2>3. \E S \in SUBSET AskedMachines : todo' = [todo EXCEPT ![r] = S]
    BY <1>4, <2>2 DEF DeleteInstance
  <2> QED
    BY <1>t, <1>a, <1>m, <2>1, <2>3 DEF DInv, DictAsked, TodoAsked
<1>5. ASSUME NEW s \in Service, Deploying(s) PROVE UNCHANGED <<dict, todo>>
  BY <1>5 DEF Deploying, CreateService, CreateServers, RecordInstances,
     InvokeManager, InstanceError, ApiFailure, DeployDone, loopVars
<1>6. ASSUME NEW r \in Request,
             \/ MarkDeleting(r) \/ DeleteVnfm(r) \/ ListVdus(r) \/ VdusDeleted(r)
             \/ DeleteNetwork(r) \/ DeleteDbDict(r)
      PROVE  UNCHANGED <<dict, todo>>
  BY <1>6 DEF MarkDeleting, DeleteVnfm, ListVdus, VdusDeleted, DeleteNetwork,
     DeleteDbDict, loopVars
<1> QED
  BY <1>1, <1>2, <1>3, <1>4, <1>5, <1>6 DEF Next, Deleting, vars

-----------------------------------------------------------------------------
(* TypeOK holds in every state.                                            *)
THEOREM TypeCorrect == Spec => []TypeOK
<1>1. Init => TypeOK
  BY InitInv DEF DInv
<1> QED
  BY <1>1, StepTypes, PTL DEF Spec

(* A step takes machines and managers only from services asked for: only   *)
(* DeleteInstance takes a machine, one of a request's rest, and only       *)
(* DeleteVnfm a manager, the one the global names.                         *)
LEMMA StepAsked ==
  DInv /\ [Next]_vars =>
    [/\ up \ up' \subseteq AskedMachines
     /\ mgr \ mgr' \subseteq Asked]_vars
<1> SUFFICES ASSUME DInv, Next
             PROVE  up \ up' \subseteq AskedMachines /\ mgr \ mgr' \subseteq Asked
  OBVIOUS
<1>1. ASSUME NEW s \in Service, Deploying(s)
      PROVE  up \subseteq up' /\ mgr \subseteq mgr'
  BY <1>1 DEF Deploying, CreateService, CreateServers, RecordInstances,
     InvokeManager, InstanceError, ApiFailure, DeployDone
<1>2. ASSUME NEW r \in Request,
             \/ DeleteService(r) \/ MarkDeleting(r) \/ ListVdus(r) \/ NextVdu(r)
             \/ VdusDeleted(r) \/ DeleteNetwork(r) \/ DeleteDbDict(r)
      PROVE  up' = up /\ mgr' = mgr
  BY <1>2 DEF DeleteService, MarkDeleting, ListVdus, NextVdu, VdusDeleted,
     DeleteNetwork, DeleteDbDict
<1>3. ASSUME NEW r \in Request, DeleteVnfm(r)
      PROVE  up' = up /\ mgr \ mgr' \subseteq Asked
  BY <1>3 DEF DeleteVnfm, DInv, DictAsked
<1>4. ASSUME NEW r \in Request, NEW m \in todo[r], DeleteInstance(r, m)
      PROVE  up \ up' \subseteq AskedMachines /\ mgr' = mgr
  BY <1>4 DEF DeleteInstance, DInv, TodoAsked
<1> QED
  BY <1>1, <1>2, <1>3, <1>4 DEF Next, Deleting

(* Whatever deletions and deployments do to one another through the global *)
(* service_db_dict, machines and managers are only taken from services     *)
(* somebody asked to delete.                                               *)
THEOREM OnlyAskedLoses == Spec => OnlyAskedLose
<1>1. Spec => []DInv
  BY InitInv, StepInv, PTL DEF Spec
<1> QED
  BY <1>1, StepAsked, PTL DEF Spec, OnlyAskedLose

-----------------------------------------------------------------------------
(* Deletions one at a time *)

(* A machine is of one VDU, and a VDU of one service.                      *)
LEMMA MachinesApart ==
  /\ \A s, t \in Service : s # t => MachinesIn(s) \cap MachinesIn(t) = {}
  /\ \A s \in Service : \A m \in MachinesIn(s) : SvcOf(VduOf[m]) = {s}
  /\ \A s \in Service : \A k, l \in DOMAIN Vdus[s] :
       k # l => MachinesOf(Vdus[s][k]) \cap MachinesOf(Vdus[s][l]) = {}
<1>1. \A s, t \in Service : Range(Vdus[s]) \cap Range(Vdus[t]) # {} => s = t
  OBVIOUS
<1>2. \A s, t \in Service : s # t => MachinesIn(s) \cap MachinesIn(t) = {}
  BY <1>1 DEF MachinesIn
<1>3. \A s \in Service : \A m \in MachinesIn(s) : SvcOf(VduOf[m]) = {s}
  BY <1>1 DEF MachinesIn, SvcOf
<1>4. \A s \in Service : \A k, l \in DOMAIN Vdus[s] :
        k # l => MachinesOf(Vdus[s][k]) \cap MachinesOf(Vdus[s][l]) = {}
  BY DEF IsInjective, MachinesOf
<1> QED
  BY <1>2, <1>3, <1>4

LEMMA MachinesAre ==
  ASSUME NEW s \in Service
  PROVE  /\ MachinesIn(s) = UNION {MachinesOf(Vdus[s][k]) : k \in DOMAIN Vdus[s]}
         /\ \A v \in Range(Vdus[s]) : MachinesOf(v) \subseteq MachinesIn(s)
         /\ BootedIn(s) \subseteq MachinesIn(s)
BY DEF MachinesIn, MachinesOf, Range, BootedIn

(* What bringing up a service does to another one: nothing.                *)
LEMMA OthersDeployed ==
  ASSUME TypeOK, NEW s \in Service, Deploying(s), NEW t \in Service, t # s, ServiceSound(t)
  PROVE  ServiceSound(t)'
<1>1. /\ deploy'[t] = deploy[t] /\ row'[t] = row[t] /\ UNCHANGED <<pc, target>>
  BY DEF Deploying, CreateService, CreateServers, RecordInstances, InvokeManager,
         InstanceError, ApiFailure, DeployDone, dbVars, TypeOK
<1>2. /\ up' = up \/ \E v \in Range(Vdus[s]) : up' = up \cup MachinesOf(v)
      /\ booted' = booted \/ \E v \in Range(Vdus[s]) : booted' = booted \cup {v}
      /\ recorded' = recorded \/ recorded' = recorded \cup BootedIn(s)
  BY DEF Deploying, CreateService, CreateServers, RecordInstances, InvokeManager,
         InstanceError, ApiFailure, DeployDone, dbVars, BootedIn
<1>3. /\ \A v \in Range(Vdus[s]) : v \notin Range(Vdus[t]) /\ MachinesOf(v) \cap MachinesIn(t) = {}
      /\ BootedIn(s) \cap MachinesIn(t) = {}
  BY MachinesApart, MachinesAre
<1>4. /\ up' \cap MachinesIn(t) = up \cap MachinesIn(t) /\ up \subseteq up'
      /\ recorded' \cap MachinesIn(t) = recorded \cap MachinesIn(t)
  BY <1>2, <1>3
<1>5. BootedIn(t)' = BootedIn(t)
  <2>1. Range(Vdus[t]) \cap booted' = Range(Vdus[t]) \cap booted
    BY <1>2, <1>3
  <2> QED
    BY <2>1 DEF BootedIn
<1>6. Active' = Active
  BY <1>1 DEF Active
<1> QED
  BY <1>1, <1>4, <1>5, <1>6 DEF ServiceSound

(* While nothing raises, the rows list what is created for a service.      *)
LEMMA DeployedSound ==
  ASSUME TypeOK, "api" \notin Faults, NEW s \in Service, Deploying(s), ServiceSound(s)
  PROVE  ServiceSound(s)'
<1>t. /\ deploy \in [Service -> {"none", "booting", "creating", "over"}]
      /\ row \in [Service -> {"none", "PENDING", "ACTIVE", "ERROR", "DELETING"}]
  BY DEF TypeOK
<1> USE DEF dbVars
<1>a. Active' = Active /\ target' = target
  BY DEF Deploying, CreateService, CreateServers, RecordInstances, InvokeManager,
         InstanceError, ApiFailure, DeployDone, Active
<1>b. ASSUME UNCHANGED <<up, recorded, booted>>, row'[s] # "none",
             deploy[s] # "none", row[s] # "none", deploy'[s] # "none",
             deploy'[s] = "over" \/ deploy'[s] = deploy[s], deploy[s] # "creating"
      PROVE  ServiceSound(s)'
  <2>1. BootedIn(s)' = BootedIn(s)
    BY <1>b DEF BootedIn
  <2> QED
    BY <1>a, <1>b, <1>t, <2>1 DEF ServiceSound
<1>1. CASE CreateService(s)
  <2>1. /\ deploy[s] = "none" /\ row'[s] = "PENDING" /\ deploy'[s] = "booting"
        /\ UNCHANGED <<recorded, up, booted>>
    BY <1>1, <1>t DEF CreateService
  <2>2. BootedIn(s)' = BootedIn(s) /\ BootedIn(s) = {} /\ up \cap MachinesIn(s) = {}
    BY <2>1 DEF BootedIn, ServiceSound
  <2> QED
    BY <1>a, <2>1, <2>2 DEF ServiceSound
<1>2. ASSUME NEW v \in Vdu, CreateServers(s, v) PROVE ServiceSound(s)'
  <2>1. deploy[s] = "booting" /\ v \in Range(Vdus[s]) /\ row[s] # "none"
    BY <1>2 DEF CreateServers, ServiceSound
  <2>2. /\ up' = up \cup MachinesOf(v) /\ booted' = booted \cup {v} /\ deploy'[s] = "creating"
        /\ UNCHANGED <<row, recorded>>
    BY <1>2, <1>t, <2>1 DEF CreateServers
  <2>3. BootedIn(s)' = BootedIn(s) \cup MachinesOf(v)
    BY <2>1, <2>2 DEF BootedIn
  <2> QED
    BY <1>a, <2>1, <2>2, <2>3 DEF ServiceSound
<1>3. CASE RecordInstances(s)
  <2>1. deploy[s] = "creating" /\ row[s] # "none"
    BY <1>3 DEF RecordInstances, ServiceSound
  <2>2. /\ recorded' = recorded \cup BootedIn(s) /\ deploy'[s] = "booting"
        /\ UNCHANGED <<row, up, booted>>
    BY <1>3, <1>t, <2>1 DEF RecordInstances, BootedIn
  <2>3. BootedIn(s)' = BootedIn(s)
    BY <2>2 DEF BootedIn
  <2> QED
    BY <1>a, <2>1, <2>2, <2>3 DEF ServiceSound
<1>4. CASE InvokeManager(s) \/ InstanceError(s) \/ DeployDone(s)
  <2>1. deploy[s] = "booting" /\ row[s] # "none" /\ UNCHANGED <<up, recorded, booted>>
    BY <1>4 DEF InvokeManager, InstanceError, DeployDone, ServiceSound
  <2>2. row'[s] # "none" /\ deploy'[s] \in {"booting", "over"}
    BY <1>4, <1>t, <2>1 DEF InvokeManager, InstanceError, DeployDone
  <2> QED
    BY <1>b, <2>1, <2>2
<1> QED
  BY <1>1, <1>2, <1>3, <1>4 DEF Deploying, ApiFailure

(* Bringing up a service is no concern of the deletion of another.         *)
LEMMA DeletionsStand ==
  ASSUME TypeOK, NEW s \in Service, Deploying(s), NEW r \in Request, DeletionSound(r)
  PROVE  DeletionSound(r)'
<1>1. UNCHANGED <<pc, target, dict, idx, last, todo>>
  BY DEF Deploying, CreateService, CreateServers, RecordInstances, InvokeManager,
         InstanceError, ApiFailure, DeployDone, loopVars
<1>2. deploy[s] # "over"
  BY DEF Deploying, CreateService, CreateServers, RecordInstances, InvokeManager,
         InstanceError, ApiFailure, DeployDone
<1>3. target[r] \in Service
  BY DEF TypeOK
<1>4. Active' = Active /\ \A n : LeftAfter(n)' = LeftAfter(n)
  BY <1>1 DEF Active, LeftAfter
<1>5. CASE deploy[target[r]] # "over"
  <2>1. pc[r] \in {"idle", "absent", "failed"} /\ r \notin Active
    BY <1>5 DEF DeletionSound, Active, TypeOK
  <2> QED
    BY <1>1, <1>4, <2>1 DEF DeletionSound
<1>6. CASE deploy[target[r]] = "over"
  <2>1. target[r] # s
    BY <1>2, <1>6
  <2>2. deploy'[target[r]] = deploy[target[r]]
    BY <1>3, <2>1 DEF Deploying, CreateService, CreateServers, RecordInstances, InvokeManager,
         InstanceError, ApiFailure, DeployDone, TypeOK
  <2>3. up' = up \/ \E v \in Range(Vdus[s]) : up' = up \cup MachinesOf(v)
    BY DEF Deploying, CreateService, CreateServers, RecordInstances, InvokeManager,
           InstanceError, ApiFailure, DeployDone
  <2>4. \A v \in Range(Vdus[s]) : MachinesOf(v) \cap MachinesIn(target[r]) = {}
    BY <1>3, <2>1, MachinesApart, MachinesAre
  <2>5. up' \cap MachinesIn(target[r]) = up \cap MachinesIn(target[r])
    BY <2>3, <2>4
  <2> QED
    BY <1>1, <1>4, <2>2, <2>5 DEF DeletionSound
<1> QED
  BY <1>5, <1>6

(* A request that is made alone fills the global with what is there.       *)
LEMMA RequestSound ==
  ASSUME TypeOK, NEW r \in Request, DeleteService(r), Active = {},
         \A s \in Service : ServiceSound(s), \A q \in Request : DeletionSound(q),
         deploy[target[r]] = "over" \/ r \notin Active'
  PROVE  /\ \A s \in Service : ServiceSound(s)'
         /\ \A q \in Request : DeletionSound(q)'
         /\ Active' \subseteq {r}
<1> DEFINE s == target[r]
           rows == [i \in DOMAIN Vdus[s] |->
                      [vdu |-> Vdus[s][i], machines |-> recorded \cap MachinesOf(Vdus[s][i])]]
<1>1. /\ pc[r] = "idle" /\ s \in Service
      /\ pc \in [Request -> {"idle", "absent", "puppet", "spawned", "listing",
                             "vdus", "network", "rows", "over", "failed"}]
  BY DEF DeleteService, TypeOK
<1>2. UNCHANGED <<row, recorded, up, mgr, deploy, booted, invoked, target, idx, last, todo>>
  BY DEF DeleteService, dbVars, deployVars, loopVars
<1>3. \/ pc' = [pc EXCEPT ![r] = "absent"]
      \/ /\ pc' = [pc EXCEPT ![r] = "puppet"] /\ row[s] # "none"
         /\ dict' = [svc |-> {s}, host |-> {s} \cap invoked \cap Remote, vdus |-> rows]
  BY DEF DeleteService, Goto
<1>4. \A q \in Request : q # r => pc'[q] = pc[q] /\ q \notin Active /\ q \notin Active'
  <2>1. \A q \in Request : q # r => pc'[q] = pc[q]
    BY <1>1, <1>3
  <2> QED
    BY <2>1 DEF Active
<1>5. Active' \subseteq {r}
  BY <1>4 DEF Active
<1>6. ASSUME NEW t \in Service PROVE ServiceSound(t)'
  <2>1. ServiceSound(t) /\ \A q \in Active : target[q] # t
    OBVIOUS
  <2>2. BootedIn(t)' = BootedIn(t)
    BY <1>2 DEF BootedIn
  <2> QED
    BY <1>2, <2>1, <2>2 DEF ServiceSound
<1>7. ASSUME NEW q \in Request, q # r PROVE DeletionSound(q)'
  <2>1. DeletionSound(q) /\ pc[q] \in {"idle", "absent", "over", "failed"}
    BY <1>4, <1>7 DEF Active
  <2> QED
    BY <1>2, <1>4, <1>7, <2>1 DEF DeletionSound
<1>8. CASE pc' = [pc EXCEPT ![r] = "absent"]
  <2>1. pc'[r] = "absent" /\ r \notin Active'
    BY <1>1, <1>8 DEF Active
  <2>2. todo[r] = {}
    BY <1>1 DEF DeletionSound
  <2>3. DeletionSound(r)'
    BY <1>2, <2>1, <2>2 DEF DeletionSound
  <2> QED
    BY <1>5, <1>6, <1>7, <2>3
<1>9. CASE /\ pc' = [pc EXCEPT ![r] = "puppet"] /\ row[s] # "none"
           /\ dict' = [svc |-> {s}, host |-> {s} \cap invoked \cap Remote, vdus |-> rows]
  <2>1. pc'[r] = "puppet" /\ r \in Active' /\ deploy[s] = "over"
    BY <1>1, <1>9 DEF Active
  <2>2. todo[r] = {}
    BY <1>1 DEF DeletionSound
  <2>3. /\ dict'.svc = {s} /\ dict'.vdus = rows
    BY <1>9
  <2>4. /\ DOMAIN rows = DOMAIN Vdus[s] /\ DOMAIN Vdus[s] = 1 .. Len(Vdus[s])
        /\ \A k \in DOMAIN Vdus[s] : rows[k].machines = recorded \cap MachinesOf(Vdus[s][k])
        /\ Vdus[s] \in Seq(Vdu) /\ Len(Vdus[s]) \in Nat
    BY <1>1
  <2>5. Len(rows) = Len(Vdus[s])
    BY <2>4
  <2> HIDE DEF rows
  <2>6. LeftAfter(0)' = recorded \cap MachinesIn(s)
    <3>1. LeftAfter(0)' = UNION {rows[k].machines : k \in 0 + 1 .. Len(rows)}
      BY <2>3 DEF LeftAfter
    <3>2. 0 + 1 .. Len(rows) = DOMAIN Vdus[s]
      BY <2>4, <2>5
    <3>3. UNION {rows[k].machines : k \in DOMAIN Vdus[s]}
            = recorded \cap UNION {MachinesOf(Vdus[s][k]) : k \in DOMAIN Vdus[s]}
      BY <2>4
    <3> QED
      BY <1>1, <3>1, <3>2, <3>3, MachinesAre
  <2>7. up \cap MachinesIn(s) = recorded \cap MachinesIn(s)
    BY <1>1, <1>9, <2>1 DEF ServiceSound
  <2>8. \A k \in DOMAIN dict'.vdus : dict'.vdus[k].machines \subseteq MachinesOf(Vdus[s][k])
    BY <2>3, <2>4
  <2> HIDE DEF s
  <2>9. DeletionSound(r)'
    BY <1>2, <2>1, <2>2, <2>3, <2>5, <2>6, <2>7, <2>8 DEF DeletionSound, s
  <2> QED
    BY <1>5, <1>6, <1>7, <2>9
<1> QED
  BY <1>3, <1>8, <1>9

(* What a deletion does to the other services and requests, when it is the *)
(* only one: nothing, and what it takes are machines of its service.       *)
LEMMA DeletingAlone ==
  ASSUME TypeOK, NEW r \in Request, Deleting(r), \A q \in Active : q = r,
         \A s \in Service : ServiceSound(s), \A q \in Request : DeletionSound(q),
         UNCHANGED <<deploy, booted, target>>, up' \subseteq up,
         up \ up' \subseteq MachinesIn(target[r]),
         recorded' = recorded \/ recorded' = recorded \ MachinesIn(target[r]),
         \A s \in Service : s # target[r] => row'[s] = row[s],
         \A q \in Request : q # r => pc'[q] = pc[q] /\ todo'[q] = todo[q]
  PROVE  /\ \A s \in Service : s # target[r] => ServiceSound(s)'
         /\ \A q \in Request : q # r => DeletionSound(q)'
         /\ \A q \in Active' : q = r
<1>1. target[r] \in Service
  BY DEF TypeOK
<1>2. \A q \in Active' : q = r
  BY DEF Active
<1>3. ASSUME NEW q \in Request, q # r PROVE DeletionSound(q)'
  <2>1. DeletionSound(q) /\ pc'[q] = pc[q] /\ pc[q] \in {"idle", "absent", "over", "failed"}
    BY <1>3 DEF Active, TypeOK
  <2>2. q \notin Active /\ q \notin Active'
    BY <1>2, <1>3
  <2> QED
    BY <1>3, <2>1, <2>2 DEF DeletionSound
<1>4. ASSUME NEW s \in Service, s # target[r] PROVE ServiceSound(s)'
  <2>1. MachinesIn(s) \cap MachinesIn(target[r]) = {}
    BY <1>1, <1>4, MachinesApart
  <2>2. /\ up' \cap MachinesIn(s) = up \cap MachinesIn(s)
        /\ recorded' \cap MachinesIn(s) = recorded \cap MachinesIn(s)
    BY <2>1
  <2>3. BootedIn(s)' = BootedIn(s) /\ BootedIn(s) \subseteq MachinesIn(s)
    BY MachinesAre DEF BootedIn
  <2>4. \A q \in Active : target[q] # s
    BY <1>4
  <2>5. ServiceSound(s) /\ row'[s] = row[s]
    BY <1>4
  <2> QED
    BY <2>2, <2>3, <2>4, <2>5 DEF ServiceSound
<1> QED
  BY <1>2, <1>3, <1>4

(* What is left splits into the machines of the next VDU and the rest.     *)
LEMMA LeftIs ==
  ASSUME TypeOK, NEW s \in Service, Len(dict.vdus) = Len(Vdus[s]),
         \A k \in DOMAIN dict.vdus : dict.vdus[k].machines \subseteq MachinesOf(Vdus[s][k])
  PROVE  /\ \A n \in Nat : n < Len(dict.vdus) =>
              /\ LeftAfter(n) = dict.vdus[n + 1].machines \cup LeftAfter(n + 1)
              /\ dict.vdus[n + 1].machines \cap LeftAfter(n + 1) = {}
              /\ dict.vdus[n + 1].machines \subseteq MachinesIn(s)
         /\ LeftAfter(Len(dict.vdus)) = {}
<1>1. /\ Len(dict.vdus) \in Nat /\ DOMAIN dict.vdus = 1 .. Len(dict.vdus)
      /\ DOMAIN Vdus[s] = 1 .. Len(dict.vdus)
  <2>1. dict.vdus \in Seq(VduRow) /\ Vdus[s] \in Seq(Vdu)
    BY DEF TypeOK
  <2> QED
    BY <2>1
<1>2. ASSUME NEW n \in Nat, n < Len(dict.vdus)
      PROVE  /\ LeftAfter(n) = dict.vdus[n + 1].machines \cup LeftAfter(n + 1)
             /\ dict.vdus[n + 1].machines \cap LeftAfter(n + 1) = {}
             /\ dict.vdus[n + 1].machines \subseteq MachinesIn(s)
  <2>1. /\ n + 1 .. Len(dict.vdus) = {n + 1} \cup (n + 1 + 1 .. Len(dict.vdus))
        /\ n + 1 \in DOMAIN dict.vdus /\ n + 1 \in DOMAIN Vdus[s]
        /\ \A k \in n + 1 + 1 .. Len(dict.vdus) :
             k \in DOMAIN dict.vdus /\ k \in DOMAIN Vdus[s] /\ k # n + 1
    BY <1>1, <1>2
  <2>2. LeftAfter(n) = dict.vdus[n + 1].machines \cup LeftAfter(n + 1)
    BY <2>1 DEF LeftAfter
  <2>3. dict.vdus[n + 1].machines \subseteq MachinesOf(Vdus[s][n + 1])
    BY <2>1
  <2>4. \A k \in n + 1 + 1 .. Len(dict.vdus) :
          dict.vdus[n + 1].machines \cap dict.vdus[k].machines = {}
    BY <2>1, <2>3, MachinesApart
  <2>5. dict.vdus[n + 1].machines \cap LeftAfter(n + 1) = {}
    BY <2>4 DEF LeftAfter
  <2>6. MachinesOf(Vdus[s][n + 1]) \subseteq MachinesIn(s)
    BY <2>1, MachinesAre
  <2> QED
    BY <2>2, <2>3, <2>5, <2>6
<1>3. LeftAfter(Len(dict.vdus)) = {}
  BY <1>1 DEF LeftAfter
<1> QED
  BY <1>2, <1>3

(* The deletion under way comes to every machine of its service, and finds *)
(* each one there.                                                         *)
LEMMA DeletionKept ==
  ASSUME TypeOK, "api" \notin Faults, NEW r \in Request, Deleting(r), \A q \in Active : q = r,
         \A s \in Service : ServiceSound(s), \A q \in Request : DeletionSound(q)
  PROVE  /\ \A s \in Service : ServiceSound(s)'
         /\ \A q \in Request : DeletionSound(q)'
         /\ \A q \in Active' : q = r
<1> DEFINE s == target[r]
<1>1. /\ s \in Service /\ todo \in [Request -> SUBSET Machine]
      /\ idx \in [Request -> Nat] /\ last \in [Request -> Nat]
      /\ pc \in [Request -> {"idle", "absent", "puppet", "spawned", "listing",
                             "vdus", "network", "rows", "over", "failed"}]
      /\ row \in [Service -> {"none", "PENDING", "ACTIVE", "ERROR", "DELETING"}]
      /\ Len(dict.vdus) \in Nat
  BY DEF TypeOK
<1>2. r \in Active /\ pc[r] \notin {"idle", "absent", "over", "failed"}
  BY DEF Deleting, MarkDeleting, DeleteVnfm, ListVdus, NextVdu, VdusDeleted, DeleteNetwork,
         DeleteDbDict, DeleteInstance, Active, DeletionSound
<1>3. /\ deploy[s] = "over" /\ dict.svc = {s} /\ Len(dict.vdus) = Len(Vdus[s])
      /\ \A k \in DOMAIN dict.vdus : dict.vdus[k].machines \subseteq MachinesOf(Vdus[s][k])
  BY <1>2 DEF DeletionSound
<1>4. UNCHANGED <<deploy, booted, target, dict>>
  BY DEF Deleting, MarkDeleting, DeleteVnfm, ListVdus, NextVdu, VdusDeleted, DeleteNetwork,
         DeleteDbDict, DeleteInstance, deployVars, Goto
<1>5. \A n : LeftAfter(n)' = LeftAfter(n)
  BY <1>4 DEF LeftAfter
<1>6. ServiceSound(s) /\ DeletionSound(r)
  BY <1>1
<1>7. BootedIn(s)' = BootedIn(s)
  BY <1>4 DEF BootedIn
<1>8. ASSUME UNCHANGED <<row, recorded>>, up' \subseteq up, r \in Active'
      PROVE  ServiceSound(s)'
  BY <1>3, <1>4, <1>6, <1>7, <1>8 DEF ServiceSound
<1>9. ASSUME up' \subseteq up, up \ up' \subseteq MachinesIn(s),
             recorded' = recorded \/ recorded' = recorded \ MachinesIn(s),
             \A t \in Service : t # s => row'[t] = row[t],
             \A q \in Request : q # r => pc'[q] = pc[q] /\ todo'[q] = todo[q],
             ServiceSound(s)', DeletionSound(r)'
      PROVE  /\ \A t \in Service : ServiceSound(t)'
             /\ \A q \in Request : DeletionSound(q)'
             /\ \A q \in Active' : q = r
  BY <1>4, <1>9, DeletingAlone
<1>10. CASE MarkDeleting(r) \/ DeleteVnfm(r)
  <2>1. /\ pc[r] \in {"puppet", "spawned"} /\ pc'[r] \in {"spawned", "listing"}
        /\ \A q \in Request : q # r => pc'[q] = pc[q]
        /\ UNCHANGED <<recorded, up, idx, last, todo>>
    BY <1>1, <1>10 DEF MarkDeleting, DeleteVnfm, Goto, loopVars, dbVars
  <2>2. \A t \in Service : (t # s => row'[t] = row[t]) /\ (row'[t] = "none" <=> row[t] = "none")
    BY <1>1, <1>10 DEF MarkDeleting, DeleteVnfm, dbVars
  <2>3. r \in Active'
    BY <2>1 DEF Active
  <2>4. ServiceSound(s)'
    BY <1>1, <1>3, <1>4, <1>6, <1>7, <2>1, <2>2, <2>3 DEF ServiceSound
  <2>5. DeletionSound(r)'
    BY <1>3, <1>4, <1>5, <1>6, <2>1 DEF DeletionSound
  <2> QED
    BY <1>9, <2>1, <2>2, <2>4, <2>5
<1>11. CASE ListVdus(r)
  <2>1. /\ pc[r] = "listing" /\ pc'[r] = "vdus" /\ idx'[r] = 0 /\ last'[r] = Len(dict.vdus)
        /\ \A q \in Request : q # r => pc'[q] = pc[q]
        /\ UNCHANGED <<row, recorded, up, todo>>
    BY <1>1, <1>11 DEF ListVdus, Goto, dbVars
  <2>2. todo[r] = {} /\ up \cap MachinesIn(s) = LeftAfter(0) /\ r \in Active'
    BY <1>6, <2>1 DEF DeletionSound, Active
  <2>3. DeletionSound(r)'
    BY <1>1, <1>3, <1>4, <1>5, <2>1, <2>2 DEF DeletionSound
  <2> QED
    BY <1>8, <1>9, <2>1, <2>2, <2>3
<1>12. CASE NextVdu(r)
  <2>1. /\ pc[r] = "vdus" /\ todo[r] = {} /\ idx[r] < last[r]
        /\ UNCHANGED <<row, recorded, up, last>>
    BY <1>12 DEF NextVdu, dbVars
  <2>2. last[r] = Len(dict.vdus) /\ up \cap MachinesIn(s) = LeftAfter(idx[r])
    BY <1>6, <2>1 DEF DeletionSound
  <2>3. /\ idx' = [idx EXCEPT ![r] = idx[r] + 1] /\ pc' = pc
        /\ todo' = [todo EXCEPT ![r] = dict.vdus[idx[r] + 1].machines]
    BY <1>12, <2>1, <2>2 DEF NextVdu
  <2>4. /\ idx'[r] = idx[r] + 1 /\ todo'[r] = dict.vdus[idx[r] + 1].machines
        /\ \A q \in Request : q # r => todo'[q] = todo[q]
    BY <1>1, <2>3
  <2>5. idx[r] \in Nat
    BY <1>1
  <2>6. /\ LeftAfter(idx[r]) = dict.vdus[idx[r] + 1].machines \cup LeftAfter(idx[r] + 1)
        /\ dict.vdus[idx[r] + 1].machines \cap LeftAfter(idx[r] + 1) = {}
        /\ dict.vdus[idx[r] + 1].machines \subseteq MachinesIn(s)
    <3>1. ASSUME NEW n \in Nat, n < Len(dict.vdus)
          PROVE  /\ LeftAfter(n) = dict.vdus[n + 1].machines \cup LeftAfter(n + 1)
                 /\ dict.vdus[n + 1].machines \cap LeftAfter(n + 1) = {}
                 /\ dict.vdus[n + 1].machines \subseteq MachinesIn(s)
      <4> HIDE DEF s
      <4> QED
        BY <1>1, <1>3, <3>1, LeftIs
    <3>2. idx[r] < Len(dict.vdus)
      BY <2>1, <2>2
    <3> QED
      BY <2>5, <3>1, <3>2
  <2>7. r \in Active' /\ idx'[r] <= last'[r]
    BY <1>1, <2>1, <2>2, <2>3, <2>4 DEF Active
  <2>8. DeletionSound(r)'
    BY <1>3, <1>4, <1>5, <2>1, <2>2, <2>3, <2>4, <2>6, <2>7 DEF DeletionSound
  <2> QED
    BY <1>8, <1>9, <2>1, <2>3, <2>4, <2>7, <2>8
<1>13. ASSUME NEW m \in todo[r], DeleteInstance(r, m)
       PROVE  /\ \A t \in Service : ServiceSound(t)'
              /\ \A q \in Request : DeletionSound(q)'
              /\ \A q \in Active' : q = r
  <2>1. pc[r] = "vdus" /\ UNCHANGED <<row, recorded, pc, idx, last>>
    BY <1>13 DEF DeleteInstance, dbVars
  <2>2. /\ todo[r] \subseteq MachinesIn(s) /\ todo[r] \cap LeftAfter(idx[r]) = {}
        /\ up \cap MachinesIn(s) = todo[r] \cup LeftAfter(idx[r])
    BY <1>6, <2>1 DEF DeletionSound
  <2>3. m \in up /\ m \in MachinesIn(s) /\ SvcOf(VduOf[m]) = dict.svc
    BY <1>1, <1>3, <2>2, MachinesApart
  <2>4. up' = up \ {m} /\ todo' = [todo EXCEPT ![r] = todo[r] \ {m}]
    BY <1>13, <2>3 DEF DeleteInstance
  <2>5. todo'[r] = todo[r] \ {m} /\ \A q \in Request : q # r => todo'[q] = todo[q]
    BY <1>1, <2>4
  <2>6. r \in Active'
    BY <2>1 DEF Active
  <2>7. up' \cap MachinesIn(s) = todo'[r] \cup LeftAfter(idx[r])
    BY <2>2, <2>4, <2>5
  <2>8. DeletionSound(r)'
    BY <1>3, <1>4, <1>5, <1>6, <2>1, <2>2, <2>5, <2>7 DEF DeletionSound
  <2> QED
    BY <1>8, <1>9, <2>1, <2>3, <2>4, <2>5, <2>6, <2>8
<1>14. CASE VdusDeleted(r)
  <2>1. /\ pc[r] = "vdus" /\ todo[r] = {} /\ idx[r] = last[r] /\ pc'[r] = "network"
        /\ \A q \in Request : q # r => pc'[q] = pc[q]
        /\ UNCHANGED <<row, recorded, up, idx, last, todo>>
    BY <1>1, <1>14 DEF VdusDeleted, Goto, loopVars, dbVars
  <2>2. up \cap MachinesIn(s) = {}
    BY <1>1, <1>3, <1>6, <2>1, LeftIs DEF DeletionSound
  <2>3. DeletionSound(r)' /\ r \in Active'
    BY <1>3, <1>4, <2>1, <2>2 DEF DeletionSound, Active
  <2> QED
    BY <1>8, <1>9, <2>1, <2>3
<1>15. CASE DeleteNetwork(r)
  <2>1. /\ pc[r] = "network" /\ pc'[r] = "rows" /\ \A q \in Request : q # r => pc'[q] = pc[q]
        /\ UNCHANGED <<row, recorded, up, idx, last, todo>>
    BY <1>1, <1>3, <1>15 DEF DeleteNetwork, Goto, loopVars, dbVars
  <2>2. up \cap MachinesIn(s) = {} /\ todo[r] = {}
    BY <1>6, <2>1 DEF DeletionSound
  <2>3. DeletionSound(r)' /\ r \in Active'
    BY <1>3, <1>4, <2>1, <2>2 DEF DeletionSound, Active
  <2> QED
    BY <1>8, <1>9, <2>1, <2>3
<1>16. CASE DeleteDbDict(r)
  <2>1. /\ pc[r] = "rows" /\ pc'[r] \in {"over", "failed"}
        /\ \A q \in Request : q # r => pc'[q] = pc[q]
        /\ UNCHANGED <<up, idx, last, todo>>
    BY <1>1, <1>16 DEF DeleteDbDict, Goto, loopVars
  <2>2. /\ row'[s] = "none" /\ \A t \in Service : t # s => row'[t] = row[t]
        /\ recorded' = recorded \/ recorded' = recorded \ MachinesIn(s)
    BY <1>1, <1>16 DEF DeleteDbDict, dbVars
  <2>3. up \cap MachinesIn(s) = {} /\ todo[r] = {}
    BY <1>6, <2>1 DEF DeletionSound
  <2>4. ServiceSound(s)'
    BY <1>3, <1>4, <1>6, <1>7, <2>1, <2>2, <2>3 DEF ServiceSound
  <2>5. DeletionSound(r)'
    BY <1>3, <1>4, <2>1, <2>3 DEF DeletionSound, Active
  <2> QED
    BY <1>9, <2>1, <2>2, <2>4, <2>5
<1> QED
  BY <1>10, <1>11, <1>12, <1>13, <1>14, <1>15, <1>16 DEF Deleting

-----------------------------------------------------------------------------
(* The invariant of serial deletions holds initially,                      *)
LEMMA InitSerial == Init => SerialInv
<1> SUFFICES ASSUME Init PROVE SerialInv
  OBVIOUS
<1>1. TypeOK
  BY InitInv DEF DInv
<1>2. Active = {}
  BY DEF Init, Active
<1>3. \A s \in Service : ServiceSound(s)
  BY DEF Init, ServiceSound, BootedIn
<1>4. \A r \in Request : DeletionSound(r)
  BY <1>2 DEF Init, DeletionSound
<1> QED
  BY <1>1, <1>2, <1>3, <1>4 DEF SerialInv

(* and every step of one at a time, of a deployed service, keeps it.       *)
LEMMA StepSerial ==
  ASSUME "api" \notin Faults, SerialInv, [Next /\ Settled' /\ Alone]_vars
  PROVE  SerialInv'
<1>p. /\ TypeOK /\ \A r, q \in Active : r = q
      /\ \A s \in Service : ServiceSound(s)
      /\ \A r \in Request : DeletionSound(r)
  BY DEF SerialInv
<1>t. TypeOK'
  BY <1>p, StepTypes
<1>1. CASE UNCHANGED vars
  <2>1. /\ UNCHANGED <<row, recorded, up, deploy, booted, dict, pc, target, idx, last, todo>>
        /\ Active' = Active
    BY <1>1 DEF vars, Active
  <2>2. /\ \A s : BootedIn(s)' = BootedIn(s)
        /\ \A n : LeftAfter(n)' = LeftAfter(n)
    BY <2>1 DEF BootedIn, LeftAfter
  <2>3. ASSUME NEW s \in Service PROVE ServiceSound(s)'
    <3>1. ServiceSound(s)
      BY <1>p
    <3>2. /\ (\A r \in Active' : target'[r] # s) <=> \A r \in Active : target[r] # s
          /\ deploy'[s] = deploy[s] /\ row'[s] = row[s] /\ BootedIn(s)' = BootedIn(s)
          /\ recorded' = recorded /\ up' = up
      BY <2>1, <2>2
    <3> QED
      BY <3>1, <3>2 DEF ServiceSound
  <2>4. ASSUME NEW r \in Request PROVE DeletionSound(r)'
    <3>1. DeletionSound(r)
      BY <1>p
    <3> QED
      BY <2>1, <2>2, <3>1 DEF DeletionSound
  <2> QED
    BY <1>p, <1>t, <2>1, <2>3, <2>4 DEF SerialInv
<1>2. ASSUME NEW s \in Service, Deploying(s) PROVE SerialInv'
  <2>1. ASSUME NEW t \in Service PROVE ServiceSound(t)'
    <3>1. ServiceSound(t) /\ ServiceSound(s) /\ TypeOK
      BY <1>p
    <3>2. CASE t = s
      <4>1. ServiceSound(s)'
        BY <1>2, <3>1, DeployedSound
      <4> HIDE DEF ServiceSound
      <4> QED
        BY <3>2, <4>1, ZenonT(20)
    <3>3. CASE t # s
      BY <1>2, <3>1, <3>3, OthersDeployed
    <3> QED
      BY <3>2, <3>3
  <2>2. \A r \in Request : DeletionSound(r)'
    BY <1>p, <1>2, DeletionsStand
  <2>3. Active' = Active
    BY <1>2 DEF Deploying, CreateService, CreateServers, RecordInstances, InvokeManager,
         InstanceError, ApiFailure, DeployDone, Active
  <2> QED
    BY <1>p, <1>t, <2>1, <2>2, <2>3 DEF SerialInv
<1>3. ASSUME NEW r \in Request, DeleteService(r), Settled', Alone PROVE SerialInv'
  <2>1. pc[r] = "idle" /\ pc'[r] # "idle" /\ UNCHANGED <<deploy, target>>
    BY <1>3, <1>p DEF DeleteService, Goto, deployVars, TypeOK
  <2>2. Active = {}
    BY <1>3, <2>1 DEF Alone
  <2>3. deploy[target[r]] = "over" \/ r \notin Active'
    BY <1>3, <2>1 DEF Settled
  <2> QED
    BY <1>3, <1>p, <1>t, <2>2, <2>3, RequestSound DEF SerialInv
<1>4. ASSUME NEW r \in Request, Deleting(r) PROVE SerialInv'
  <2>1. \A q \in Active : q = r
    <3>1. r \in Active
      BY <1>4, <1>p DEF Deleting, MarkDeleting, DeleteVnfm, ListVdus, NextVdu, VdusDeleted,
         DeleteNetwork, DeleteDbDict, DeleteInstance, Active
    <3> QED
      BY <1>p, <3>1
  <2> QED
    BY <1>4, <1>p, <1>t, <2>1, DeletionKept DEF SerialInv
<1> QED
  BY <1>1, <1>2, <1>3, <1>4 DEF Next

(* When calls to OpenStack do not raise, a deletion of a deployed service, *)
(* made while there is no other, that ends has removed all its machines,   *)
(* whatever machines ended in ERROR and whatever is brought up meanwhile.  *)
THEOREM DeletedGone ==
  ASSUME "api" \notin Faults
  PROVE  SerialSpec => []DeletedMeansGone
<1>1. SerialInv /\ [Next /\ Settled' /\ Alone]_vars => SerialInv'
  BY StepSerial
<1>2. SerialInv => DeletedMeansGone
  BY DEF SerialInv, DeletionSound, DeletedMeansGone
<1> QED
  BY <1>1, <1>2, InitSerial, PTL DEF SerialSpec
=============================================================================

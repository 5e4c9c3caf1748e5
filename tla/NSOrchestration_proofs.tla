----------------------- MODULE NSOrchestration_proofs -----------------------
(***************************************************************************)
(* Proofs about NSOrchestration, for every set of VDUs and instances,      *)
(* every dependency relation and every set of faults: the types, then the  *)
(* safety properties from the inductive invariant IInv. The lemmas show    *)
(* one part of IInv each (WorkInv, what is known of the work of the        *)
(* instances; PlanInv, what is known of the plan; PostInv, who may be      *)
(* post-configured) kept by the steps of one process.                      *)
(***************************************************************************)
EXTENDS NSOrchestrationInv, FiniteSetTheorems, TLAPS

USE ServiceAssumption

(* Casts and acknowledgements that are sent are of their types.            *)
LEMMA MessageTypes ==
  /\ \A e \in {"init", "config"}, S \in SUBSET Vdu : [event |-> e, vdus |-> S] \in Cast
  /\ \A u \in Unit, s \in {"COMPLETE", "ERROR"} : AckOf(u, s) \in Ack
  /\ \A u \in Unit : u = <<u[1], u[2]>> /\ u[1] \in {"init", "config"} /\ u[2] \in Inst
  /\ \A v \in Vdu, e \in {"init", "config"} : UnitsOf(e, v) \subseteq Unit
BY DEF Cast, Ack, AckOf, Unit, UnitsOf, InstOf

(* Publishing a cast adds it to the queue or loses it.                     *)
LEMMA SendCastAdds ==
  ASSUME NEW e \in {"init", "config"}, NEW S \in SUBSET Vdu,
         toMgr \subseteq Cast, lostCasts \in BOOLEAN,
         SendCast([event |-> e, vdus |-> S])
  PROVE  /\ toMgr' \subseteq Cast /\ lostCasts' \in BOOLEAN
         /\ toMgr' \subseteq toMgr \cup {[event |-> e, vdus |-> S]}
<1>1. [event |-> e, vdus |-> S] \in Cast
  BY MessageTypes
<1> QED
  BY <1>1 DEF SendCast

(* The steps of the plugin keep the types.                                 *)
LEMMA DeployTypes == TypeOK /\ DeployNext /\ UNCHANGED mgrVars => TypeOK'
<1> SUFFICES ASSUME TypeOK, DeployNext, UNCHANGED mgrVars PROVE TypeOK'
  OBVIOUS
<1> USE DEF TypeOK, NetTypeOK, DeployTypeOK, MgrTypeOK, mgrVars, netVars,
            progressVars, bookVars, ackVars
<1>1. CASE CreateVnfds
  BY <1>1 DEF CreateVnfds, Independent
<1>2. ASSUME NEW v \in Vdu, BootStart(v) PROVE TypeOK'
  BY <1>2 DEF BootStart
<1>3. ASSUME NEW v \in Vdu, BootDone(v) PROVE TypeOK'
  BY <1>3 DEF BootDone
<1>4. ASSUME NEW v \in Vdu, BootError(v) PROVE TypeOK'
  BY <1>4 DEF BootError
<1>5. CASE InvokeManager
  BY <1>5 DEF InvokeManager, Unconfigured
<1>6. CASE InvokeWithoutMgmtIf \/ InvokeManagerFails
  BY <1>6 DEF InvokeWithoutMgmtIf, InvokeManagerFails, Unconfigured
<1>7. CASE SendConfigure
  <2>1. Unconfigured \subseteq Vdu
    BY DEF Unconfigured
  <2>2. toMgr' \subseteq Cast /\ lostCasts' \in BOOLEAN
    BY <1>7, <2>1, SendCastAdds DEF SendConfigure
  <2> QED
    BY <1>7, <2>1, <2>2 DEF SendConfigure
<1>8. CASE WaitRaise \/ WaitDone \/ ResolveDone \/ WaitPostDone \/ PostDone
  BY <1>8 DEF WaitRaise, WaitDone, ResolveDone, WaitPostDone, PostDone
<1>9. CASE ResolveRound \/ ConfigDetails \/ PostRound
  BY <1>9 DEF ResolveRound, ConfigDetails, PostRound, ReadyAfter, Independent
<1>10. ASSUME NEW v \in Vdu, PostConfigure(v) PROVE TypeOK'
  <2>1. toMgr' \subseteq Cast /\ lostCasts' \in BOOLEAN
    BY <1>10, SendCastAdds DEF PostConfigure
  <2> QED
    BY <1>10, <2>1 DEF PostConfigure
<1>11. CASE ApiFailure \/ Restart
  BY <1>11 DEF ApiFailure, Restart
<1>12. ASSUME NEW m \in toPlugin, SendAck(m) PROVE TypeOK'
  <2>1. m.unit \in Unit /\ VduOf[m.unit[2]] \in Vdu /\ m.unit[2] \in Inst
    BY MessageTypes DEF Ack
  <2>2. CASE pc # "lost" /\ m.unit[1] = "init" /\ InitAck(m.unit, m.status)
    <3> DEFINE v == VduOf[m.unit[2]]
    <3>1. Append(ackList[v], m.unit[2]) \in Seq(Inst) /\ Append(configured, v) \in Seq(Vdu)
      BY <2>1
    <3>2. ackList' \in [Vdu -> Seq(Inst)] /\ configured' \in Seq(Vdu)
      <4>1. CASE m.status = "ERROR"
        BY <2>2, <4>1 DEF InitAck
      <4>2. CASE m.status = "COMPLETE"
        <5>1. ackList' = [ackList EXCEPT ![v] = Append(ackList[v], m.unit[2])]
          BY <2>2, <4>2 DEF InitAck
        <5>2. configured' = Append(configured, v) \/ configured' = configured
          BY <2>2, <4>2 DEF InitAck
        <5> QED
          BY <2>1, <3>1, <5>1, <5>2
      <4> QED
        BY <4>1, <4>2 DEF Ack
    <3>3. errored' \subseteq Vdu /\ status' \in {"PENDING", "ACTIVE", "ERROR"}
      BY <2>1, <2>2 DEF InitAck
    <3> QED
      BY <1>12, <2>2, <3>2, <3>3 DEF SendAck
  <2>3. CASE pc # "lost" /\ m.unit[1] = "config" /\ ConfigAck(m.unit, m.status)
    BY <1>12, <2>1, <2>3 DEF SendAck, ConfigAck
  <2>4. CASE pc = "lost"
    BY <1>12, <2>4 DEF SendAck
  <2> QED
    BY <1>12, <2>2, <2>3, <2>4 DEF SendAck
<1> QED
  BY <1>1, <1>2, <1>3, <1>4, <1>5, <1>6, <1>7, <1>8, <1>9, <1>10, <1>11, <1>12
     DEF DeployNext, DeployStep, BootEnd

(* The steps of the manager keep the types.                                *)
LEMMA MgrTypes == TypeOK /\ MgrNext /\ UNCHANGED deployVars => TypeOK'
<1> SUFFICES ASSUME TypeOK, MgrNext, UNCHANGED deployVars PROVE TypeOK'
  OBVIOUS
<1> USE DEF TypeOK, NetTypeOK, DeployTypeOK, MgrTypeOK, deployVars, mgrVars
<1>1. CASE MgrStart \/ MgrStartFails \/ MgrConstructed \/ MgrListen \/ MgrCrash
  BY <1>1 DEF MgrStart, MgrStartFails, MgrConstructed, MgrListen, MgrCrash,
              InitUnits, Unit
<1>2. ASSUME NEW m \in toMgr, Receive(m) PROVE TypeOK'
  <2>1. m.vdus \subseteq Vdu
    BY DEF Cast
  <2>2. CASE ConfigureVdus(m)
    BY <2>1, <2>2 DEF ConfigureVdus, InitUnits, Unit
  <2>3. CASE ConfigureVdusFails(m)
    BY <2>1, <2>3 DEF ConfigureVdusFails
  <2>4. CASE PostConfigureCast(m)
    BY <2>1, <2>4, MessageTypes DEF PostConfigureCast, PostUnits
  <2> QED
    BY <1>2, <2>2, <2>3, <2>4 DEF Receive
<1>3. ASSUME NEW u \in Unit, Work(u) PROVE TypeOK'
  <2>1. u[2] \in Inst
    BY MessageTypes
  <2>2. CASE ConfigureInstance(u)
    <3>1. AckOf(u, "COMPLETE") \in Ack /\ AckOf(u, "ERROR") \in Ack
      BY MessageTypes
    <3>2. /\ toPlugin' \subseteq Ack /\ complete' \subseteq Inst /\ done' \subseteq Unit
          /\ threads' \in [Unit -> {"none", "running", "COMPLETE", "ERROR"}]
      BY <2>1, <2>2, <3>1
         DEF ConfigureInstance, AckWithoutDriver, AckFailure, InvokeDriverThread
    <3> QED
      BY <2>2, <3>2 DEF ConfigureInstance
  <2>3. CASE ConfigureService(u)
    BY <2>3 DEF ConfigureService
  <2>4. CASE MonitorAck(u)
    <3>1. AckOf(u, threads[u]) \in Ack
      <4> HIDE DEF TypeOK
      <4>1. threads[u] \in {"COMPLETE", "ERROR"}
        BY <2>4 DEF MonitorAck
      <4> QED
        BY <4>1, MessageTypes
    <3> QED
      BY <2>1, <2>4, <3>1 DEF MonitorAck
  <2> QED
    BY <1>3, <2>2, <2>3, <2>4 DEF Work
<1> QED
  BY <1>1, <1>2, <1>3 DEF MgrNext

(* The initial state is of its types,                                      *)
LEMMA InitTypes == Init => TypeOK
<1>1. [v \in Vdu |-> << >>] \in [Vdu -> Seq(Inst)] /\ << >> \in Seq(Vdu)
  OBVIOUS
<1>2. Init => NetTypeOK
  BY DEF Init, NetInit, NetTypeOK
<1>3. Init => DeployTypeOK
  BY <1>1 DEF Init, DeployInit, DeployTypeOK
<1>4. Init => MgrTypeOK
  BY DEF Init, MgrInit, MgrTypeOK
<1> QED
  BY <1>2, <1>3, <1>4 DEF TypeOK

(* and every step keeps them.                                              *)
LEMMA StepTypes == TypeOK /\ [Next]_vars => TypeOK'
<1>1. CASE UNCHANGED vars
  BY <1>1 DEF vars, netVars, deployVars, mgrVars, TypeOK, NetTypeOK,
              DeployTypeOK, MgrTypeOK
<1> QED
  BY <1>1, DeployTypes, MgrTypes DEF Next

(* Every variable of the plugin, the manager and the network keeps its     *)
(* type, in every behaviour of the composed system.                        *)
THEOREM TypeCorrect == Spec => []TypeOK
BY InitTypes, StepTypes, PTL DEF Spec

-----------------------------------------------------------------------------
(* The variables WorkInv is about.                                         *)
workVars == <<drvConf, complete, todo, threads, toPlugin, done, ackList,
              configured, errored>>

(* The initial units are the pairs of "init" and an instance.              *)
LEMMA InitUnitsAre ==
  /\ \A i \in Inst : InitUnit(i) \in Unit
  /\ \A i \in Inst, u \in Unit : u = InitUnit(i) <=> u[1] = "init" /\ u[2] = i
  /\ \A i, j \in Inst : InitUnit(i) = InitUnit(j) => i = j
  /\ \A i \in Inst : InitUnit(i)[1] = "init" /\ InitUnit(i)[2] = i
  /\ \A v \in Vdu : \A i \in InstOf(v) : InitUnit(i) \in UnitsOf("init", v)
  /\ \A i \in Inst : VduOf[i] \in Vdu /\ i \in InstOf(VduOf[i])
  /\ \A v \in Vdu : \A i \in InstOf(v) : i \in Inst /\ VduOf[i] = v
<1>1. \A i \in Inst : VduOf[i] \in Vdu
  OBVIOUS
<1>2. \A i \in Inst, u \in Unit : u = InitUnit(i) <=> u[1] = "init" /\ u[2] = i
  BY MessageTypes DEF InitUnit
<1> QED
  BY <1>1, <1>2 DEF InitUnit, Unit, UnitsOf, InstOf

(* Appending an element adds it to the range.                              *)
LEMMA AppendRange ==
  ASSUME NEW S, NEW s \in Seq(S), NEW x \in S
  PROVE  Range(Append(s, x)) = Range(s) \cup {x}
<1>1. DOMAIN Append(s, x) = 1..(Len(s) + 1) /\ DOMAIN s = 1..Len(s)
  OBVIOUS
<1>2. \A k \in 1..Len(s) : Append(s, x)[k] = s[k]
  OBVIOUS
<1>3. Append(s, x)[Len(s) + 1] = x /\ Len(s) \in Nat
  OBVIOUS
<1> QED
  BY <1>1, <1>2, <1>3 DEF Range

(* A list over a finite set that names no element twice stays so when a    *)
(* new element is appended.                                                *)
LEMMA AppendOnce ==
  ASSUME NEW S, IsFiniteSet(S), NEW s \in Seq(S), NEW x \in S,
         Cardinality(Range(s)) = Len(s), x \notin Range(s)
  PROVE  Cardinality(Range(Append(s, x))) = Len(Append(s, x))
<1>1. Range(s) \subseteq S
  BY DEF Range
<1>2. IsFiniteSet(Range(s))
  BY <1>1, FS_Subset
<1>3. Cardinality(Range(s) \cup {x}) = Cardinality(Range(s)) + 1
  BY <1>2, FS_AddElement
<1>4. Len(Append(s, x)) = Len(s) + 1
  OBVIOUS
<1>5. Range(Append(s, x)) = Range(s) \cup {x}
  BY AppendRange
<1>6. Cardinality(Range(Append(s, x))) = Cardinality(Range(s)) + 1
  BY <1>3, <1>5, Zenon
<1> QED
  BY <1>4, <1>6

(* A part of a finite set with as many elements is the whole set.          *)
LEMMA WholeSet ==
  ASSUME NEW S, IsFiniteSet(S), NEW T \in SUBSET S,
         Cardinality(S) <= Cardinality(T)
  PROVE  T = S
<1>1. IsFiniteSet(T) /\ Cardinality(T) <= Cardinality(S)
  BY FS_Subset
<1>2. Cardinality(S) \in Nat /\ Cardinality(T) \in Nat
  BY <1>1, FS_CardinalityType
<1> QED
  BY <1>1, <1>2, FS_Subset

(* A step that leaves the variables of WorkInv alone keeps it.             *)
LEMMA WorkFrame == WorkInv /\ UNCHANGED workVars => WorkInv'
BY DEF WorkInv, workVars, UnknownIdle, OnePlace, OneAck, Truthful, AckListSound,
       ConfiguredSound, ErroredSpent, InitUnit, Recorded, InFlight

(* The steps of the plugin keep PlanInv.                                   *)
LEMMA DeployPlan == IInv /\ DeployNext /\ UNCHANGED mgrVars => PlanInv'
<1> SUFFICES ASSUME IInv, DeployNext, UNCHANGED mgrVars PROVE PlanInv'
  OBVIOUS
<1> USE DEF PlanInv, KnownDeployed, ManagerFresh, LaunchOrder, PastLoop,
            mgrVars, netVars, progressVars, bookVars, ackVars
<1>i. PlanInv /\ TypeOK
  BY DEF IInv
<1>t. /\ deployed \subseteq Vdu /\ vm \in [Vdu -> {"none", "building", "active", "error"}]
      /\ configured \in Seq(Vdu) /\ batch \subseteq Vdu
  BY <1>i DEF TypeOK, NetTypeOK, DeployTypeOK
<1>1. CASE CreateVnfds
  BY <1>1, <1>i DEF CreateVnfds, Independent
<1>2. ASSUME NEW v \in Vdu, BootStart(v) PROVE PlanInv'
  BY <1>2, <1>i, <1>t DEF BootStart
<1>3. ASSUME NEW v \in Vdu, BootDone(v) PROVE PlanInv'
  BY <1>3, <1>i, <1>t DEF BootDone
<1>4. ASSUME NEW v \in Vdu, BootError(v) PROVE PlanInv'
  BY <1>4, <1>i, <1>t DEF BootError
<1>5. CASE InvokeManager
  BY <1>5, <1>i DEF InvokeManager, Unconfigured
<1>6. CASE InvokeWithoutMgmtIf \/ InvokeManagerFails
  BY <1>6, <1>i DEF InvokeWithoutMgmtIf, InvokeManagerFails, Unconfigured
<1>7. CASE SendConfigure
  <2>1. \A m \in toMgr' : m.event = "init" => m.vdus \subseteq deployed
    BY <1>7, <1>i DEF SendConfigure, SendCast, Unconfigured
  <2> QED
    BY <1>7, <1>i, <2>1 DEF SendConfigure
<1>8. CASE WaitRaise \/ WaitDone \/ WaitPostDone
  BY <1>8, <1>i DEF WaitRaise, WaitDone, WaitPostDone
<1>9. CASE ResolveRound
  BY <1>9, <1>i DEF ResolveRound, ReadyAfter
<1>10. CASE ResolveDone
  <2>1. Range(configured) \subseteq Vdu
    BY <1>t DEF Range
  <2>2. Cardinality(Range(configured)) = Cardinality(Vdu)
    BY <1>10 DEF IInv, WorkInv, ConfiguredSound, ResolveDone
  <2>3. Range(configured) = Vdu
    <3>1. Cardinality(Vdu) \in Nat
      BY FS_CardinalityType
    <3> QED
      BY <2>1, <2>2, <3>1, WholeSet
  <2> QED
    BY <1>10, <1>i, <2>3 DEF ResolveDone
<1>11. CASE ConfigDetails \/ PostRound \/ PostDone
  BY <1>11, <1>i DEF ConfigDetails, PostRound, PostDone
<1>12. ASSUME NEW v \in Vdu, PostConfigure(v) PROVE PlanInv'
  <2>1. \A m \in toMgr' : m.event = "init" => m.vdus \subseteq deployed
    BY <1>12, <1>i DEF PostConfigure, SendCast
  <2> QED
    BY <1>12, <1>i, <2>1 DEF PostConfigure
<1>13. CASE ApiFailure \/ Restart
  BY <1>13, <1>i DEF ApiFailure, Restart
<1>14. ASSUME NEW m \in toPlugin, SendAck(m) PROVE PlanInv'
  <2>1. m.unit \in Unit /\ VduOf[m.unit[2]] \in Vdu
    <3>1. m \in Ack
      BY <1>i DEF TypeOK, NetTypeOK
    <3> QED
      BY <3>1, MessageTypes DEF Ack
  <2>2. Range(configured) \subseteq Range(configured')
    <3>1. configured' = configured \/ configured' = Append(configured, VduOf[m.unit[2]])
      BY <1>14 DEF SendAck, InitAck
    <3>2. Range(Append(configured, VduOf[m.unit[2]]))
            = Range(configured) \cup {VduOf[m.unit[2]]}
      BY <2>1, <1>t, AppendRange
    <3> QED
      BY <3>1, <3>2, Zenon
  <2>3. status' \in {status, "ERROR"}
    BY <1>14 DEF SendAck, InitAck, ConfigAck
  <2> QED
    BY <1>14, <1>i, <2>2, <2>3 DEF SendAck
<1> QED
  BY <1>1, <1>2, <1>3, <1>4, <1>5, <1>6, <1>7, <1>8, <1>9, <1>10, <1>11, <1>12,
     <1>13, <1>14 DEF DeployNext, DeployStep, BootEnd

(* The steps of the manager keep PlanInv.                                  *)
LEMMA MgrPlan == IInv /\ MgrNext /\ UNCHANGED deployVars => PlanInv'
<1> SUFFICES ASSUME IInv, MgrNext, UNCHANGED deployVars PROVE PlanInv'
  OBVIOUS
<1> USE DEF PlanInv, KnownDeployed, ManagerFresh, LaunchOrder, PastLoop,
            mgrVars, deployVars
<1>i. PlanInv
  BY DEF IInv
<1>1. CASE MgrStart \/ MgrStartFails \/ MgrConstructed \/ MgrListen \/ MgrCrash
  BY <1>1, <1>i DEF MgrStart, MgrStartFails, MgrConstructed, MgrListen, MgrCrash
<1>2. ASSUME NEW m \in toMgr, Receive(m) PROVE PlanInv'
  BY <1>2, <1>i DEF Receive, ConfigureVdus, ConfigureVdusFails, PostConfigureCast
<1>3. ASSUME NEW u \in Unit, Work(u) PROVE PlanInv'
  BY <1>3, <1>i DEF Work, Alive, ConfigureInstance, ConfigureService, MonitorAck
<1> QED
  BY <1>1, <1>2, <1>3 DEF MgrNext

(* Reading an acknowledgement of an initial configuration keeps WorkInv.   *)
LEMMA AckWork ==
  ASSUME IInv, UNCHANGED mgrVars, NEW m \in toPlugin, SendAck(m),
         pc # "lost", m.unit[1] = "init"
  PROVE  WorkInv'
<1> DEFINE i == m.unit[2]
           v == VduOf[i]
<1>w. WorkInv /\ TypeOK
  BY DEF IInv
<1>m. m.unit \in Unit /\ m.status \in {"COMPLETE", "ERROR"} /\ toPlugin \subseteq Ack
  BY <1>w DEF TypeOK, NetTypeOK, Ack
<1>u. i \in Inst /\ v \in Vdu /\ i \in InstOf(v) /\ m.unit = InitUnit(i)
  BY <1>m, MessageTypes, InitUnitsAre
<1>t. ackList \in [Vdu -> Seq(Inst)] /\ configured \in Seq(Vdu) /\ errored \subseteq Vdu
  BY <1>w DEF TypeOK, DeployTypeOK
<1> HIDE DEF i, v
<1>f. toPlugin' = toPlugin \ {m} /\ UNCHANGED <<drvConf, complete, todo, threads, done>>
  BY DEF SendAck, mgrVars
<1>a. InitAck(m.unit, m.status)
  BY DEF SendAck
(* The unit was in flight, hence nowhere else, and now is nowhere.         *)
<1>p. /\ v \in drvConf /\ InitUnit(i) \notin todo /\ threads[InitUnit(i)] = "none"
      /\ ~Recorded(i)
  <2>1. InFlight(m.unit) /\ InFlight(InitUnit(i))
    BY <1>u DEF InFlight
  <2>2. v \in drvConf
    BY <1>w, <1>m, <2>1 DEF WorkInv, UnknownIdle, v, i
  <2> QED
    BY <1>w, <1>u, <2>1, <2>2 DEF WorkInv, OnePlace
<1>q. ~InFlight(InitUnit(i))'
  <2>1. \A n \in toPlugin : n.unit = InitUnit(i) => n = m
    BY <1>w, <1>u DEF WorkInv, OneAck, InitUnit
  <2> QED
    BY <1>f, <2>1 DEF InFlight, InitUnit
<1>g. \A w \in Unit : InFlight(w)' => InFlight(w)
  BY <1>f DEF InFlight
<1>r. \A j \in Inst : InFlight(InitUnit(j))' => InFlight(InitUnit(j))
  BY <1>f DEF InFlight, InitUnit
<1>s. OneAck'
  BY <1>w, <1>f DEF WorkInv, OneAck
<1>1. CASE m.status = "ERROR"
  <2>1. errored' = errored \cup {v} /\ UNCHANGED <<ackList, configured>>
    BY <1>a, <1>1 DEF InitAck, v, i
  <2>2. \A j \in Inst : Recorded(j)' <=> Recorded(j)
    BY <2>1 DEF Recorded
  <2>3. UnknownIdle' /\ OnePlace' /\ Truthful'
    BY <1>w, <1>f, <1>g, <1>r, <2>2 DEF WorkInv, UnknownIdle, OnePlace, Truthful, InitUnit
  <2>4. AckListSound' /\ ConfiguredSound'
    BY <1>w, <2>1 DEF WorkInv, AckListSound, ConfiguredSound
  <2>5. ErroredSpent'
    <3>1. ASSUME NEW w \in errored
          PROVE  \E j \in InstOf(w) : /\ w \in drvConf' /\ InitUnit(j) \notin todo'
                                      /\ threads'[InitUnit(j)] = "none"
                                      /\ ~InFlight(InitUnit(j))' /\ ~Recorded(j)'
      <4>1. PICK j \in InstOf(w) :
              /\ w \in drvConf /\ InitUnit(j) \notin todo
              /\ threads[InitUnit(j)] = "none"
              /\ ~InFlight(InitUnit(j)) /\ ~Recorded(j)
        BY <1>w DEF WorkInv, ErroredSpent
      <4>2. j \in Inst
        BY <1>t, InitUnitsAre
      <4> QED
        BY <1>f, <1>r, <2>2, <4>1, <4>2
    <3>2. /\ v \in drvConf' /\ InitUnit(i) \notin todo' /\ threads'[InitUnit(i)] = "none"
          /\ ~InFlight(InitUnit(i))' /\ ~Recorded(i)'
      BY <1>f, <1>p, <1>q, <1>u, <2>2
    <3>3. \A w \in errored' : w \in errored \/ w = v
      BY <2>1
    <3> QED
      BY <1>u, <3>1, <3>2, <3>3 DEF ErroredSpent, InitUnit
  <2> QED
    BY <1>s, <2>3, <2>4, <2>5 DEF WorkInv
<1>2. CASE m.status = "COMPLETE"
  <2> DEFINE acks == Append(ackList[v], i)
  <2>1. /\ ackList' = [ackList EXCEPT ![v] = acks] /\ UNCHANGED errored
        /\ configured' = IF Cardinality(InstOf(v)) <= Len(acks)
                         THEN Append(configured, v) ELSE configured
    BY <1>a, <1>2 DEF InitAck, v, i
  <2>2. ackList[v] \in Seq(Inst) /\ Range(acks) = Range(ackList[v]) \cup {i}
    BY <1>t, <1>u, AppendRange
  <2>3. Len(acks) = Cardinality(Range(acks)) /\ Range(acks) \subseteq InstOf(v)
    <3>1. i \notin Range(ackList[v])
      BY <1>p DEF Recorded, v
    <3>2. Cardinality(Range(ackList[v])) = Len(ackList[v]) /\ Range(ackList[v]) \subseteq InstOf(v)
      BY <1>w, <1>u DEF WorkInv, AckListSound
    <3>3. Cardinality(Range(acks)) = Len(acks)
      <4>1. IsFiniteSet(Inst) /\ ackList[v] \in Seq(Inst) /\ i \in Inst
        BY <1>u, <2>2
      <4> QED
        BY <3>1, <3>2, <4>1, AppendOnce, Zenon
    <3> HIDE DEF acks
    <3> QED
      BY <1>u, <2>2, <3>2, <3>3
  <2> HIDE DEF acks
  <2>4. \A j \in Inst : Recorded(j)' <=> Recorded(j) \/ j = i
    <3>1. \A j \in Inst : VduOf[j] # v => (Recorded(j)' <=> Recorded(j)) /\ j # i
      BY <1>t, <1>u, <2>1 DEF Recorded, v
    <3>2. \A j \in Inst : VduOf[j] = v => (Recorded(j)' <=> Recorded(j) \/ j = i)
      BY <1>t, <1>u, <2>1, <2>2 DEF Recorded
    <3> QED
      BY <3>1, <3>2
  <2>5. UnknownIdle' /\ OnePlace'
    <3>1. UnknownIdle'
      BY <1>w, <1>f, <1>p, <1>g, <2>4 DEF WorkInv, UnknownIdle, v
    <3>2. OnePlace'
      BY <1>w, <1>f, <1>p, <1>q, <1>r, <2>4 DEF WorkInv, OnePlace, InitUnit
    <3> QED
      BY <3>1, <3>2
  <2>6. Truthful'
    <3>1. InitUnit(i) \in done
      BY <1>w, <1>u, <1>2 DEF WorkInv, Truthful
    <3> QED
      BY <1>w, <1>f, <2>4, <3>1 DEF WorkInv, Truthful, InitUnit
  <2>7. AckListSound'
    BY <1>w, <1>t, <2>1, <2>3 DEF WorkInv, AckListSound
  <2>8. ConfiguredSound'
    <3>1. \A w \in Vdu : Range(ackList[w]) \subseteq Range(ackList'[w])
      BY <1>t, <2>1, <2>2
    <3>2. Range(configured) \subseteq Vdu
      BY <1>t DEF Range
    <3>3. CASE configured' = configured
      BY <1>w, <3>1, <3>2, <3>3 DEF WorkInv, ConfiguredSound
    <3>4. CASE Cardinality(InstOf(v)) <= Len(acks) /\ configured' = Append(configured, v)
      <4>1. InstOf(v) = Range(ackList'[v])
        <5>1. IsFiniteSet(InstOf(v))
          BY FS_Subset DEF InstOf
        <5>2. Range(acks) = InstOf(v)
          BY <2>3, <3>4, <5>1, WholeSet
        <5> QED
          BY <1>t, <1>u, <2>1, <5>2
      <4>2. v \notin Range(configured)
        BY <1>w, <1>u, <1>p DEF WorkInv, ConfiguredSound, Recorded, v
      <4>3. Range(configured') = Range(configured) \cup {v}
        BY <1>t, <1>u, <3>4, AppendRange
      <4>4. Cardinality(Range(configured')) = Len(configured')
        <5>1. Cardinality(Range(configured)) = Len(configured)
          BY <1>w DEF WorkInv, ConfiguredSound
        <5> QED
          BY <1>t, <1>u, <3>4, <4>2, <5>1, AppendOnce
      <4> QED
        BY <1>w, <3>1, <3>2, <4>1, <4>3, <4>4 DEF WorkInv, ConfiguredSound
    <3> QED
      BY <2>1, <3>3, <3>4
  <2>9. ErroredSpent'
    <3> SUFFICES ASSUME NEW w \in errored
                 PROVE  \E j \in InstOf(w) : /\ w \in drvConf' /\ InitUnit(j) \notin todo'
                                             /\ threads'[InitUnit(j)] = "none"
                                             /\ ~InFlight(InitUnit(j))' /\ ~Recorded(j)'
      BY <2>1 DEF ErroredSpent, InitUnit
    <3>1. PICK j \in InstOf(w) :
            /\ w \in drvConf /\ InitUnit(j) \notin todo
            /\ threads[InitUnit(j)] = "none"
            /\ ~InFlight(InitUnit(j)) /\ ~Recorded(j)
      BY <1>w DEF WorkInv, ErroredSpent
    <3>2. j \in Inst /\ j # i
      BY <1>t, <1>u, <3>1, InitUnitsAre DEF InFlight
    <3> QED
      BY <1>f, <1>r, <2>4, <3>1, <3>2
  <2> QED
    BY <1>s, <2>5, <2>6, <2>7, <2>8, <2>9 DEF WorkInv
<1> QED
  BY <1>m, <1>1, <1>2

(* The steps of the plugin keep WorkInv.                                   *)
LEMMA DeployWork == IInv /\ DeployNext /\ UNCHANGED mgrVars => WorkInv'
<1> SUFFICES ASSUME IInv, DeployNext, UNCHANGED mgrVars PROVE WorkInv'
  OBVIOUS
<1>w. WorkInv
  BY DEF IInv
<1>2. ASSUME NEW m \in toPlugin, SendAck(m) PROVE WorkInv'
  <2>1. CASE pc # "lost" /\ m.unit[1] = "init"
    BY <1>2, <2>1, AckWork
  <2>2. CASE ~(pc # "lost" /\ m.unit[1] = "init")
    <3>1. /\ toPlugin' = toPlugin \ {m} /\ UNCHANGED <<ackList, configured, errored, done>>
          /\ UNCHANGED <<drvConf, complete, todo, threads>>
      BY <1>2, <2>2 DEF SendAck, ackVars, mgrVars
    <3>2. \A j \in Inst : InFlight(InitUnit(j))' => InFlight(InitUnit(j))
      BY <3>1 DEF InFlight, InitUnit
    <3>3. \A j \in Inst : Recorded(j)' <=> Recorded(j)
      BY <3>1 DEF Recorded
    <3>g. \A w \in Unit : InFlight(w)' => InFlight(w)
      BY <3>1 DEF InFlight
    <3>4. UnknownIdle' /\ OnePlace' /\ OneAck' /\ Truthful' /\ AckListSound' /\ ConfiguredSound'
      BY <1>w, <3>1, <3>2, <3>3, <3>g DEF WorkInv, UnknownIdle, OnePlace, OneAck, Truthful,
         AckListSound, ConfiguredSound, InitUnit
    <3>5. ErroredSpent'
      BY <1>w, <3>1, <3>2, <3>3 DEF WorkInv, ErroredSpent, InitUnit, InstOf
    <3> QED
      BY <3>4, <3>5 DEF WorkInv
  <2> QED
    BY <2>1, <2>2
<1>3. CASE \/ DeployStep \/ BootEnd \/ InvokeWithoutMgmtIf \/ InvokeManagerFails
           \/ ApiFailure \/ Restart
  <2>1. UNCHANGED <<ackList, configured, errored, toPlugin, done>>
    BY <1>3 DEF DeployStep, BootEnd, CreateVnfds, BootStart, BootDone, BootError,
       InvokeManager, InvokeWithoutMgmtIf, InvokeManagerFails, SendConfigure,
       WaitRaise, WaitDone,
       ResolveRound, ResolveDone, ConfigDetails, PostConfigure, WaitPostDone,
       PostRound, PostDone, ApiFailure, Restart, ackVars, netVars
  <2> QED
    BY <1>w, <2>1, WorkFrame DEF workVars, mgrVars
<1> QED
  BY <1>2, <1>3 DEF DeployNext

(* What becomes of a unit at the manager: starting it, running it and      *)
(* reporting it move it from one place to the next.                        *)
LEMMA UnitWork ==
  ASSUME IInv, UNCHANGED deployVars, NEW u \in Unit, Work(u)
  PROVE  WorkInv'
<1>w. WorkInv /\ TypeOK
  BY DEF IInv
<1>t. threads \in [Unit -> {"none", "running", "COMPLETE", "ERROR"}] /\ errored \subseteq Vdu
  BY <1>w DEF TypeOK, MgrTypeOK, DeployTypeOK
<1>f. UNCHANGED <<ackList, configured, errored, drvConf>>
  BY DEF Work, ConfigureInstance, ConfigureService, MonitorAck, deployVars
<1>r. \A i \in Inst : Recorded(i)' <=> Recorded(i)
  BY <1>f DEF Recorded
<1>l. AckListSound' /\ ConfiguredSound'
  BY <1>w, <1>f DEF WorkInv, AckListSound, ConfiguredSound
<1>i. \A i \in Inst : InitUnit(i) \in Unit
  BY InitUnitsAre
<1>v. \A w \in Vdu : \A j \in InstOf(w) : j \in Inst
  BY InitUnitsAre
(* Work leaves what is neither to do nor in a thread alone.                *)
<1>1. ASSUME NEW w \in errored,
             \A j \in Inst : InitUnit(j) \notin todo /\ threads[InitUnit(j)] = "none"
                             /\ ~InFlight(InitUnit(j))
                => /\ InitUnit(j) \notin todo' /\ threads'[InitUnit(j)] = "none"
                   /\ ~InFlight(InitUnit(j))'
      PROVE  \E j \in InstOf(w) : /\ w \in drvConf' /\ InitUnit(j) \notin todo'
                                  /\ threads'[InitUnit(j)] = "none"
                                  /\ ~InFlight(InitUnit(j))' /\ ~Recorded(j)'
  <2>1. PICK j \in InstOf(w) :
          /\ w \in drvConf /\ InitUnit(j) \notin todo
          /\ threads[InitUnit(j)] = "none"
          /\ ~InFlight(InitUnit(j)) /\ ~Recorded(j)
    BY <1>w DEF WorkInv, ErroredSpent
  <2>2. j \in Inst
    BY <1>t, <1>v
  <2> QED
    BY <1>1, <1>f, <1>r, <2>1, <2>2
<1>2. CASE ConfigureInstance(u)
  <2>1. u \in todo /\ todo' = todo \ {u}
    BY <1>2 DEF ConfigureInstance
  <2>2. CASE AckWithoutDriver(u) \/ AckFailure(u)
    <3>1. PICK s \in {"COMPLETE", "ERROR"} :
            /\ toPlugin' = toPlugin \cup {AckOf(u, s)}
            /\ s = "COMPLETE" => done' = done \cup {u} /\ complete' = complete \cup {u[2]}
            /\ s = "ERROR" => UNCHANGED <<done, complete>>
            /\ UNCHANGED threads
      BY <2>2 DEF AckWithoutDriver, AckFailure
    <3>2. u[1] = "init" /\ u[2] \in Inst /\ u = InitUnit(u[2])
      BY <2>2, MessageTypes, InitUnitsAre DEF AckWithoutDriver, AckFailure
    <3>3. AckOf(u, s).unit = u /\ AckOf(u, s).status = s
      BY DEF AckOf
    <3>4. \A j \in Inst : InFlight(InitUnit(j))' <=> InFlight(InitUnit(j)) \/ InitUnit(j) = u
      BY <3>1, <3>3 DEF InFlight, InitUnit
    <3>5. VduOf[u[2]] \in drvConf /\ ~Recorded(u[2]) /\ ~InFlight(u) /\ threads[u] = "none"
      BY <1>w, <2>1, <3>2 DEF WorkInv, UnknownIdle, OnePlace
    <3>6. UnknownIdle'
      <4>1. \A w \in Unit : InFlight(w)' <=> InFlight(w) \/ w = u
        BY <3>1, <3>3 DEF InFlight
      <4>2. done' \subseteq done \cup {u} /\ complete' \subseteq complete \cup {u[2]}
        BY <3>1
      <4> QED
        BY <1>w, <1>f, <1>r, <2>1, <3>1, <3>5, <4>1, <4>2 DEF WorkInv, UnknownIdle
    <3>7. OnePlace'
      BY <1>w, <1>r, <2>1, <3>1, <3>2, <3>4, <3>5 DEF WorkInv, OnePlace, InitUnit
    <3>8. OneAck'
      BY <1>w, <3>1, <3>3, <3>5 DEF WorkInv, OneAck, InFlight
    <3>9. Truthful'
      BY <1>w, <1>r, <3>1, <3>3 DEF WorkInv, Truthful, InitUnit
    <3>10. ErroredSpent'
      BY <1>1, <1>f, <2>1, <3>1, <3>4 DEF ErroredSpent, InitUnit
    <3> QED
      BY <1>l, <3>6, <3>7, <3>8, <3>9, <3>10 DEF WorkInv
  <2>3. CASE InvokeDriverThread(u)
    <3>1. threads' = [threads EXCEPT ![u] = "running"] /\ UNCHANGED <<toPlugin, complete, done>>
      BY <2>3 DEF InvokeDriverThread
    <3>2. \A j \in Inst : InFlight(InitUnit(j))' <=> InFlight(InitUnit(j))
      BY <3>1 DEF InFlight, InitUnit
    <3>3. UnknownIdle' /\ OnePlace'
      <4>1. UnknownIdle'
        BY <1>w, <1>f, <1>r, <1>t, <2>1, <3>1 DEF WorkInv, UnknownIdle, InFlight
      <4>2. OnePlace'
        BY <1>w, <1>i, <1>r, <1>t, <2>1, <3>1, <3>2 DEF WorkInv, OnePlace, InitUnit
      <4> QED
        BY <4>1, <4>2
    <3>4. OneAck' /\ Truthful'
      BY <1>w, <1>r, <1>t, <3>1 DEF WorkInv, OneAck, Truthful, InitUnit
    <3>5. ErroredSpent'
      <4>1. \A j \in Inst : InitUnit(j) \notin todo => InitUnit(j) # u
        BY <2>1
      <4> QED
        BY <1>1, <1>f, <1>i, <1>t, <2>1, <3>1, <3>2, <4>1 DEF ErroredSpent, InitUnit
    <3> QED
      BY <1>l, <3>3, <3>4, <3>5 DEF WorkInv
  <2> QED
    BY <1>2, <2>2, <2>3 DEF ConfigureInstance
<1>3. CASE ConfigureService(u)
  <2>1. PICK s \in {"COMPLETE", "ERROR"} :
          /\ threads' = [threads EXCEPT ![u] = s] /\ threads[u] = "running"
          /\ s = "COMPLETE" => done' = done \cup {u}
          /\ s = "ERROR" => UNCHANGED done
          /\ UNCHANGED <<toPlugin, complete, todo>>
    BY <1>3 DEF ConfigureService
  <2>2. \A j \in Inst : InFlight(InitUnit(j))' <=> InFlight(InitUnit(j))
    BY <2>1 DEF InFlight, InitUnit
  <2>3. UnknownIdle' /\ OnePlace'
    <3>1. UnknownIdle'
      <4>1. done' \subseteq done \cup {u}
        BY <2>1
      <4> QED
        BY <1>w, <1>f, <1>r, <1>t, <2>1, <4>1 DEF WorkInv, UnknownIdle, InFlight
    <3>2. OnePlace'
      BY <1>w, <1>i, <1>r, <1>t, <2>1, <2>2 DEF WorkInv, OnePlace, InitUnit
    <3> QED
      BY <3>1, <3>2
  <2>4. OneAck' /\ Truthful'
    BY <1>w, <1>r, <1>t, <2>1 DEF WorkInv, OneAck, Truthful, InitUnit
  <2>5. ErroredSpent'
    BY <1>1, <1>f, <1>i, <1>t, <2>1, <2>2 DEF ErroredSpent, InitUnit
  <2> QED
    BY <1>l, <2>3, <2>4, <2>5 DEF WorkInv
<1>4. CASE MonitorAck(u)
  <2>1. /\ threads[u] \in {"COMPLETE", "ERROR"}
        /\ toPlugin' = toPlugin \cup {AckOf(u, threads[u])}
        /\ complete' \subseteq complete \cup {u[2]}
        /\ threads' = [threads EXCEPT ![u] = "none"]
        /\ UNCHANGED <<todo, done>>
    BY <1>4 DEF MonitorAck
  <2>2. AckOf(u, threads[u]).unit = u /\ AckOf(u, threads[u]).status = threads[u]
    BY DEF AckOf
  <2>g. \A w \in Unit : InFlight(w)' <=> InFlight(w) \/ w = u
    BY <2>1, <2>2 DEF InFlight
  <2>3. \A j \in Inst : InFlight(InitUnit(j))' <=> InFlight(InitUnit(j)) \/ InitUnit(j) = u
    BY <2>1, <2>2 DEF InFlight, InitUnit
  <2>4. UnknownIdle'
    <3>1. VduOf[u[2]] \in drvConf
      BY <1>w, <2>1 DEF WorkInv, UnknownIdle
    <3> QED
      BY <1>w, <1>f, <1>r, <1>t, <2>1, <2>g, <3>1 DEF WorkInv, UnknownIdle
  <2>5. OnePlace'
    BY <1>w, <1>i, <1>r, <1>t, <2>1, <2>3 DEF WorkInv, OnePlace, InitUnit
  <2>6. OneAck'
    <3>1. u[1] = "init" => ~InFlight(u)
      <4>1. u[1] = "init" => u[2] \in Inst /\ u = InitUnit(u[2])
        BY MessageTypes, InitUnitsAre
      <4> QED
        BY <1>w, <2>1, <4>1 DEF WorkInv, OnePlace
    <3> QED
      BY <1>w, <2>1, <2>2, <3>1 DEF WorkInv, OneAck, InFlight
  <2>7. Truthful'
    BY <1>w, <1>r, <1>t, <2>1, <2>2 DEF WorkInv, Truthful, InitUnit
  <2>8. ErroredSpent'
    <3>1. \A j \in Inst : threads[InitUnit(j)] = "none" => InitUnit(j) # u
      BY <2>1
    <3> QED
      BY <1>1, <1>f, <1>i, <1>t, <2>1, <2>3, <3>1 DEF ErroredSpent, InitUnit
  <2> QED
    BY <1>l, <2>4, <2>5, <2>6, <2>7, <2>8 DEF WorkInv
<1> QED
  BY <1>2, <1>3, <1>4 DEF Work

(* A handler of the manager may be given work for VDUs it did not know, or *)
(* post-configurations of those it knew.                                   *)
LEMMA GivenWork ==
  ASSUME TypeOK, WorkInv, NEW T \in SUBSET Unit,
         todo' = todo \cup T, drvConf \subseteq drvConf',
         UNCHANGED <<complete, threads, toPlugin, done, ackList, configured, errored>>,
         \A u \in T : /\ VduOf[u[2]] \in drvConf'
                      /\ u[1] = "init" => VduOf[u[2]] \notin drvConf
  PROVE  WorkInv'
<1>r. \A i \in Inst : Recorded(i)' <=> Recorded(i)
  BY DEF Recorded
<1>g. \A u \in Unit : InFlight(u)' <=> InFlight(u)
  BY DEF InFlight
<1>i. \A i \in Inst : /\ InitUnit(i) \in Unit
                      /\ InFlight(InitUnit(i))' <=> InFlight(InitUnit(i))
                      /\ InitUnit(i) \in T => VduOf[i] \notin drvConf
  BY InitUnitsAre DEF InFlight, InitUnit
<1>1. UnknownIdle'
  BY <1>r, <1>g DEF WorkInv, UnknownIdle
<1>2. OnePlace'
  <2>1. ASSUME NEW i \in Inst, InitUnit(i) \in T
        PROVE  /\ threads[InitUnit(i)] = "none" /\ ~InFlight(InitUnit(i)) /\ ~Recorded(i)
    <3>1. VduOf[InitUnit(i)[2]] \notin drvConf
      BY <1>i, <2>1, InitUnitsAre
    <3> QED
      BY <1>i, <2>1, <3>1 DEF WorkInv, UnknownIdle
  <2> QED
    BY <1>i, <1>r, <2>1 DEF WorkInv, OnePlace, InitUnit
<1>3. OneAck' /\ Truthful' /\ AckListSound' /\ ConfiguredSound'
  BY <1>r DEF WorkInv, OneAck, Truthful, AckListSound, ConfiguredSound, InitUnit
<1>4. ErroredSpent'
  <2> SUFFICES ASSUME NEW w \in errored
               PROVE  \E j \in InstOf(w) : /\ w \in drvConf' /\ InitUnit(j) \notin todo'
                                           /\ threads'[InitUnit(j)] = "none"
                                           /\ ~InFlight(InitUnit(j))' /\ ~Recorded(j)'
    BY DEF ErroredSpent, InitUnit
  <2>1. PICK j \in InstOf(w) :
          /\ w \in drvConf /\ InitUnit(j) \notin todo
          /\ threads[InitUnit(j)] = "none"
          /\ ~InFlight(InitUnit(j)) /\ ~Recorded(j)
    BY DEF WorkInv, ErroredSpent
  <2>2. j \in Inst /\ VduOf[j] = w
    BY InitUnitsAre DEF TypeOK, DeployTypeOK
  <2> QED
    BY <1>i, <1>r, <2>1, <2>2
<1> QED
  BY <1>1, <1>2, <1>3, <1>4 DEF WorkInv

(* The steps of the manager keep WorkInv.                                  *)
LEMMA MgrWork == IInv /\ MgrNext /\ UNCHANGED deployVars => WorkInv'
<1> SUFFICES ASSUME IInv, MgrNext, UNCHANGED deployVars PROVE WorkInv'
  OBVIOUS
<1>w. TypeOK /\ WorkInv
  BY DEF IInv
<1>1. CASE MgrStart
  <2>1. /\ todo' = InitUnits(bootConf) /\ drvConf' = bootConf
        /\ drvConf = {} /\ complete = {}
    BY <1>1 DEF MgrStart, IInv, PlanInv, ManagerFresh
  <2>2. InitUnits(bootConf) \subseteq Unit
        /\ \A u \in InitUnits(bootConf) : VduOf[u[2]] \in drvConf'
    BY <2>1 DEF InitUnits, Unit
  <2>3. todo = {}
    <3>1. \A u \in Unit : u \notin todo
      BY <1>w, <2>1 DEF WorkInv, UnknownIdle
    <3> QED
      BY <1>w, <3>1 DEF TypeOK, MgrTypeOK
  <2>4. UNCHANGED <<complete, threads, toPlugin, done, ackList, configured, errored>>
    BY <1>1 DEF MgrStart, deployVars
  <2> QED
    BY <1>w, <2>1, <2>2, <2>3, <2>4, GivenWork
<1>2. CASE MgrStartFails \/ MgrConstructed \/ MgrListen \/ MgrCrash
  BY <1>w, <1>2, WorkFrame DEF MgrStartFails, MgrConstructed, MgrListen, MgrCrash,
     mgrVars, deployVars, workVars
<1>3. ASSUME NEW m \in toMgr, Receive(m) PROVE WorkInv'
  <2>1. UNCHANGED <<complete, threads, toPlugin, done, ackList, configured, errored>>
    BY <1>3 DEF Receive, ConfigureVdus, ConfigureVdusFails, PostConfigureCast, deployVars
  <2>2. m.vdus \subseteq Vdu
    BY <1>w DEF TypeOK, NetTypeOK, Cast
  <2>3. CASE ConfigureVdus(m)
    <3>1. /\ InitUnits(m.vdus \ drvConf) \subseteq Unit
          /\ \A u \in InitUnits(m.vdus \ drvConf) : VduOf[u[2]] \in m.vdus \ drvConf
      BY DEF InitUnits, Unit
    <3>2. /\ todo' = todo \cup InitUnits(m.vdus \ drvConf)
          /\ drvConf' = drvConf \cup m.vdus
      BY <2>3 DEF ConfigureVdus
    <3> QED
      BY <1>w, <2>1, <3>1, <3>2, GivenWork
  <2>4. CASE ConfigureVdusFails(m)
    <3>1. todo' = todo \cup {} /\ drvConf \subseteq drvConf' /\ {} \in SUBSET Unit
      BY <2>4 DEF ConfigureVdusFails
    <3>2. \A u \in {} : /\ VduOf[u[2]] \in drvConf'
                        /\ u[1] = "init" => VduOf[u[2]] \notin drvConf
      OBVIOUS
    <3> QED
      BY <1>w, <2>1, <3>1, <3>2, GivenWork, Zenon
  <2>5. CASE PostConfigureCast(m)
    <3>g. PICK v \in m.vdus :
            \E S \in PostUnits(v) : todo' = todo \cup S /\ UNCHANGED drvConf
      BY <2>5 DEF PostConfigureCast
    <3>1. PICK S \in PostUnits(v) : todo' = todo \cup S /\ UNCHANGED drvConf
      BY <3>g
    <3>2. S \in SUBSET Unit /\ \A u \in S : u[1] = "config" /\ VduOf[u[2]] \in drvConf
      BY <2>2, <3>1 DEF PostUnits, UnitsOf, InstOf, Unit
    <3> QED
      BY <1>w, <2>1, <3>1, <3>2, GivenWork
  <2> QED
    BY <1>3, <2>3, <2>4, <2>5 DEF Receive
<1>4. ASSUME NEW u \in Unit, Work(u) PROVE WorkInv'
  BY <1>4, UnitWork
<1> QED
  BY <1>1, <1>2, <1>3, <1>4 DEF MgrNext

(* A VDU in 'configured' is configured: the plugin's list is true of the   *)
(* machines.                                                               *)
LEMMA ConfiguredIsDone ==
  ASSUME IInv, NEW v \in Range(configured)
  PROVE  v \in Vdu /\ InitDone(v)
<1>1. v \in Vdu
  BY DEF IInv, TypeOK, DeployTypeOK, Range
<1>2. ASSUME NEW i \in InstOf(v) PROVE InitUnit(i) \in done
  <2>1. i \in Inst /\ VduOf[i] = v /\ i \in Range(ackList[v])
    BY <1>1, InitUnitsAre DEF IInv, WorkInv, ConfiguredSound
  <2> QED
    BY <2>1 DEF IInv, WorkInv, Truthful, Recorded
<1> QED
  BY <1>1, <1>2 DEF InitDone, UnitsOf, InitUnit

(* What was done stays done, and keys of the acknowledgements stay.        *)
LEMMA DoneGrows ==
  ASSUME [Next]_vars
  PROVE  done \subseteq done' /\ cfgAck \subseteq cfgAck'
<1>1. DeployNext => done' = done /\ cfgAck \subseteq cfgAck'
  BY DEF DeployNext, DeployStep, BootEnd, CreateVnfds, BootStart, BootDone, BootError,
     InvokeManager, InvokeWithoutMgmtIf, InvokeManagerFails, SendConfigure, WaitRaise,
     WaitDone, ResolveRound, ResolveDone, ConfigDetails, PostConfigure, WaitPostDone,
     PostRound, PostDone, ApiFailure, Restart, SendAck, ConfigAck, ackVars, netVars
<1>2. MgrNext => done \subseteq done'
  BY DEF MgrNext, MgrStart, MgrStartFails, MgrConstructed, MgrListen, MgrCrash,
     Receive, ConfigureVdus, ConfigureVdusFails, PostConfigureCast, Work,
     ConfigureInstance, AckWithoutDriver, AckFailure, InvokeDriverThread,
     ConfigureService, MonitorAck
<1> QED
  BY <1>1, <1>2 DEF Next, deployVars, vars, netVars

(* so that what may be post-configured may be ever after.                  *)
LEMMA MayStay ==
  ASSUME done \subseteq done'
  PROVE  \A v : (Served(v) => Served(v)') /\ (MayConfigure(v) => MayConfigure(v)')
BY DEF Served, MayConfigure, InitDone

(* A step that asks for no post-configuration and ends none keeps PostInv. *)
LEMMA PostFrame ==
  ASSUME PostInv, [Next]_vars, cfgAck' = cfgAck, postQueue' \subseteq postQueue,
         \A m \in toMgr' : m.event = "config" => m \in toMgr,
         \A u \in Unit : u[1] = "config" /\ (u \in todo' \/ threads'[u] = "running") =>
           u \in todo \/ threads[u] = "running",
         \A i \in Inst : <<"config", i>> \in done' => <<"config", i>> \in done
  PROVE  PostInv'
BY DoneGrows, MayStay DEF PostInv, InitBeforeConfig

(* The steps of the plugin keep PostInv.                                   *)
LEMMA DeployPost == IInv /\ DeployNext /\ UNCHANGED mgrVars => PostInv'
<1> SUFFICES ASSUME IInv, DeployNext, UNCHANGED mgrVars PROVE PostInv'
  OBVIOUS
<1>i. PostInv /\ TypeOK /\ [Next]_vars
  BY DEF IInv, Next
<1>d. /\ done \subseteq done' /\ cfgAck \subseteq cfgAck'
      /\ \A v : (Served(v) => Served(v)') /\ (MayConfigure(v) => MayConfigure(v)')
  BY <1>i, DoneGrows, MayStay
<1>m. UNCHANGED <<todo, threads>>
  BY DEF mgrVars
<1>1. CASE \/ CreateVnfds \/ InvokeManager \/ InvokeWithoutMgmtIf \/ InvokeManagerFails
           \/ WaitRaise \/ WaitDone \/ ResolveRound \/ ResolveDone \/ WaitPostDone
           \/ PostDone \/ ApiFailure \/ Restart
           \/ \E v \in Vdu : BootStart(v) \/ BootDone(v) \/ BootError(v)
  <2>1. UNCHANGED <<cfgAck, postQueue, toMgr, done>>
    BY <1>1 DEF CreateVnfds, InvokeManager, InvokeWithoutMgmtIf, InvokeManagerFails,
       WaitRaise, WaitDone, ResolveRound, ResolveDone, WaitPostDone, PostDone, ApiFailure,
       Restart, BootStart, BootDone, BootError, ackVars, netVars, progressVars
  <2> QED
    BY <1>i, <1>m, <2>1, PostFrame
<1>2. CASE SendConfigure
  <2>1. UNCHANGED <<cfgAck, postQueue, done>>
        /\ \A m \in toMgr' : m.event = "config" => m \in toMgr
    BY <1>2 DEF SendConfigure, SendCast, ackVars
  <2> QED
    BY <1>i, <1>m, <2>1, PostFrame
<1>3. CASE ConfigDetails \/ PostRound
  <2>1. UNCHANGED <<cfgAck, toMgr, done>>
    BY <1>3 DEF ConfigDetails, PostRound, ackVars, netVars
  <2>2. \A v \in postQueue' : Deps[v] \subseteq cfgAck
    BY <1>3 DEF ConfigDetails, PostRound, Independent, ReadyAfter
  <2> QED
    BY <1>i, <1>d, <1>m, <2>1, <2>2 DEF PostInv, InitBeforeConfig
<1>4. ASSUME NEW v \in Vdu, PostConfigure(v) PROVE PostInv'
  <2>1. v \in postQueue /\ postQueue' \subseteq postQueue /\ UNCHANGED done /\ pc = "post"
    BY <1>4 DEF PostConfigure
  <2>2. MayConfigure(v)
    <3>1. v \in Range(configured)
      BY <2>1 DEF IInv, PlanInv, PastLoop
    <3>2. \A d \in Deps[v] : Served(d)
      BY <1>i, <2>1 DEF PostInv
    <3> QED
      BY <3>1, <3>2, ConfiguredIsDone DEF MayConfigure
  <2>3. cfgAck' = cfgAck \/ (cfgAck' = cfgAck \cup {v} /\ ~PostDriven(v))
    BY <1>4 DEF PostConfigure
  <2>4. ASSUME NEW m \in toMgr', m.event = "config", m \notin toMgr PROVE m.vdus = {v}
    BY <1>4, <2>4 DEF PostConfigure, SendCast
  <2>5. \A w \in cfgAck' : Served(w)
    BY <1>i, <2>3 DEF PostInv, Served
  <2>6. \A m \in toMgr' : m.event = "config" => \A w \in m.vdus : MayConfigure(w)
    BY <1>i, <2>2, <2>4 DEF PostInv
  <2> QED
    BY <1>i, <1>d, <1>m, <2>1, <2>5, <2>6 DEF PostInv, InitBeforeConfig
<1>5. ASSUME NEW m \in toPlugin, SendAck(m) PROVE PostInv'
  <2>1. UNCHANGED <<postQueue, toMgr, done>>
    BY <1>5 DEF SendAck, progressVars
  <2>2. m \in Ack /\ m.unit \in Unit /\ m.unit[2] \in Inst
    BY <1>i, MessageTypes DEF TypeOK, NetTypeOK, Ack
  <2>3. ASSUME NEW v \in cfgAck', v \notin cfgAck PROVE Served(v)
    <3>1. m.unit[1] = "config" /\ m.status = "COMPLETE" /\ v = VduOf[m.unit[2]]
      BY <1>5, <2>3 DEF SendAck, ConfigAck, ackVars
    <3>2. m.unit \in done
      BY <3>1 DEF IInv, WorkInv, Truthful
    <3>3. m.unit \in UnitsOf("config", v)
      BY <2>2, <3>1, MessageTypes DEF UnitsOf, InstOf
    <3> QED
      BY <3>2, <3>3 DEF Served
  <2> QED
    BY <1>i, <1>d, <1>m, <2>1, <2>3 DEF PostInv, InitBeforeConfig
<1> QED
  BY <1>1, <1>2, <1>3, <1>4, <1>5 DEF DeployNext, DeployStep, BootEnd

(* The steps of the manager keep PostInv.                                  *)
LEMMA MgrPost == IInv /\ MgrNext /\ UNCHANGED deployVars => PostInv'
<1> SUFFICES ASSUME IInv, MgrNext, UNCHANGED deployVars PROVE PostInv'
  OBVIOUS
<1>i. PostInv /\ TypeOK /\ [Next]_vars
  BY DEF IInv, Next
<1>d. /\ done \subseteq done'
      /\ \A v : (Served(v) => Served(v)') /\ (MayConfigure(v) => MayConfigure(v)')
  BY <1>i, DoneGrows, MayStay
<1>p. UNCHANGED <<cfgAck, postQueue>>
  BY DEF deployVars
<1>t. /\ threads \in [Unit -> {"none", "running", "COMPLETE", "ERROR"}]
      /\ todo \subseteq Unit /\ toMgr \subseteq Cast
  BY <1>i DEF TypeOK, NetTypeOK, MgrTypeOK
<1>1. CASE MgrStart \/ MgrStartFails \/ MgrConstructed \/ MgrListen \/ MgrCrash
  <2>1. UNCHANGED <<toMgr, done, threads>>
        /\ \A u \in todo' : u[1] = "config" => u \in todo
    BY <1>1 DEF MgrStart, MgrStartFails, MgrConstructed, MgrListen, MgrCrash, mgrVars, InitUnits
  <2> QED
    BY <1>i, <1>p, <2>1, PostFrame
<1>2. ASSUME NEW m \in toMgr, Receive(m) PROVE PostInv'
  <2>1. UNCHANGED <<done, threads>> /\ toMgr' \subseteq toMgr
    BY <1>2 DEF Receive, ConfigureVdus, ConfigureVdusFails, PostConfigureCast
  <2>2. CASE ConfigureVdus(m) \/ ConfigureVdusFails(m)
    <3>1. \A u \in todo' : u[1] = "config" => u \in todo
      BY <2>2 DEF ConfigureVdus, ConfigureVdusFails, InitUnits
    <3> QED
      BY <1>i, <1>p, <2>1, <3>1, PostFrame
  <2>3. CASE PostConfigureCast(m)
    <3>1. PICK v \in m.vdus : \E S \in PostUnits(v) : todo' = todo \cup S
      BY <2>3 DEF PostConfigureCast
    <3>2. PICK S \in PostUnits(v) : todo' = todo \cup S
      BY <3>1
    <3>3. MayConfigure(v)
      BY <1>i, <2>3 DEF PostInv, PostConfigureCast
    <3>4. \A u \in S : VduOf[u[2]] = v
      BY <3>2 DEF PostUnits, UnitsOf, InstOf
    <3> QED
      BY <1>i, <1>d, <1>p, <2>1, <3>2, <3>3, <3>4 DEF PostInv, InitBeforeConfig
  <2> QED
    BY <1>2, <2>2, <2>3 DEF Receive
<1>3. ASSUME NEW u \in Unit, Work(u) PROVE PostInv'
  <2>1. UNCHANGED toMgr
    BY <1>3 DEF Work, ConfigureInstance, ConfigureService, MonitorAck
  <2>2. CASE ConfigureInstance(u)
    <3>1. /\ u \in todo /\ todo' \subseteq todo
          /\ \A w \in Unit : w # u => threads'[w] = threads[w]
      BY <1>t, <2>2 DEF ConfigureInstance, AckWithoutDriver, AckFailure, InvokeDriverThread
    <3>2. \A i \in Inst : <<"config", i>> \in done' => <<"config", i>> \in done
      BY <2>2 DEF ConfigureInstance, AckWithoutDriver, AckFailure, InvokeDriverThread
    <3> QED
      BY <1>i, <1>p, <2>1, <3>1, <3>2, PostFrame
  <2>3. CASE ConfigureService(u)
    <3>1. /\ threads[u] = "running" /\ threads'[u] # "running" /\ UNCHANGED todo
          /\ \A w \in Unit : w # u => threads'[w] = threads[w]
          /\ done' \subseteq done \cup {u}
      BY <1>t, <2>3 DEF ConfigureService
    <3>2. ASSUME NEW i \in Inst, u = <<"config", i>> PROVE <<"init", i>> \in done
      <4>1. InitDone(VduOf[i])
        BY <1>i, <3>1, <3>2 DEF PostInv, MayConfigure
      <4> QED
        BY <4>1 DEF InitDone, UnitsOf, InstOf
    <3>3. InitBeforeConfig'
      BY <1>i, <1>d, <3>1, <3>2 DEF PostInv, InitBeforeConfig
    <3> QED
      BY <1>i, <1>d, <1>p, <2>1, <3>1, <3>3 DEF PostInv
  <2>4. CASE MonitorAck(u)
    <3>1. UNCHANGED <<todo, done>> /\ \A w \in Unit : threads'[w] = "running" => threads[w] = "running"
      BY <1>t, <2>4 DEF MonitorAck
    <3> QED
      BY <1>i, <1>p, <2>1, <3>1, PostFrame
  <2> QED
    BY <1>3, <2>2, <2>3, <2>4 DEF Work
<1> QED
  BY <1>1, <1>2, <1>3 DEF MgrNext

-----------------------------------------------------------------------------
(* IInv holds at the start: nothing is anywhere.                           *)
LEMMA InitInv == Init => IInv
<1> SUFFICES ASSUME Init PROVE IInv
  OBVIOUS
<1>1. TypeOK
  BY InitTypes
<1>e. Range(<< >>) = {} /\ Cardinality({}) = 0
  BY FS_EmptySet DEF Range
<1> USE DEF Init, NetInit, DeployInit, MgrInit
<1>2. \A v \in Vdu : Range(ackList[v]) = {} /\ Len(ackList[v]) = 0
  BY <1>e
<1>3. \A i \in Inst : ~Recorded(i)
  BY <1>2, InitUnitsAre DEF Recorded
<1>4. \A u \in Unit : ~InFlight(u) /\ threads[u] = "none"
  BY DEF InFlight
<1>5. UnknownIdle /\ OneAck /\ Truthful /\ ErroredSpent
  BY <1>3, <1>4 DEF UnknownIdle, OneAck, Truthful, ErroredSpent
<1>6. OnePlace
  BY <1>3, <1>4, InitUnitsAre DEF OnePlace, InFlight
<1>7. AckListSound /\ ConfiguredSound
  BY <1>2, <1>e DEF AckListSound, ConfiguredSound
<1>8. PlanInv
  BY DEF PlanInv, KnownDeployed, ManagerFresh, LaunchOrder, PastLoop
<1>9. PostInv
  BY DEF PostInv, InitBeforeConfig
<1> QED
  BY <1>1, <1>5, <1>6, <1>7, <1>8, <1>9 DEF IInv, WorkInv

(* IInv is inductive.                                                      *)
LEMMA StepInv == IInv /\ [Next]_vars => IInv'
<1>1. CASE UNCHANGED vars
  <2> USE <1>1 DEF vars, netVars, deployVars, mgrVars
  <2>1. IInv => TypeOK'
    BY StepTypes DEF IInv
  <2>2. IInv => WorkInv'
    BY WorkFrame DEF IInv, workVars
  <2>3. IInv => PlanInv'
    BY DEF IInv, PlanInv, KnownDeployed, ManagerFresh, LaunchOrder, PastLoop
  <2>4. IInv => PostInv'
    BY DEF IInv, PostInv, InitBeforeConfig, Served, MayConfigure, InitDone
  <2> QED
    BY <2>1, <2>2, <2>3, <2>4 DEF IInv
<1>2. CASE Next
  <2>1. IInv => TypeOK'
    BY <1>2, StepTypes DEF IInv
  <2>2. IInv => WorkInv' /\ PlanInv' /\ PostInv'
    BY <1>2, DeployWork, MgrWork, DeployPlan, MgrPlan, DeployPost, MgrPost DEF Next
  <2> QED
    BY <2>1, <2>2 DEF IInv
<1> QED
  BY <1>1, <1>2

(* The inductive invariant holds in every behaviour.                       *)
THEOREM Invariance == Spec => []IInv
BY InitInv, StepInv, PTL DEF Spec

-----------------------------------------------------------------------------
(* A VDU is booted only after every VDU it depends on is configured.       *)
THEOREM OrderSafe == Spec => []DependencyOrder
<1>1. IInv => DependencyOrder
  BY ConfiguredIsDone DEF IInv, PlanInv, LaunchOrder, DependencyOrder
<1> QED
  BY <1>1, Invariance, PTL

(* ACTIVE is written only when every VDU carries its configuration.        *)
THEOREM ActiveSafe == Spec => []ActiveMeansInitDone
<1>1. IInv => ActiveMeansInitDone
  BY ConfiguredIsDone DEF IInv, PlanInv, PastLoop, ActiveMeansInitDone
<1> QED
  BY <1>1, Invariance, PTL

(* A failed initial configuration keeps the service from becoming ACTIVE.  *)
THEOREM ErrorSafe == Spec => []InitErrorKeepsInactive
<1>1. IInv => InitErrorKeepsInactive
  <2> SUFFICES ASSUME IInv, NEW v \in Vdu, v \in errored, status = "ACTIVE" PROVE FALSE
    BY DEF InitErrorKeepsInactive
  <2>1. PICK i \in InstOf(v) : ~Recorded(i)
    BY DEF IInv, WorkInv, ErroredSpent
  <2>2. v \in Range(configured) /\ VduOf[i] = v
    BY InitUnitsAre DEF IInv, PlanInv, PastLoop
  <2> QED
    BY <2>1, <2>2 DEF IInv, WorkInv, ConfiguredSound, Recorded
<1> QED
  BY <1>1, Invariance, PTL

(* The plugin never lists a VDU as configured twice.                       *)
THEOREM ConfiguredOnceSafe == Spec => []ConfiguredOnce
<1>1. IInv => ConfiguredOnce
  <2> SUFFICES ASSUME IInv PROVE ConfiguredOnce
    OBVIOUS
  <2> DEFINE R == Range(configured)
             D == 1..Len(configured)
  <2>1. configured \in Seq(Vdu) /\ DOMAIN configured = D /\ Len(configured) \in Nat
    BY DEF IInv, TypeOK, DeployTypeOK
  <2>2. configured \in Surjection(D, R)
    BY <2>1 DEF Surjection, Range
  <2>3. IsFiniteSet(D) /\ Cardinality(D) = Len(configured)
    BY <2>1, FS_Interval
  <2>4. configured \in Injection(D, R)
    BY <2>2, <2>3, FS_SurjSameCardinalityImpliesInj DEF IInv, WorkInv, ConfiguredSound
  <2> QED
    BY <2>1, <2>4 DEF Injection, IsInjective, ConfiguredOnce
<1> QED
  BY <1>1, Invariance, PTL

(* A machine is post-configured only after what its VDU depends on was, as *)
(* far as there was anything to do, in at least one instance.              *)
THEOREM PostOrderSafe == Spec => []PostConfigureOrder
<1>1. IInv => PostConfigureOrder
  <2>1. IInv => todo \subseteq Unit
    BY DEF IInv, TypeOK, MgrTypeOK
  <2> QED
    BY <2>1 DEF IInv, PostInv, MayConfigure, Served, PostConfigureOrder
<1> QED
  BY <1>1, Invariance, PTL

(* No instance is post-configured that was not initialised before, though  *)
(* the manager's postConfigure looks at nothing of the kind.               *)
THEOREM InitFirstSafe == Spec => []InitBeforeConfig
<1>1. IInv => InitBeforeConfig
  BY DEF IInv, PostInv
<1> QED
  BY <1>1, Invariance, PTL

(* Only BootStart gives a VDU its machines.                                *)
LEMMA OnlyBootStart ==
  ASSUME TypeOK, [Next]_vars, NEW v \in Vdu, vm[v] = "none", vm'[v] # "none"
  PROVE  v \in batch
<1>t. vm \in [Vdu -> {"none", "building", "active", "error"}]
  BY DEF TypeOK, NetTypeOK
<1>1. CASE UNCHANGED vm
  BY <1>1
<1>2. ASSUME NEW w \in Vdu, BootStart(w) PROVE v \in batch
  BY <1>t, <1>2 DEF BootStart
<1>3. ASSUME NEW w \in Vdu, BootDone(w) \/ BootError(w) PROVE v \in batch
  BY <1>t, <1>3 DEF BootDone, BootError
<1>4. ASSUME \/ DeployStep \/ InvokeWithoutMgmtIf \/ InvokeManagerFails
             \/ ApiFailure \/ Restart
      PROVE  UNCHANGED vm \/ \E w \in Vdu : BootStart(w)
  BY <1>4 DEF DeployStep, CreateVnfds, InvokeManager, InvokeWithoutMgmtIf,
     InvokeManagerFails, SendConfigure, WaitRaise, WaitDone, ResolveRound, ResolveDone, ConfigDetails,
     PostConfigure, WaitPostDone, PostRound, PostDone, ApiFailure, Restart, netVars
<1>5. (\E m \in toPlugin : SendAck(m)) => UNCHANGED vm
  BY DEF SendAck
<1>6. MgrNext => UNCHANGED vm
  BY DEF MgrNext, MgrStart, MgrStartFails, MgrConstructed, MgrListen, MgrCrash,
     Receive, ConfigureVdus, ConfigureVdusFails, PostConfigureCast, Work,
     ConfigureInstance, ConfigureService, MonitorAck
<1> QED
  BY <1>1, <1>2, <1>3, <1>4, <1>5, <1>6
     DEF Next, DeployNext, BootEnd, vars, netVars

(* VDUs that wait for one another are never booted.                        *)
THEOREM CycleSafe == Spec => []CycleNeverBoots
<1>1. ASSUME IInv, NEW v \in Range(configured) PROVE v \in Vdu /\ vm[v] # "none"
  <2>1. v \in Vdu
    BY <1>1 DEF IInv, TypeOK, DeployTypeOK, Range
  <2>2. PICK i \in Inst : VduOf[i] = v
    BY <2>1
  <2>3. Recorded(i)
    BY <1>1, <2>2, InitUnitsAre DEF IInv, WorkInv, ConfiguredSound, Recorded
  <2> QED
    BY <1>1, <2>1, <2>2, <2>3
       DEF IInv, WorkInv, UnknownIdle, PlanInv, KnownDeployed
<1>2. Init => CycleNeverBoots
  BY DEF Init, NetInit, DeployInit, CycleNeverBoots
<1>3. IInv /\ IInv' /\ [Next]_vars /\ CycleNeverBoots => CycleNeverBoots'
  <2> SUFFICES ASSUME IInv, IInv', [Next]_vars, CycleNeverBoots,
                      NEW S \in SUBSET Vdu, S # {}, (\A v \in S : Deps[v] \cap S # {})
               PROVE  (\A v \in S : vm'[v] = "none") /\ status' # "ACTIVE"
    BY DEF CycleNeverBoots
  <2>1. \A v \in S : vm[v] = "none"
    BY DEF CycleNeverBoots
  <2>2. ASSUME NEW v \in S, vm'[v] # "none" PROVE FALSE
    <3>1. v \in batch
      BY <2>1, <2>2, OnlyBootStart DEF IInv
    <3>2. PICK d \in Deps[v] : d \in S
      OBVIOUS
    <3>3. d \in Range(configured)
      BY <3>1, <3>2 DEF IInv, PlanInv, LaunchOrder
    <3> QED
      BY <1>1, <2>1, <3>2, <3>3
  <2>3. status' # "ACTIVE"
    <3>1. ASSUME status' = "ACTIVE" PROVE FALSE
      <4>1. Vdu \subseteq Range(configured)'
        BY <3>1 DEF IInv, PlanInv, PastLoop
      <4>2. \A v \in S : v \in deployed' /\ v \in Range(configured')
        <5>1. ASSUME NEW v \in S PROVE v \in deployed'
          <6>1. PICK i \in Inst : VduOf[i] = v
            OBVIOUS
          <6>2. Recorded(i)'
            BY <4>1, <6>1, InitUnitsAre DEF IInv, WorkInv, ConfiguredSound, Recorded
          <6> QED
            BY <6>1, <6>2 DEF IInv, WorkInv, UnknownIdle, PlanInv, KnownDeployed
        <5> QED
          BY <4>1, <5>1
      <4> QED
        BY <2>2, <4>2 DEF IInv, PlanInv, KnownDeployed
    <3> QED
      BY <3>1
  <2> QED
    BY <2>2, <2>3
<1> QED
  BY <1>2, <1>3, Invariance, PTL DEF Spec

-----------------------------------------------------------------------------
(* NSOrchestration implements OrderedBringUp: a step of the plugin or the  *)
(* manager boots or configures one VDU, fails or activates the service, or *)
(* is not seen at all.                                                     *)

(* A VDU without machines carries nothing; one the plugin lists as         *)
(* configured is seen to be configured.                                    *)
LEMMA Stages ==
  ASSUME IInv
  PROVE  /\ \A v \in Vdu : vm[v] = "none" => ~InitDone(v)
         /\ Range(configured) \subseteq BringUp!Configured
<1>1. ASSUME NEW v \in Vdu, InitDone(v) PROVE vm[v] # "none"
  <2>1. PICK i \in Inst : VduOf[i] = v
    OBVIOUS
  <2>2. InitUnit(i) \in done /\ InitUnit(i) \in Unit /\ InitUnit(i)[2] = i
    BY <1>1, <2>1, InitUnitsAre DEF InitDone
  <2> QED
    BY <2>1, <2>2 DEF IInv, WorkInv, UnknownIdle, PlanInv, KnownDeployed
<1>2. ASSUME NEW v \in Range(configured) PROVE v \in BringUp!Configured
  BY <1>1, <1>2, ConfiguredIsDone DEF BringUp!Configured, stageOf
<1> QED
  BY <1>1, <1>2

(* What is seen of a step depends on the machines, the work done and the   *)
(* status.                                                                 *)
LEMMA SeenFrame == UNCHANGED <<vm, done>> => stageOf' = stageOf
BY DEF stageOf, InitDone

(* A unit of work that is done configures a VDU, or is not seen.           *)
LEMMA WorkSeen ==
  ASSUME IInv, NEW u \in Unit, done' \in {done, done \cup {u}}, UNCHANGED <<vm, status>>
  PROVE  BringUp!Next \/ UNCHANGED <<stageOf, status>>
<1> DEFINE v == VduOf[u[2]]
<1>1. v \in Vdu
  BY MessageTypes
<1>2. \A w \in Vdu : /\ InitDone(w) => InitDone(w)'
                     /\ w # v => (InitDone(w)' <=> InitDone(w))
  <2>1. \A w \in Vdu : w # v => u \notin UnitsOf("init", w)
    BY DEF UnitsOf, InstOf
  <2> QED
    BY <2>1 DEF InitDone
<1>3. CASE InitDone(v)' <=> InitDone(v)
  BY <1>2, <1>3 DEF stageOf
<1>4. CASE vm[v] = "none"
  BY <1>2, <1>4 DEF stageOf
<1>5. CASE vm[v] # "none" /\ InitDone(v)' /\ ~InitDone(v)
  <2>1. stageOf[v] = "booted" /\ stageOf' = [stageOf EXCEPT ![v] = "configured"]
    BY <1>1, <1>2, <1>5 DEF stageOf
  <2> QED
    BY <1>1, <2>1 DEF BringUp!Next, BringUp!Configure
<1> QED
  BY <1>1, <1>2, <1>3, <1>4, <1>5

(* A step of the plugin is a step of OrderedBringUp or a stutter.          *)
LEMMA DeploySeen ==
  ASSUME IInv, DeployNext, UNCHANGED mgrVars
  PROVE  BringUp!Next \/ UNCHANGED <<stageOf, status>>
<1>t. vm \in [Vdu -> {"none", "building", "active", "error"}]
  BY DEF IInv, TypeOK, NetTypeOK
<1>1. ASSUME NEW v \in Vdu, BootStart(v) PROVE BringUp!Next \/ UNCHANGED <<stageOf, status>>
  <2>1. vm' = [vm EXCEPT ![v] = "building"] /\ UNCHANGED <<done, status>> /\ v \in batch
    BY <1>1 DEF BootStart
  <2>2. \A w \in Vdu : InitDone(w)' <=> InitDone(w)
    BY <2>1 DEF InitDone
  <2>3. CASE vm[v] = "none"
    <3>1. stageOf[v] = "absent" /\ stageOf' = [stageOf EXCEPT ![v] = "booted"]
      BY <1>t, <2>1, <2>2, <2>3, Stages DEF stageOf
    <3>2. Deps[v] \subseteq BringUp!Configured
      BY <2>1, Stages DEF IInv, PlanInv, LaunchOrder
    <3> QED
      BY <2>1, <3>1, <3>2 DEF BringUp!Next, BringUp!Boot
  <2>4. CASE vm[v] # "none"
    BY <1>t, <2>1, <2>2, <2>4 DEF stageOf
  <2> QED
    BY <2>3, <2>4
<1>2. ASSUME NEW v \in Vdu, BootDone(v) \/ BootError(v)
      PROVE  BringUp!Next \/ UNCHANGED <<stageOf, status>>
  <2>1. vm[v] # "none" /\ vm'[v] # "none" /\ UNCHANGED done
        /\ \A w \in Vdu : w # v => vm'[w] = vm[w]
    BY <1>t, <1>2 DEF BootDone, BootError
  <2>2. UNCHANGED stageOf
    BY <2>1 DEF stageOf, InitDone
  <2>3. status' = status \/ status' = "ERROR"
    BY <1>2 DEF BootDone, BootError
  <2> QED
    BY <2>2, <2>3 DEF BringUp!Next, BringUp!Fail
<1>3. ASSUME NEW m \in toPlugin, SendAck(m) PROVE BringUp!Next \/ UNCHANGED <<stageOf, status>>
  <2>1. UNCHANGED stageOf
    BY <1>3, SeenFrame DEF SendAck
  <2>2. status' = status \/ status' = "ERROR"
    BY <1>3 DEF SendAck, InitAck, ConfigAck
  <2> QED
    BY <2>1, <2>2 DEF BringUp!Next, BringUp!Fail
<1>4. CASE PostDone
  <2>1. UNCHANGED stageOf
    BY <1>4, SeenFrame DEF PostDone, netVars
  <2>2. BringUp!Configured = Vdu /\ status' = "ACTIVE"
    BY <1>4, Stages DEF PostDone, IInv, PlanInv, PastLoop, BringUp!Configured
  <2> QED
    BY <2>1, <2>2 DEF BringUp!Next, BringUp!Activate
<1>5. CASE \/ CreateVnfds \/ InvokeManager \/ SendConfigure \/ WaitRaise \/ WaitDone
           \/ ResolveRound \/ ResolveDone \/ ConfigDetails \/ WaitPostDone \/ PostRound
           \/ InvokeWithoutMgmtIf \/ InvokeManagerFails \/ ApiFailure \/ Restart
           \/ \E v \in Vdu : PostConfigure(v)
  <2>1. UNCHANGED <<vm, done, status>>
    BY <1>5 DEF CreateVnfds, InvokeManager, SendConfigure, WaitRaise, WaitDone,
       ResolveRound, ResolveDone, ConfigDetails, WaitPostDone, PostRound,
       InvokeWithoutMgmtIf, InvokeManagerFails, ApiFailure, Restart,
       PostConfigure, netVars
  <2> QED
    BY <2>1, SeenFrame
<1> QED
  BY <1>1, <1>2, <1>3, <1>4, <1>5 DEF DeployNext, DeployStep, BootEnd

(* A step of the manager is a step of OrderedBringUp or a stutter.         *)
LEMMA MgrSeen ==
  ASSUME IInv, MgrNext, UNCHANGED deployVars
  PROVE  BringUp!Next \/ UNCHANGED <<stageOf, status>>
<1>1. UNCHANGED status
  BY DEF deployVars
<1>2. CASE MgrStart \/ MgrStartFails \/ MgrConstructed \/ MgrListen \/ MgrCrash
           \/ \E m \in toMgr : Receive(m)
  <2>1. UNCHANGED <<vm, done>>
    BY <1>2 DEF MgrStart, MgrStartFails, MgrConstructed, MgrListen, MgrCrash,
       Receive, ConfigureVdus, ConfigureVdusFails, PostConfigureCast
  <2> QED
    BY <1>1, <2>1, SeenFrame
<1>3. ASSUME NEW u \in Unit, Work(u) PROVE BringUp!Next \/ UNCHANGED <<stageOf, status>>
  <2>1. UNCHANGED vm /\ done' \in {done, done \cup {u}}
    BY <1>3 DEF Work, ConfigureInstance, AckWithoutDriver, AckFailure,
       InvokeDriverThread, ConfigureService, MonitorAck
  <2> QED
    BY <1>1, <2>1, WorkSeen
<1> QED
  BY <1>2, <1>3 DEF MgrNext

(* The plugin and the manager together keep the promise of OrderedBringUp. *)
THEOREM Refinement == Spec => Implements
<1>1. Init => BringUp!Init
  <2>1. Init => IInv
    BY InitInv
  <2> QED
    BY <2>1, Stages DEF Init, NetInit, DeployInit, BringUp!Init, stageOf
<1>2. IInv /\ [Next]_vars => [BringUp!Next]_(BringUp!vars)
  <2>1. CASE UNCHANGED vars
    BY <2>1, SeenFrame DEF vars, netVars, deployVars, BringUp!vars
  <2>2. CASE DeployNext /\ UNCHANGED mgrVars
    BY <2>2, DeploySeen DEF BringUp!vars
  <2>3. CASE MgrNext /\ UNCHANGED deployVars
    BY <2>3, MgrSeen DEF BringUp!vars
  <2> QED
    BY <2>1, <2>2, <2>3 DEF Next
<1> QED
  BY <1>1, <1>2, Invariance, PTL DEF Spec, BringUp!Spec, Implements
=============================================================================

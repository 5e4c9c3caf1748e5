------------------------ MODULE SharedPlugin_proofs ------------------------
(***************************************************************************)
(* Proofs about SharedPlugin, for every set of services, templates and     *)
(* VDUs, and every dependency relation within a template.                  *)
(***************************************************************************)
EXTENDS SharedPlugin, FiniteSetTheorems, TLAPS

USE SharedAssumption

(* The VDUs of a service are VDUs, finitely many.                          *)
LEMMA VdusAre ==
  ASSUME NEW s \in Service
  PROVE  /\ TemplateOf[s] \in Template /\ VdusIn(s) \subseteq Vdu /\ IsFiniteSet(VdusIn(s))
         /\ \A v \in VdusIn(s) : DepsIn(s)[v] \subseteq VdusIn(s)
         /\ Independent(s) \subseteq VdusIn(s) /\ Ready(s) \subseteq VdusIn(s)
BY DEF VdusIn, DepsIn, Independent, Ready

(* What parsing a VNFD does, with the row of the service when it is the    *)
(* last one.                                                               *)
LEMMA Parsing ==
  ASSUME TypeOK, NEW s \in Service, NEW v \in VdusIn(s), ParseVnfd(s, v)
  PROVE  /\ pc[s] = "parse" /\ parsed' = [parsed EXCEPT ![s] = parsed[s] \cup {v}]
         /\ lfevent_details' = [lfevent_details EXCEPT ![s] = parsed[s] \cup {v}]
         /\ \/ UNCHANGED <<pc, rowTemplate, rowEvents, status>>
            \/ /\ rowTemplate' = [rowTemplate EXCEPT ![s] = template_id]
               /\ rowEvents' = [rowEvents EXCEPT ![s] = VdusIn(s)]
               /\ status' = [status EXCEPT ![s] = "PENDING"]
               /\ pc' = [pc EXCEPT ![s] = "start"]
         /\ UNCHANGED <<template_id, independent_vdus, configured_instances, client, roundVars,
                        bookVars, outVars>>
<1>1. /\ parsed' = [parsed EXCEPT ![s] = parsed[s] \cup {v}]
      /\ lfevent_details' = [lfevent_details EXCEPT ![s] = parsed'[s]]
  BY DEF ParseVnfd
<1>2. parsed'[s] = parsed[s] \cup {v} /\ lfevent_details'[s] = parsed'[s]
  BY <1>1 DEF TypeOK
<1>3. CASE parsed'[s] = VdusIn(s)
  BY <1>1, <1>2, <1>3 DEF ParseVnfd, EnterRow, Goto
<1>4. CASE parsed'[s] # VdusIn(s)
  BY <1>1, <1>2, <1>4 DEF ParseVnfd
<1> QED
  BY <1>3, <1>4

(* What launching a VDU does: nova is asked for one more machine, or the   *)
(* green thread ends.                                                      *)
LEMMA Launching ==
  ASSUME TypeOK, NEW s \in Service, NEW v \in VdusIn(s), Launch(s, v)
  PROVE  /\ pc[s] = "launch" /\ v \in todo[s]
         /\ todo' = [todo EXCEPT ![s] = todo[s] \ {v}]
         /\ \/ /\ machines' = [machines EXCEPT ![s] =
                                 [machines[s] EXCEPT ![v] = Append(machines[s][v], template_id)]]
               /\ at' = [at EXCEPT ![s] = v] /\ pc' = [pc EXCEPT ![s] = "booting"]
            \/ UNCHANGED <<machines, at>> /\ pc' = [pc EXCEPT ![s] = "failed"]
BY DEF Launch, Goto

-----------------------------------------------------------------------------
(* Types *)

(* The steps up to the row of a service keep the types;                    *)
LEMMA CreateTypes ==
  ASSUME TypeOK, NEW s \in Service, CreateService(s) \/ \E v \in VdusIn(s) : ParseVnfd(s, v),
         overlapped' \in BOOLEAN
  PROVE  TypeOK'
<1> USE DEF TypeOK, attrVars, roundVars, bookVars, rowVars, outVars, Goto
<1>1. CASE CreateService(s)
  BY <1>1, VdusAre DEF CreateService
<1>2. ASSUME NEW v \in VdusIn(s), ParseVnfd(s, v) PROVE TypeOK'
  <2> HIDE DEF TypeOK
  <2>0. /\ parsed \in [Service -> SUBSET Vdu] /\ lfevent_details \in [Service -> SUBSET Vdu]
        /\ rowTemplate \in [Service -> Template \cup {None}]
        /\ rowEvents \in [Service -> SUBSET Vdu]
        /\ status \in [Service -> {None, "PENDING", "ACTIVE"}]
        /\ pc \in [Service -> {"idle", "parse", "start", "launch", "booting", "invoking",
                               "wait", "resolve", "details", "post", "done", "failed"}]
        /\ template_id \in Template \cup {None}
    BY DEF TypeOK
  <2>1. parsed[s] \cup {v} \in SUBSET Vdu /\ VdusIn(s) \in SUBSET Vdu
    BY <2>0, VdusAre
  <2>2. parsed' \in [Service -> SUBSET Vdu] /\ lfevent_details' \in [Service -> SUBSET Vdu]
    BY <1>2, <2>0, <2>1, Parsing
  <2>3. /\ rowTemplate' \in [Service -> Template \cup {None}]
        /\ rowEvents' \in [Service -> SUBSET Vdu]
        /\ status' \in [Service -> {None, "PENDING", "ACTIVE"}]
        /\ pc' \in [Service -> {"idle", "parse", "start", "launch", "booting", "invoking",
                               "wait", "resolve", "details", "post", "done", "failed"}]
    BY <1>2, <2>0, <2>1, Parsing
  <2>4. UNCHANGED <<template_id, independent_vdus, configured_instances, client, roundVars,
                    bookVars, outVars>>
    BY <1>2, Parsing
  <2> QED
    BY <2>2, <2>3, <2>4 DEF TypeOK
<1> QED
  BY <1>1, <1>2

(* so do the launches,                                                     *)
LEMMA LaunchTypes ==
  ASSUME TypeOK, ListsSound, NEW s \in Service, overlapped' \in BOOLEAN,
         \/ CreateVnfds(s) \/ Booted(s) \/ BootedUnseen(s)
         \/ \E v \in VdusIn(s) : Launch(s, v)
  PROVE  TypeOK'
<1> USE DEF TypeOK, attrVars, roundVars, bookVars, rowVars, outVars, Goto
<1>1. CASE CreateVnfds(s)
  BY <1>1, VdusAre DEF CreateVnfds
<1>2. CASE Booted(s)
  <2>1. at[s] \in Vdu
    BY <1>2, VdusAre DEF Booted, ListsSound
  <2> QED
    BY <1>2, <2>1 DEF Booted
<1>3. CASE BootedUnseen(s)
  BY <1>3 DEF BootedUnseen
<1>4. ASSUME NEW v \in VdusIn(s), Launch(s, v) PROVE TypeOK'
  <2>1. template_id \in Template /\ v \in Vdu
    BY <1>4, VdusAre DEF Launch, ListsSound
  <2>2. Append(machines[s][v], template_id) \in Seq(Template)
    BY <2>1
  <2>3. [machines[s] EXCEPT ![v] = Append(machines[s][v], template_id)] \in [Vdu -> Seq(Template)]
    BY <2>1, <2>2
  <2> HIDE DEF TypeOK
  <2>m. machines \in [Service -> [Vdu -> Seq(Template)]] /\ at \in [Service -> Vdu \cup {None}]
    BY DEF TypeOK
  <2>p. /\ todo \in [Service -> SUBSET Vdu]
        /\ pc \in [Service -> {"idle", "parse", "start", "launch", "booting", "invoking",
                         "wait", "resolve", "details", "post", "done", "failed"}]
    BY DEF TypeOK
  <2> DEFINE more == [machines[s] EXCEPT ![v] = Append(machines[s][v], template_id)]
  <2>l. /\ todo' = [todo EXCEPT ![s] = todo[s] \ {v}]
        /\ \/ /\ machines' = [machines EXCEPT ![s] = more]
              /\ at' = [at EXCEPT ![s] = v] /\ pc' = [pc EXCEPT ![s] = "booting"]
           \/ UNCHANGED <<machines, at>> /\ pc' = [pc EXCEPT ![s] = "failed"]
    BY <1>4, Launching
  <2>4. machines' \in [Service -> [Vdu -> Seq(Template)]]
    <3>1. more \in [Vdu -> Seq(Template)]
      BY <2>3
    <3> HIDE DEF more
    <3> QED
      BY <2>l, <2>m, <3>1
  <2> HIDE DEF more
  <2>5. /\ at' \in [Service -> Vdu \cup {None}] /\ todo' \in [Service -> SUBSET Vdu]
        /\ pc' \in [Service -> {"idle", "parse", "start", "launch", "booting", "invoking",
                         "wait", "resolve", "details", "post", "done", "failed"}]
    <3>1. at' = [at EXCEPT ![s] = v] \/ at' = at
      BY <2>l
    <3>2. pc' = [pc EXCEPT ![s] = "booting"] \/ pc' = [pc EXCEPT ![s] = "failed"]
      BY <2>l
    <3>3. at' \in [Service -> Vdu \cup {None}]
      BY <2>1, <2>m, <3>1
    <3>4. todo' \in [Service -> SUBSET Vdu]
      BY <2>l, <2>p
    <3> QED
      BY <2>p, <3>2, <3>3, <3>4
  <2> QED
    BY <1>4, <2>4, <2>5 DEF Launch, TypeOK
<1> QED
  BY <1>1, <1>2, <1>3, <1>4

(* and the waits, the configurations and the acknowledgements.             *)
LEMMA WaitTypes ==
  ASSUME TypeOK, NEW s \in Service, overlapped' \in BOOLEAN,
         \/ InvokeManager(s) \/ WaitIndependent(s) \/ SendConfigure(s)
         \/ WaitDone(s) \/ ResolveRound(s) \/ ResolveDone(s)
         \/ PostConfigure(s) \/ DeployDone(s)
         \/ \E v \in Vdu : BuildAcknowledgeList(s, v)
  PROVE  TypeOK'
<1> USE DEF TypeOK, attrVars, roundVars, bookVars, rowVars, outVars, Goto
<1>1. CASE InvokeManager(s)
  BY <1>1 DEF InvokeManager, GenerateConf, Unconfigured, Bare
<1>2. CASE WaitIndependent(s)
  BY <1>2 DEF WaitIndependent
<1>3. CASE SendConfigure(s)
  BY <1>3 DEF SendConfigure, GenerateConf, Unconfigured, Bare
<1>4. CASE WaitDone(s) \/ ResolveDone(s)
  BY <1>4 DEF WaitDone, ResolveDone
<1>5. CASE ResolveRound(s)
  BY <1>5, VdusAre DEF ResolveRound
<1>6. CASE PostConfigure(s)
  BY <1>6, VdusAre DEF PostConfigure
<1>7. CASE DeployDone(s)
  BY <1>7 DEF DeployDone
<1>8. ASSUME NEW v \in Vdu, BuildAcknowledgeList(s, v) PROVE TypeOK'
  BY <1>8 DEF BuildAcknowledgeList
<1> QED
  BY <1>1, <1>2, <1>3, <1>4, <1>5, <1>6, <1>7, <1>8

-----------------------------------------------------------------------------
(* The lists of a service *)

(* The steps keep the lists of every service sound.                        *)
LEMMA ListsKept ==
  ASSUME TypeOK, ListsSound, NEW s \in Service,
         CreateService(s) \/ Deploying(s) \/ \E v \in Vdu : BuildAcknowledgeList(s, v)
  PROVE  ListsSound'
<1> USE DEF TypeOK, ListsSound, attrVars, roundVars, bookVars, rowVars, outVars, Goto
<1>1. CASE CreateService(s)
  <2>1. /\ pc' = [pc EXCEPT ![s] = "parse"] /\ template_id' \in Template
        /\ UNCHANGED <<todo, deployed, asked, configured, at, status>>
    BY <1>1, VdusAre DEF CreateService
  <2> QED
    BY <2>1
<1>2. ASSUME NEW v \in VdusIn(s), ParseVnfd(s, v) PROVE ListsSound'
  <2>1. /\ UNCHANGED <<todo, deployed, asked, configured, at, template_id>> /\ pc[s] = "parse"
        /\ \/ UNCHANGED <<pc, status>>
           \/ /\ pc' = [pc EXCEPT ![s] = "start"]
              /\ status' = [status EXCEPT ![s] = "PENDING"] /\ "PENDING" # None
    BY <1>2, Parsing DEF None
  <2> QED
    BY <2>1
<1>3. ASSUME NEW v \in VdusIn(s), Launch(s, v) PROVE ListsSound'
  BY <1>3 DEF Launch
<1>4. CASE CreateVnfds(s)
  BY <1>4, VdusAre DEF CreateVnfds, Independent
<1>5. CASE Booted(s)
  <2>1. /\ deployed' = [deployed EXCEPT ![s] = deployed[s] \cup {at[s]}] /\ at[s] \in VdusIn(s)
        /\ pc[s] = "booting" /\ pc' = [pc EXCEPT ![s] = "launch"]
        /\ UNCHANGED <<todo, asked, configured, at, template_id, status>>
    BY <1>5 DEF Booted
  <2>2. \A r \in Service : deployed'[r] \subseteq VdusIn(r)
    BY <2>1
  <2> QED
    BY <2>1, <2>2
<1>u. CASE BootedUnseen(s)
  BY <1>u DEF BootedUnseen
<1>6. CASE InvokeManager(s)
  BY <1>6 DEF InvokeManager, GenerateConf, Unconfigured, Bare
<1>7. CASE WaitIndependent(s)
  BY <1>7 DEF WaitIndependent
<1>8. CASE SendConfigure(s)
  BY <1>8 DEF SendConfigure, GenerateConf, Unconfigured, Bare
<1>9. CASE WaitDone(s)
  BY <1>9 DEF WaitDone
<1>10. CASE ResolveDone(s)
  <2>1. configured[s] = VdusIn(s)
    <3>1. /\ configured[s] \subseteq VdusIn(s) /\ IsFiniteSet(VdusIn(s))
          /\ Cardinality(configured[s]) = Cardinality(VdusIn(s))
      BY <1>10, VdusAre DEF ResolveDone
    <3> QED
      BY <3>1, FS_Subset
  <2> QED
    BY <1>10, <2>1 DEF ResolveDone
<1>11. CASE ResolveRound(s)
  BY <1>11, VdusAre DEF ResolveRound, Ready
<1>12. CASE PostConfigure(s) \/ DeployDone(s)
  BY <1>12 DEF PostConfigure, DeployDone, None
<1>13. ASSUME NEW v \in Vdu, BuildAcknowledgeList(s, v) PROVE ListsSound'
  BY <1>13 DEF BuildAcknowledgeList
<1> QED
  BY <1>1, <1>2, <1>3, <1>4, <1>5, <1>u, <1>6, <1>7, <1>8, <1>9, <1>10, <1>11, <1>12, <1>13
     DEF Deploying

-----------------------------------------------------------------------------
(* Rows, and the order of the launches *)

(* A row keeps saying what is so: the events are those of all VDUs, and    *)
(* ACTIVE comes when all are configured.                                   *)
LEMMA RowsKept ==
  ASSUME TypeOK, ListsSound, EventsComplete, ActiveMeansConfigured, NEW s \in Service,
         CreateService(s) \/ Deploying(s) \/ \E v \in Vdu : BuildAcknowledgeList(s, v)
  PROVE  EventsComplete' /\ ActiveMeansConfigured'
<1> USE DEF EventsComplete, ActiveMeansConfigured
<1>1. ASSUME UNCHANGED <<status, rowEvents, configured>>
      PROVE  EventsComplete' /\ ActiveMeansConfigured'
  BY <1>1 DEF VdusIn
<1>2. ASSUME NEW v \in VdusIn(s), ParseVnfd(s, v) PROVE EventsComplete' /\ ActiveMeansConfigured'
  <2>1. /\ status \in [Service -> {None, "PENDING", "ACTIVE"}]
        /\ rowEvents \in [Service -> SUBSET Vdu]
    BY DEF TypeOK
  <2>2. CASE /\ rowEvents' = [rowEvents EXCEPT ![s] = VdusIn(s)]
             /\ status' = [status EXCEPT ![s] = "PENDING"]
             /\ configured' = configured
    BY <2>1, <2>2 DEF VdusIn
  <2>3. \/ UNCHANGED <<status, rowEvents, configured>>
        \/ /\ rowEvents' = [rowEvents EXCEPT ![s] = VdusIn(s)]
           /\ status' = [status EXCEPT ![s] = "PENDING"]
           /\ configured' = configured
    BY <1>2, Parsing DEF bookVars
  <2> QED
    BY <1>1, <2>2, <2>3
<1>3. CASE DeployDone(s)
  <2>1. /\ status' = [status EXCEPT ![s] = "ACTIVE"] /\ UNCHANGED <<rowEvents, configured>>
        /\ configured[s] = VdusIn(s) /\ status[s] # None
    BY <1>3 DEF DeployDone, ListsSound, bookVars
  <2>2. status \in [Service -> {None, "PENDING", "ACTIVE"}]
    BY DEF TypeOK
  <2> QED
    BY <2>1, <2>2 DEF VdusIn
<1>4. ASSUME NEW v \in Vdu, BuildAcknowledgeList(s, v)
      PROVE  EventsComplete' /\ ActiveMeansConfigured'
  <2>1. /\ configured' = [configured EXCEPT ![s] = configured[s] \cup {v}]
        /\ v \in VdusIn(s) /\ UNCHANGED <<status, rowEvents>>
    BY <1>4 DEF BuildAcknowledgeList, ListsSound, rowVars
  <2>2. configured \in [Service -> SUBSET Vdu]
    BY DEF TypeOK
  <2> QED
    BY <2>1, <2>2 DEF VdusIn
<1>5. \/ UNCHANGED <<status, rowEvents, configured>> \/ DeployDone(s)
      \/ \E v \in VdusIn(s) : ParseVnfd(s, v)
      \/ \E v \in Vdu : BuildAcknowledgeList(s, v)
  BY DEF Deploying, CreateService, Launch, CreateVnfds, Booted, BootedUnseen, InvokeManager,
         WaitIndependent, SendConfigure, WaitDone, ResolveRound, ResolveDone, PostConfigure,
         rowVars, bookVars
<1> QED
  BY <1>1, <1>2, <1>3, <1>4, <1>5

(* Only a launch makes machines, and only an acknowledgement changes what  *)
(* is configured.                                                          *)
LEMMA MachinesOf ==
  ASSUME TypeOK, NEW s \in Service,
         CreateService(s) \/ Deploying(s) \/ \E v \in Vdu : BuildAcknowledgeList(s, v)
  PROVE  /\ machines' = machines \/ \E v \in VdusIn(s) : Launch(s, v)
         /\ \A r \in Service : configured[r] \subseteq configured'[r]
<1> USE DEF bookVars, outVars
<1>1. ASSUME NEW v \in VdusIn(s), ParseVnfd(s, v) PROVE UNCHANGED <<machines, configured>>
  BY <1>1, Parsing
<1>2. ASSUME NEW v \in Vdu, BuildAcknowledgeList(s, v)
      PROVE  machines' = machines /\ \A r \in Service : configured[r] \subseteq configured'[r]
  BY <1>2 DEF BuildAcknowledgeList, TypeOK
<1>3. \/ UNCHANGED <<machines, configured>>
      \/ \E v \in VdusIn(s) : ParseVnfd(s, v) \/ (Launch(s, v) /\ configured' = configured)
      \/ \E v \in Vdu : BuildAcknowledgeList(s, v)
  BY DEF Deploying, CreateService, Launch, CreateVnfds, Booted, BootedUnseen, InvokeManager,
         WaitIndependent, SendConfigure, WaitDone, ResolveRound, ResolveDone, PostConfigure,
         DeployDone
<1> QED
  BY <1>1, <1>2, <1>3

(* A VDU is launched only when what it depends on is configured, and it    *)
(* stays configured.                                                       *)
LEMMA OrderKeeps ==
  ASSUME TypeOK, ListsSound, OrderKept, NEW s \in Service,
         CreateService(s) \/ Deploying(s) \/ \E v \in Vdu : BuildAcknowledgeList(s, v)
  PROVE  OrderKept'
<1>1. \A r \in Service : configured[r] \subseteq configured'[r]
  BY MachinesOf
<1>2. CASE machines' = machines
  BY <1>1, <1>2 DEF OrderKept, VdusIn, DepsIn
<1>3. ASSUME NEW v \in VdusIn(s), Launch(s, v) PROVE OrderKept'
  <2>1. DepsIn(s)[v] \subseteq configured[s]
    BY <1>3 DEF Launch, ListsSound
  <2>2. machines \in [Service -> [Vdu -> Seq(Template)]]
    BY DEF TypeOK
  <2> DEFINE more == [machines[s] EXCEPT ![v] = Append(machines[s][v], template_id)]
  <2>3. machines' = [machines EXCEPT ![s] = more] \/ machines' = machines
    BY <1>3, Launching
  <2>4. \A w \in Vdu : w # v => more[w] = machines[s][w]
    BY <2>2
  <2> HIDE DEF more
  <2>5. \A r \in Service, w \in Vdu : r # s \/ w # v => machines'[r][w] = machines[r][w]
    BY <2>2, <2>3, <2>4
  <2> QED
    BY <1>1, <2>1, <2>5 DEF OrderKept, VdusIn, DepsIn
<1> QED
  BY <1>2, <1>3, MachinesOf

-----------------------------------------------------------------------------
(* A service that is alone *)

(* A step is one service's: only that one can become under way by it, and  *)
(* none does but by create_service, which leaves its template in the       *)
(* plugin.                                                                 *)
LEMMA UnderWayOf ==
  ASSUME TypeOK, NEW s \in Service,
         CreateService(s) \/ Deploying(s) \/ \E v \in Vdu : BuildAcknowledgeList(s, v)
  PROVE  \/ template_id' = TemplateOf[s] /\ UnderWay' = UnderWay \cup {s}
         \/ template_id' = template_id /\ UnderWay' \subseteq UnderWay
<1>t. pc \in [Service -> {"idle", "parse", "start", "launch", "booting", "invoking",
                         "wait", "resolve", "details", "post", "done", "failed"}]
  BY DEF TypeOK
<1> USE DEF Goto, attrVars
<1>1. CASE CreateService(s)
  <2>1. pc' = [pc EXCEPT ![s] = "parse"] /\ template_id' = TemplateOf[s]
    BY <1>1 DEF CreateService
  <2> QED
    BY <1>t, <2>1 DEF UnderWay
<1>2. CASE \E v \in VdusIn(s) : ParseVnfd(s, v)
  <2>1. /\ pc[s] = "parse" /\ template_id' = template_id
        /\ pc' = pc \/ pc' = [pc EXCEPT ![s] = "start"]
    BY <1>2, Parsing
  <2> QED
    BY <1>t, <2>1 DEF UnderWay
<1>3. CASE \E v \in VdusIn(s) : Launch(s, v)
  <2>1. /\ pc[s] = "launch" /\ template_id' = template_id
        /\ pc' = [pc EXCEPT ![s] = "booting"] \/ pc' = [pc EXCEPT ![s] = "failed"]
    BY <1>3 DEF Launch
  <2> QED
    BY <1>t, <2>1 DEF UnderWay
<1>4. CASE \E v \in Vdu : BuildAcknowledgeList(s, v)
  BY <1>4 DEF BuildAcknowledgeList, UnderWay
<1>5. CASE \/ CreateVnfds(s) \/ Booted(s) \/ BootedUnseen(s) \/ InvokeManager(s)
           \/ WaitIndependent(s) \/ SendConfigure(s) \/ WaitDone(s) \/ ResolveRound(s)
           \/ ResolveDone(s) \/ PostConfigure(s) \/ DeployDone(s)
  <2>1. /\ pc[s] \notin {"idle", "done", "failed"} /\ template_id' = template_id
        /\ \E l \in {"launch", "failed", "invoking", "wait", "resolve", "details", "post", "done"} :
             pc' = [pc EXCEPT ![s] = l]
    BY <1>5 DEF CreateVnfds, Booted, BootedUnseen, InvokeManager, WaitIndependent, SendConfigure,
                WaitDone, ResolveRound, ResolveDone, PostConfigure, DeployDone
  <2> QED
    BY <1>t, <2>1 DEF UnderWay
<1> QED
  BY <1>1, <1>2, <1>3, <1>4, <1>5 DEF Deploying

(* So, unless two were under way at once, one is, and the template in the  *)
(* plugin is its own.                                                      *)
LEMMA AloneKept ==
  ASSUME TypeOK, LoneService, NEW s \in Service,
         CreateService(s) \/ Deploying(s) \/ \E v \in Vdu : BuildAcknowledgeList(s, v),
         overlapped' = (overlapped \/ Cardinality(UnderWay') > 1)
  PROVE  /\ IsFiniteSet(UnderWay')
         /\ ~overlapped' =>
              /\ ~overlapped /\ \A q, r \in UnderWay' : q = r
              /\ \A q \in UnderWay' : template_id' = TemplateOf[q]
<1>1. IsFiniteSet(UnderWay')
  <2>1. IsFiniteSet(UnderWay \cup {s})
    BY FS_AddElement DEF LoneService
  <2>2. UnderWay' \in SUBSET (UnderWay \cup {s})
    BY UnderWayOf
  <2> QED
    BY <2>1, <2>2, FS_Subset
<1>2. ASSUME ~overlapped' PROVE ~overlapped /\ \A q, r \in UnderWay' : q = r
  <2>1. ~overlapped /\ ~(Cardinality(UnderWay') > 1)
    BY <1>2
  <2>2. ASSUME NEW q \in UnderWay', NEW r \in UnderWay', q # r PROVE FALSE
    <3>1. IsFiniteSet({q}) /\ Cardinality({q}) = 1
      BY FS_Singleton
    <3>2. IsFiniteSet({q} \cup {r}) /\ Cardinality({q} \cup {r}) = 2
      <4>1. r \notin {q}
        BY <2>2
      <4> DEFINE one == {q}
      <4>2. IsFiniteSet(one) /\ Cardinality(one) = 1 /\ r \notin one
        BY <3>1, <4>1
      <4> HIDE DEF one
      <4>3. IsFiniteSet(one \cup {r}) /\ Cardinality(one \cup {r}) = Cardinality(one) + 1
        BY <4>2, FS_AddElement
      <4>4. Cardinality(one \cup {r}) = 2
        BY <4>2, <4>3
      <4> QED
        BY <4>3, <4>4 DEF one
    <3>3. Cardinality({q} \cup {r}) <= Cardinality(UnderWay')
      BY <1>1, {q} \cup {r} \in SUBSET UnderWay', FS_Subset
    <3> QED
      BY <1>1, <2>1, <3>2, <3>3, FS_CardinalityType
  <2> QED
    BY <2>1, <2>2
<1>3. ASSUME ~overlapped', NEW q \in UnderWay' PROVE template_id' = TemplateOf[q]
  <2>1. CASE template_id' = TemplateOf[s] /\ UnderWay' = UnderWay \cup {s}
    BY <1>2, <1>3, <2>1
  <2>2. CASE template_id' = template_id /\ UnderWay' \subseteq UnderWay
    BY <1>2, <1>3, <2>2 DEF LoneService
  <2> QED
    BY <2>1, <2>2, UnderWayOf
<1> QED
  BY <1>1, <1>2, <1>3

(* What a step does to the place of another service in ns_dict: nothing.   *)
LEMMA OthersStand ==
  ASSUME TypeOK, NEW s \in Service,
         CreateService(s) \/ Deploying(s) \/ \E v \in Vdu : BuildAcknowledgeList(s, v),
         NEW r \in Service, r # s
  PROVE  /\ pc'[r] = pc[r] /\ todo'[r] = todo[r] /\ round'[r] = round[r]
         /\ waiting'[r] = waiting[r] /\ configured'[r] = configured[r]
         /\ invoked'[r] = invoked[r] /\ machines'[r] = machines[r]
         /\ rowTemplate'[r] = rowTemplate[r]
<1> USE DEF Goto, roundVars, bookVars, rowVars, outVars
<1>t. /\ DOMAIN pc = Service /\ DOMAIN todo = Service /\ DOMAIN round = Service
      /\ DOMAIN waiting = Service /\ DOMAIN configured = Service /\ DOMAIN invoked = Service
      /\ DOMAIN machines = Service /\ DOMAIN rowTemplate = Service
  BY DEF TypeOK
<1>1. CASE CreateService(s) \/ CreateVnfds(s) \/ Booted(s) \/ BootedUnseen(s)
  BY <1>1, <1>t DEF CreateService, CreateVnfds, Booted, BootedUnseen
<1>2. ASSUME NEW v \in VdusIn(s), ParseVnfd(s, v)
      PROVE  /\ pc'[r] = pc[r] /\ rowTemplate'[r] = rowTemplate[r]
             /\ UNCHANGED <<roundVars, bookVars, outVars>>
  BY <1>2, <1>t, Parsing
<1>3. CASE \E v \in VdusIn(s) : Launch(s, v)
  BY <1>3, <1>t DEF Launch
<1>4. CASE InvokeManager(s) \/ WaitIndependent(s)
  BY <1>4, <1>t DEF InvokeManager, GenerateConf, WaitIndependent
<1>5. CASE SendConfigure(s) \/ WaitDone(s) \/ ResolveRound(s) \/ ResolveDone(s)
  BY <1>5, <1>t DEF SendConfigure, GenerateConf, WaitDone, ResolveRound, ResolveDone
<1>6. CASE PostConfigure(s) \/ DeployDone(s) \/ \E v \in Vdu : BuildAcknowledgeList(s, v)
  BY <1>6, <1>t DEF PostConfigure, DeployDone, BuildAcknowledgeList
<1> QED
  BY <1>1, <1>2, <1>3, <1>4, <1>5, <1>6 DEF Deploying

(* Each step of a service leaves its own round sound: what it launches is  *)
(* of the round, and it waits for what it has launched.                    *)
LEMMA RoundKept ==
  ASSUME TypeOK, ListsSound, NEW s \in Service, RoundSound(s),
         CreateService(s) \/ Deploying(s) \/ \E v \in Vdu : BuildAcknowledgeList(s, v)
  PROVE  RoundSound(s)'
<1>t. /\ DOMAIN pc = Service /\ DOMAIN todo = Service /\ DOMAIN round = Service
      /\ DOMAIN waiting = Service /\ DOMAIN configured = Service /\ DOMAIN invoked = Service
  BY DEF TypeOK
<1> USE DEF Goto, roundVars, bookVars, rowVars, outVars, attrVars
<1>l. ASSUME machines' = machines PROVE Launched(s)' = Launched(s)
  BY <1>l DEF Launched
<1>1. CASE CreateService(s)
  <2>1. /\ pc[s] = "idle" /\ pc'[s] = "parse" /\ machines' = machines
    BY <1>1, <1>t DEF CreateService
  <2> QED
    BY <1>l, <2>1 DEF RoundSound
<1>2. ASSUME NEW v \in VdusIn(s), ParseVnfd(s, v) PROVE RoundSound(s)'
  <2>1. /\ pc[s] = "parse" /\ pc'[s] \in {"parse", "start"} /\ machines' = machines
    BY <1>2, <1>t, Parsing
  <2> QED
    BY <1>l, <2>1 DEF RoundSound
<1>3. ASSUME NEW v \in VdusIn(s), Launch(s, v) PROVE RoundSound(s)'
  <2>1. /\ pc[s] = "launch" /\ v \in todo[s] /\ todo'[s] = todo[s] \ {v}
        /\ pc'[s] \in {"booting", "failed"}
        /\ UNCHANGED <<round, independent_vdus, waiting, configured, invoked>>
    BY <1>3, <1>t DEF Launch
  <2>2. Launched(s)' \subseteq Launched(s) \cup {v}
    <3>1. machines \in [Service -> [Vdu -> Seq(Template)]]
      BY DEF TypeOK
    <3> DEFINE more == [machines[s] EXCEPT ![v] = Append(machines[s][v], template_id)]
    <3>2. \A w \in Vdu : w # v => more[w] = machines[s][w]
      BY <3>1
    <3>3. machines' = [machines EXCEPT ![s] = more] \/ machines' = machines
      BY <1>3, Launching
    <3> HIDE DEF more
    <3>4. \A w \in Vdu : w # v => machines'[s][w] = machines[s][w]
      BY <3>1, <3>2, <3>3
    <3> QED
      BY <3>4 DEF Launched
  <2> QED
    BY <2>1, <2>2 DEF RoundSound
<1>4. CASE CreateVnfds(s)
  <2>1. /\ pc[s] = "start" /\ pc'[s] = "launch" /\ machines' = machines
        /\ independent_vdus' = Independent(s) /\ todo'[s] = Independent(s)
        /\ round'[s] = Independent(s)
    BY <1>4, <1>t DEF CreateVnfds
  <2> QED
    BY <1>l, <2>1 DEF RoundSound
<1>5. CASE Booted(s) \/ BootedUnseen(s)
  <2>1. /\ pc[s] = "booting" /\ pc'[s] \in {"launch", "failed"} /\ machines' = machines
        /\ UNCHANGED <<independent_vdus, todo, round, configured, invoked>>
    BY <1>5, <1>t DEF Booted, BootedUnseen
  <2> QED
    BY <1>l, <2>1 DEF RoundSound
<1>6. CASE InvokeManager(s)
  <2>1. /\ pc[s] = "launch" /\ todo[s] = {} /\ ~invoked[s] /\ pc'[s] = "invoking"
        /\ invoked'[s] /\ machines' = machines
        /\ UNCHANGED <<independent_vdus, todo, round, configured>>
    BY <1>6, <1>t DEF InvokeManager
  <2> QED
    BY <1>l, <2>1 DEF RoundSound
<1>7. CASE WaitIndependent(s)
  <2>1. /\ pc[s] = "invoking" /\ pc'[s] = "wait" /\ waiting'[s] = independent_vdus
        /\ machines' = machines /\ UNCHANGED <<todo, round, configured, invoked>>
    BY <1>7, <1>t DEF WaitIndependent
  <2> QED
    BY <1>l, <2>1 DEF RoundSound
<1>8. CASE SendConfigure(s)
  <2>1. /\ pc[s] = "launch" /\ todo[s] = {} /\ invoked[s] /\ pc'[s] = "wait"
        /\ waiting'[s] = round[s] /\ machines' = machines
        /\ UNCHANGED <<todo, round, configured, invoked>>
    BY <1>8, <1>t DEF SendConfigure
  <2> QED
    BY <1>l, <2>1 DEF RoundSound
<1>9. CASE WaitDone(s)
  <2>1. /\ pc[s] = "wait" /\ pc'[s] = "resolve" /\ waiting[s] \subseteq configured[s]
        /\ machines' = machines /\ UNCHANGED <<configured, invoked>>
    BY <1>9, <1>t DEF WaitDone
  <2> QED
    BY <1>l, <2>1 DEF RoundSound
<1>10. CASE ResolveRound(s)
  <2>1. /\ pc[s] = "resolve" /\ pc'[s] = "launch" /\ machines' = machines
        /\ todo'[s] = Ready(s) /\ round'[s] = Ready(s) /\ UNCHANGED <<configured, invoked>>
    BY <1>10, <1>t DEF ResolveRound
  <2>2. Ready(s) \cap configured[s] = {}
    BY DEF Ready
  <2> QED
    BY <1>l, <2>1, <2>2 DEF RoundSound
<1>11. CASE ResolveDone(s) \/ PostConfigure(s) \/ DeployDone(s)
  <2>1. pc'[s] \in {"details", "post", "done"}
    BY <1>11, <1>t DEF ResolveDone, PostConfigure, DeployDone
  <2> QED
    BY <2>1 DEF RoundSound
<1>12. ASSUME NEW v \in Vdu, BuildAcknowledgeList(s, v) PROVE RoundSound(s)'
  <2>1. /\ configured[s] \subseteq configured'[s] /\ machines' = machines
        /\ UNCHANGED <<pc, independent_vdus, todo, round, waiting, invoked>>
    BY <1>12, <1>t DEF BuildAcknowledgeList
  <2> QED
    BY <1>l, <2>1 DEF RoundSound
<1> QED
  BY <1>1, <1>2, <1>3, <1>4, <1>5, <1>6, <1>7, <1>8, <1>9, <1>10, <1>11, <1>12 DEF Deploying

(* And, as long as services come one at a time, those of the others: only  *)
(* a service that is under way sets independent_vdus.                      *)
LEMMA LoneKept ==
  ASSUME TypeOK, ListsSound, LoneService, NEW s \in Service,
         CreateService(s) \/ Deploying(s) \/ \E v \in Vdu : BuildAcknowledgeList(s, v),
         overlapped' = (overlapped \/ Cardinality(UnderWay') > 1)
  PROVE  LoneService'
<1>1. ASSUME ~overlapped', NEW r \in Service, r # s PROVE RoundSound(r)'
  <2>1. RoundSound(r)
    BY <1>1, AloneKept DEF LoneService
  <2>2. /\ pc'[r] = pc[r] /\ todo'[r] = todo[r] /\ round'[r] = round[r]
        /\ waiting'[r] = waiting[r] /\ configured'[r] = configured[r]
        /\ invoked'[r] = invoked[r] /\ machines'[r] = machines[r]
    BY <1>1, OthersStand
  <2>3. Launched(r)' = Launched(r)
    BY <2>2 DEF Launched
  <2>4. CASE independent_vdus' = independent_vdus
    BY <2>1, <2>2, <2>3, <2>4 DEF RoundSound
  <2>5. CASE CreateVnfds(s) \/ PostConfigure(s)
    <3>1. pc'[s] \in {"launch", "post"}
      BY <2>5 DEF CreateVnfds, PostConfigure, Goto, TypeOK
    <3>2. s \in UnderWay'
      BY <3>1 DEF UnderWay
    <3>3. r \notin UnderWay'
      BY <1>1, <3>2, AloneKept
    <3>4. pc'[r] \in {"idle", "done", "failed"}
      BY <3>3 DEF UnderWay
    <3> QED
      BY <2>1, <2>2, <2>3, <3>4 DEF RoundSound
  <2>6. \/ independent_vdus' = independent_vdus
        \/ CreateVnfds(s) \/ PostConfigure(s) \/ \E v \in VdusIn(s) : ParseVnfd(s, v)
    BY DEF Deploying, CreateService, Launch, Booted, BootedUnseen, InvokeManager,
           WaitIndependent, SendConfigure, WaitDone, ResolveRound, ResolveDone, DeployDone,
           BuildAcknowledgeList, attrVars
  <2> QED
    BY <2>4, <2>5, <2>6, Parsing
<1>2. ~overlapped' => RoundSound(s)'
  BY AloneKept, RoundKept DEF LoneService
<1> QED
  BY <1>1, <1>2, AloneKept DEF LoneService

(* Then a service is entered, and its VDUs are booted, with its template.  *)
LEMMA OwnKept ==
  ASSUME TypeOK, ListsSound, LoneService, OwnTemplate, NEW s \in Service,
         CreateService(s) \/ Deploying(s) \/ \E v \in Vdu : BuildAcknowledgeList(s, v),
         overlapped' = (overlapped \/ Cardinality(UnderWay') > 1)
  PROVE  OwnTemplate'
<1> SUFFICES ASSUME ~overlapped'
             PROVE  \A r \in Service :
                      /\ rowTemplate'[r] \in {None, TemplateOf[r]}
                      /\ \A w \in Vdu : machines'[r][w] \in {<< >>, <<TemplateOf[r]>>}
  BY DEF OwnTemplate
<1>1. /\ ~overlapped /\ RoundSound(s)
      /\ \A q \in UnderWay : template_id = TemplateOf[q]
  BY AloneKept DEF LoneService
<1>2. \A r \in Service :
        /\ rowTemplate[r] \in {None, TemplateOf[r]}
        /\ \A w \in Vdu : machines[r][w] \in {<< >>, <<TemplateOf[r]>>}
  BY <1>1 DEF OwnTemplate
<1>3. ASSUME NEW v \in VdusIn(s), ParseVnfd(s, v)
      PROVE  rowTemplate'[s] \in {None, TemplateOf[s]}
  <2>1. s \in UnderWay
    BY <1>3 DEF ParseVnfd, UnderWay
  <2>2. rowTemplate' = rowTemplate \/ rowTemplate' = [rowTemplate EXCEPT ![s] = template_id]
    BY <1>3, Parsing
  <2>3. DOMAIN rowTemplate = Service
    BY DEF TypeOK
  <2> QED
    BY <1>1, <1>2, <2>1, <2>2, <2>3
<1>4. rowTemplate'[s] \in {None, TemplateOf[s]}
  <2>1. rowTemplate' = rowTemplate \/ \E v \in VdusIn(s) : ParseVnfd(s, v)
    BY DEF Deploying, CreateService, Launch, CreateVnfds, Booted, BootedUnseen, InvokeManager,
           WaitIndependent, SendConfigure, WaitDone, ResolveRound, ResolveDone, PostConfigure,
           DeployDone, BuildAcknowledgeList, rowVars
  <2> QED
    BY <1>2, <1>3, <2>1
<1>5. ASSUME NEW v \in VdusIn(s), Launch(s, v), NEW w \in Vdu
      PROVE  machines'[s][w] \in {<< >>, <<TemplateOf[s]>>}
  <2>1. s \in UnderWay /\ v \in todo[s] /\ pc[s] = "launch"
    BY <1>5 DEF Launch, UnderWay
  <2>2. machines[s][v] = << >> /\ template_id = TemplateOf[s] /\ v \in Vdu
    BY <1>1, <2>1, VdusAre DEF RoundSound, Launched
  <2>3. machines \in [Service -> [Vdu -> Seq(Template)]]
    BY DEF TypeOK
  <2> DEFINE more == [machines[s] EXCEPT ![v] = Append(machines[s][v], template_id)]
  <2>4. more[v] = Append(machines[s][v], template_id) /\ (w # v => more[w] = machines[s][w])
    BY <2>2, <2>3
  <2>5. Append(<< >>, TemplateOf[s]) = <<TemplateOf[s]>>
    OBVIOUS
  <2>6. more[w] \in {<< >>, <<TemplateOf[s]>>}
    BY <1>2, <2>2, <2>4, <2>5
  <2>7. machines' = [machines EXCEPT ![s] = more] \/ machines' = machines
    BY <1>5, Launching
  <2> HIDE DEF more
  <2> QED
    BY <1>2, <2>3, <2>6, <2>7
<1>6. \A w \in Vdu : machines'[s][w] \in {<< >>, <<TemplateOf[s]>>}
  BY <1>2, <1>5, MachinesOf
<1>7. \A r \in Service : r # s =>
        rowTemplate'[r] = rowTemplate[r] /\ machines'[r] = machines[r]
  BY OthersStand
<1> QED
  BY <1>2, <1>4, <1>6, <1>7

-----------------------------------------------------------------------------
(* The invariant *)

(* It holds initially,                                                     *)
LEMMA InitPlugin == Init => PluginInv
<1> SUFFICES ASSUME Init PROVE PluginInv
  OBVIOUS
<1>1. TypeOK
  <2>1. [v \in Vdu |-> << >>] \in [Vdu -> Seq(Template)]
    OBVIOUS
  <2>2. machines \in [Service -> [Vdu -> Seq(Template)]]
    BY <2>1 DEF Init
  <2> QED
    BY <2>2 DEF Init, TypeOK
<1>2. ListsSound /\ EventsComplete /\ ActiveMeansConfigured /\ OrderKept /\ OwnTemplate
  BY DEF Init, ListsSound, EventsComplete, ActiveMeansConfigured, OrderKept, OwnTemplate, None
<1>3. UnderWay = {}
  BY DEF Init, UnderWay
<1>4. \A s \in Service : RoundSound(s)
  BY DEF Init, RoundSound, Launched
<1> QED
  BY <1>1, <1>2, <1>3, <1>4, FS_EmptySet DEF PluginInv, LoneService

(* and every step keeps it.                                                *)
LEMMA StepPlugin == PluginInv /\ [Next]_vars => PluginInv'
<1> SUFFICES ASSUME PluginInv, [Next]_vars PROVE PluginInv'
  OBVIOUS
<1>p. /\ TypeOK /\ ListsSound /\ LoneService /\ EventsComplete /\ ActiveMeansConfigured
      /\ OrderKept /\ OwnTemplate
  BY DEF PluginInv
<1>1. ASSUME NEW s \in Service,
             CreateService(s) \/ Deploying(s) \/ \E v \in Vdu : BuildAcknowledgeList(s, v),
             overlapped' = (overlapped \/ Cardinality(UnderWay') > 1)
      PROVE  PluginInv'
  <2>1. overlapped' \in BOOLEAN
    BY <1>p, <1>1 DEF TypeOK
  <2>2. TypeOK'
    BY <1>p, <1>1, <2>1, CreateTypes, LaunchTypes, WaitTypes DEF Deploying
  <2>3. ListsSound' /\ EventsComplete' /\ ActiveMeansConfigured' /\ OrderKept'
    BY <1>p, <1>1, ListsKept, RowsKept, OrderKeeps
  <2>4. LoneService' /\ OwnTemplate'
    BY <1>p, <1>1, LoneKept, OwnKept
  <2> QED
    BY <2>2, <2>3, <2>4 DEF PluginInv
<1>2. CASE UNCHANGED vars
  <2> USE <1>2 DEF vars, attrVars, roundVars, bookVars, rowVars, outVars
  <2>1. TypeOK'
    BY <1>p DEF TypeOK
  <2>2. ListsSound' /\ EventsComplete' /\ ActiveMeansConfigured' /\ OrderKept' /\ OwnTemplate'
    BY <1>p DEF ListsSound, EventsComplete, ActiveMeansConfigured, OrderKept, OwnTemplate,
       VdusIn, DepsIn
  <2>3. UnderWay' = UnderWay /\ \A s \in Service : RoundSound(s)' = RoundSound(s)
    BY DEF UnderWay, RoundSound, Launched
  <2>4. LoneService'
    BY <1>p, <2>3 DEF LoneService
  <2> QED
    BY <2>1, <2>2, <2>4 DEF PluginInv
<1>3. CASE Next
  BY <1>1, <1>3 DEF Next, Step
<1> QED
  BY <1>2, <1>3

(* Whatever services one plugin object brings up at a time, what their     *)
(* rows say is so, and their lists are their own.                          *)
THEOREM PluginSafe == Spec => []PluginInv
  BY InitPlugin, StepPlugin, PTL DEF Spec

(* Whatever overlaps, a VDU is launched only when what it is updated from  *)
(* is configured: _resolve_dependency may wait for the VDUs of another     *)
(* service, but it begins a round from what is configured in its own.      *)
THEOREM OrderKeptSafe == Spec => []OrderKept
<1>1. PluginInv => OrderKept
  BY DEF PluginInv
<1> QED
  BY <1>1, PluginSafe, PTL

(* As long as create_service and deploy_vnfs of no two services overlap, a *)
(* service is entered with, and its VDUs are booted from, its own          *)
(* template, each VDU once, whatever has been brought up before.           *)
THEOREM OwnTemplateSafe == Spec => []OwnTemplate
<1>1. PluginInv => OwnTemplate
  BY DEF PluginInv
<1> QED
  BY <1>1, PluginSafe, PTL
=============================================================================

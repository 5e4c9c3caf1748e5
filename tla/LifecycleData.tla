--------------------------- MODULE LifecycleData ----------------------------
(***************************************************************************)
(* What is written for a VDU's machines before and after they boot. First  *)
(* the data of its lifecycle events, for the manager. Then its user data,  *)
(* for nova.                                                               *)
(***************************************************************************)
EXTENDS Naturals, Sequences, FiniteSets, Functions

(***************************************************************************)
(* The data of the lifecycle events of a service: the plugin launches its  *)
(* VDUs in batches, each after those it depends on, and puts addresses of  *)
(* the machines for the placeholders <<VDU, interface>> in the data of the *)
(* events 'init' and 'config' before it hands them to the vnf-manager.     *)
(***************************************************************************)
CONSTANTS
  LfVdu,        \* VDUs
  LfIface,      \* names of interfaces
  NameInside,   \* <<v, w>>: the name of v lies inside the names of w's machines
  Unnameable,   \* VDUs whose VNFD name has a digit, which is cut from a placeholder
  LfServices    \* services, as described and as configured

Placeholder == LfVdu \X LfIface
NoData == [is |-> "absent", asks |-> {}]
EventData == [is : {"absent", "blank", "plain"}, asks : {{}}]
             \cup [is : {"asking"}, asks : (SUBSET Placeholder) \ {{}}]
NoResult == [is |-> "none", at |-> {}]

ASSUME LifecycleAssumption ==
  /\ NameInside \subseteq LfVdu \X LfVdu /\ Unnameable \subseteq LfVdu
  /\ \A s \in LfServices :
       /\ s.needs \in [LfVdu -> SUBSET LfVdu]
       /\ s.size \in [LfVdu -> Nat \ {0}]
       /\ s.cards \in [LfVdu -> SUBSET LfIface]
       /\ s.init \in [LfVdu -> EventData] /\ s.config \in [LfVdu -> EventData]

VARIABLES
  service,   \* the service that is created
  stage,     \* "ready" | "launching" | "configuring" | "failed"
  batch,     \* VDUs being launched together
  ips,       \* addresses known: <<VDU, machine, interface>>
  up,        \* VDUs that are launched
  ready,     \* VDUs whose init is acknowledged
  done,      \* VDUs whose config is acknowledged
  seenNames,  \* self.configured_instances, shared with overlapping services
  initData,  \* what the manager is given for 'init'
  configData \* and for 'config'

lfVars == <<service, stage, batch, ips, up, ready, done, seenNames, initData, configData>>

(* A single machine has the name of its VDU, several have a number each.   *)
Machines(v) == IF service.size[v] = 1 THEN {0} ELSE 1 .. service.size[v]
LastMachine(v) == IF service.size[v] = 1 THEN 0 ELSE service.size[v]
Addresses == UNION {{v} \X Machines(v) \X LfIface : v \in LfVdu}

(* VDUs, addresses and the data written for them keep their types.         *)
LfTypeOK ==
  /\ service \in LfServices
  /\ stage \in {"ready", "launching", "configuring", "failed"}
  /\ batch \subseteq LfVdu /\ done \subseteq ready /\ ready \subseteq up
  /\ ips \subseteq Addresses
  /\ \A v \in LfVdu : \A d \in {initData[v], configData[v]} :
       /\ d.is \in {"none", "lost", "skipped", "blank", "given"}
       /\ d.at \subseteq Placeholder \X Addresses
       /\ d.is = "given" <=> d.at # {}

LfInit ==
  /\ service \in LfServices
  /\ stage = "ready" /\ batch = {} /\ ips = {} /\ up = {} /\ ready = {} /\ done = {}
  /\ seenNames \in {{}} \cup {{<<v, 0>>} : v \in LfVdu}
  /\ initData = [v \in LfVdu |-> NoResult]
  /\ configData = [v \in LfVdu |-> NoResult]

-----------------------------------------------------------------------------
(* Placeholders *)

(* configurables_dict: a VDU named inside the machine's own name stands    *)
(* for that machine, any other for a machine that has just its name.       *)
NameLookedUp(v, i, w) ==
  IF w = v \/ <<w, v>> \in NameInside THEN <<v, i>> ELSE <<w, 0>>

AddressOf(v, i, p) ==
  LET machine == NameLookedUp(v, i, p[1]) IN <<machine[1], machine[2], p[2]>>

(* ns_dict keeps the addresses of a VDU apart from those of all others.    *)
Resolves(v, i, p) ==
  /\ p[1] \notin Unnameable /\ p[2] \in service.cards[p[1]]
  /\ AddressOf(v, i, p) \in ips /\ AddressOf(v, i, p)[1] = p[1]

(* format_init, for one machine: None without placeholders.                *)
Formatted(v, i, d) ==
  CASE d.is = "blank" -> [is |-> "blank", at |-> {}]
    [] d.is = "plain" -> [is |-> "lost", at |-> {}]
    [] OTHER -> [is |-> "given", at |-> {<<p, AddressOf(v, i, p)>> : p \in d.asks}]

Formats(v, i, d) == \A p \in d.asks : Resolves(v, i, p)

-----------------------------------------------------------------------------
(* Init *)

NextBatch ==
  /\ stage = "ready" /\ ready # LfVdu
  /\ batch' = {v \in LfVdu \ ready : service.needs[v] \subseteq ready}
  /\ stage' = "launching"
  /\ UNCHANGED <<service, ips, up, ready, done, seenNames, initData, configData>>

(* _boot_vdu waits for an address of a single machine, on any interface,   *)
(* of several only for their being ACTIVE; _set_instance_ip reads them.    *)
LaunchVnfds(v) ==
  /\ stage = "launching" /\ v \in batch \ up
  /\ \E A \in SUBSET ({v} \X Machines(v) \X service.cards[v]) :
       /\ service.size[v] = 1 /\ service.cards[v] # {} => A # {}
       /\ ips' = ips \cup A
  /\ up' = up \cup {v}
  /\ UNCHANGED <<service, stage, batch, ready, done, seenNames, initData, configData>>

BatchIsUp(v) == batch \subseteq up

(* Machines by a name that an overlapping service configured are left out. *)
FreshMachines(v) == {i \in Machines(v) : <<v, i>> \notin seenNames}

MarkedBy(v) == {v} \X Machines(v)

(* _generate_vnfm_conf, for one VDU: the data of each machine replace those*)
(* of the one before.                                                      *)
GenerateConf(v) ==
  /\ stage = "launching" /\ v \in batch /\ BatchIsUp(v) /\ initData[v] = NoResult
  /\ LET d == service.init[v] new == FreshMachines(v)
     IN IF d.is = "absent"
          THEN initData' = [initData EXCEPT ![v].is = "skipped"] /\ UNCHANGED stage
        ELSE IF \E i \in new : ~Formats(v, i, d)
          THEN stage' = "failed" /\ UNCHANGED initData
        ELSE /\ initData' = [initData EXCEPT ![v] =
                  IF new = {} THEN [is |-> "skipped", at |-> {}]
                  ELSE Formatted(v, CHOOSE i \in new : \A j \in new : j <= i, d)]
             /\ UNCHANGED stage
  /\ seenNames' = seenNames \cup MarkedBy(v)
  /\ UNCHANGED <<service, batch, ips, up, ready, done, configData>>

Acknowledged ==
  /\ stage = "launching" /\ \A v \in batch : initData[v] # NoResult
  /\ ready' = ready \cup batch
  /\ stage' = IF ready' = LfVdu THEN "configuring" ELSE "ready"
  /\ UNCHANGED <<service, batch, ips, up, done, seenNames, initData, configData>>

-----------------------------------------------------------------------------
(* Config *)

(* Mutant: data are formatted for the first machine and kept.              *)
LastFormattedFirst(v, d) ==
  Formatted(v, CHOOSE i \in Machines(v) : \A j \in Machines(v) : i <= j, d)

LastFormatted(v, d) == Formatted(v, LastMachine(v), d)

(* post_configure: the loop over the events leaves its variable at another *)
(* one when there is no 'config', whose data are then sent in its place.   *)
PostConfigure(v) ==
  /\ stage = "configuring" /\ v \notin done /\ service.needs[v] \subseteq done
  /\ LET d == service.config[v] fails == stage' = "failed" /\ UNCHANGED <<done, configData>>
         sent(r) == configData' = [configData EXCEPT ![v] = r] /\ done' = done \cup {v}
                    /\ UNCHANGED stage
     IN IF d.is = "absent"
          THEN IF initData[v].is = "skipped" THEN fails ELSE sent(initData[v])
        ELSE IF \E i \in Machines(v) : ~Formats(v, i, d) THEN fails
        ELSE sent(LastFormatted(v, d))
  /\ UNCHANGED <<service, batch, ips, up, ready, seenNames, initData>>

LfNext ==
  \/ NextBatch \/ Acknowledged
  \/ \E v \in LfVdu : LaunchVnfds(v) \/ GenerateConf(v) \/ PostConfigure(v)

LfSpec == LfInit /\ [][LfNext]_lfVars

-----------------------------------------------------------------------------
(* In the data of one machine's event the placeholders of its own VDU      *)
(* stand for one machine, the last; those of another for its only one.     *)
DataOfOneMachine ==
  \A v \in LfVdu : \A d \in {initData[v], configData[v]} : \A x \in d.at :
    /\ x[2][1] = x[1][1] /\ x[2][3] = x[1][2]
    /\ x[1][1] = v => x[2][2] = LastMachine(v)
    /\ x[1][1] # v => service.size[x[1][1]] = 1

(* It fails for a placeholder only: one that cannot be looked up, names no *)
(* interface, a VDU of a later batch, an address nova has not given yet,   *)
(* several machines, or a VDU whose name lies inside the machine's; or for *)
(* a VDU with no 'config' and no 'init' data.                              *)
FailsForCause ==
  stage = "failed" =>
    \/ \E v \in LfVdu : \E p \in service.init[v].asks \cup service.config[v].asks :
         \/ p[1] \in Unnameable
         \/ p[2] \notin service.cards[p[1]]
         \/ p[1] \notin ready \cup batch
         \/ p[1] \in up /\ \E i \in Machines(p[1]) : <<p[1], i, p[2]>> \notin ips
         \/ p[1] # v /\ service.size[p[1]] > 1
         \/ <<p[1], v>> \in NameInside
    \/ \E v \in LfVdu : service.config[v].is = "absent" /\ initData[v].is = "skipped"

(* Of the data of a VDU's init nothing goes missing but what has no        *)
(* placeholder, and what an overlapping service configured a machine of    *)
(* that name with.                                                         *)
LostForCause ==
  \A v \in LfVdu :
    /\ initData[v].is = "lost" => service.init[v].is = "plain"
    /\ initData[v].is = "skipped" =>
         service.init[v].is = "absent" \/ service.size[v] = 1
    /\ initData[v].is = "given" =>
         {x[1] : x \in initData[v].at} = service.init[v].asks

(* What these rest on: data are written of VDUs that are launched, no      *)
(* machine of a VDU is left out but one whose name another service has     *)
(* used, and nothing is configured before every init is acknowledged.      *)
LfSoFar ==
  /\ DOMAIN initData = LfVdu /\ DOMAIN configData = LfVdu
  /\ \A v \in LfVdu : initData[v] # NoResult => v \in up
  /\ stage # "failed" =>
       \A v \in LfVdu : initData[v] = NoResult =>
         \A i \in Machines(v) : <<v, i>> \in seenNames => i = 0
  /\ stage = "configuring" => ready = LfVdu

LfInv == LfTypeOK /\ DataOfOneMachine /\ FailsForCause /\ LostForCause /\ LfSoFar

-----------------------------------------------------------------------------
(***************************************************************************)
(* What a machine is told to run at its first boot. The user data of each  *)
(* VDU are written to one file of the service, get commands of the program *)
(* before their own, are formatted line by line, and are read back when    *)
(* the machines are created.                                               *)
(***************************************************************************)
CONSTANTS
  UserVdu,      \* VDUs of the service
  WithinName,   \* the VDUs whose qualified name contains the name of each
  OwnCommands,  \* the commands of each VDU: sequences of marks to be filled in
  InstancesOf   \* instances each VDU has

(* A mark asks for the index of an instance of a VDU, or for something     *)
(* else, as the address of an interface.                                   *)
Marks == [ask : {"index"}, of : UserVdu] \cup [ask : {"address"}, of : UserVdu]

ASSUME UserDataAssumption ==
  \A v \in UserVdu : /\ v \in WithinName[v] /\ WithinName[v] \subseteq UserVdu
                     /\ OwnCommands[v] \in Seq(Seq(Marks)) /\ InstancesOf[v] \in Nat \ {0}

VARIABLES
  cfgEngine,   \* the service has a puppet master
  carded,      \* the VDUs with a network besides that for management
  dataFile,    \* vnfm_dir/userdata
  udAt,        \* the VDU being launched and how far it is
  recorded,    \* instances in the row of each VDU
  rowThere,    \* the row of the service
  bootedWith   \* history: the file each VDU was created with

udVars == <<cfgEngine, carded, dataFile, udAt, recorded, rowThere, bootedWith>>

Line(what) == [what |-> what, of |-> "", n |-> 0, marks |-> <<>>, filled |-> 0]
OwnLine(v, n) == [what |-> "own", of |-> v, n |-> n, marks |-> OwnCommands[v][n], filled |-> 0]

Lines ==
  [what : {"header", "dhclient", "delete", "route", "hosts", "own"}, of : UserVdu \cup {""},
   n : Nat, marks : Seq(Marks), filled : Nat]

(* Commands, files and launches of a service keep their types.             *)
UdTypeOK ==
  /\ cfgEngine \in BOOLEAN /\ carded \subseteq UserVdu /\ rowThere \in BOOLEAN
  /\ udAt \in [vdu : UserVdu \cup {""}, pc : {"next", "written", "routed", "formatted", "failed"}]
  /\ \A v \in UserVdu : recorded[v] \in 0 .. InstancesOf[v]
  /\ \A v \in UserVdu : recorded[v] > 0 => v \in DOMAIN bootedWith
  /\ dataFile \in Seq(Lines)

UdInit ==
  /\ cfgEngine \in BOOLEAN /\ carded \in SUBSET UserVdu /\ rowThere = TRUE
  /\ dataFile = <<>> /\ udAt = [vdu |-> "", pc |-> "next"]
  /\ recorded = [v \in UserVdu |-> 0] /\ bootedWith = [v \in {} |-> <<>>]

Hosts == IF cfgEngine THEN <<Line("hosts")>> ELSE <<>>
Own(v) == [n \in DOMAIN OwnCommands[v] |-> OwnLine(v, n)]

(* set_default_userdata, written over what was in the file.                *)
DefaultUserdata(v) == <<Line("dhclient")>> \o Hosts \o Own(v)

SetDefaultUserdata(v) ==
  /\ udAt.pc = "next" /\ v \notin DOMAIN bootedWith
  /\ dataFile' = DefaultUserdata(v) /\ udAt' = [vdu |-> v, pc |-> "written"]
  /\ UNCHANGED <<cfgEngine, carded, recorded, rowThere, bootedWith>>

WithRouteLines(f) == <<f[1], Line("delete"), Line("route")>> \o Tail(f)

SetDefaultRoute ==
  /\ udAt.pc = "written" /\ udAt' = [udAt EXCEPT !.pc = "routed"]
  /\ dataFile' = IF udAt.vdu \in carded THEN WithRouteLines(dataFile) ELSE dataFile
  /\ UNCHANGED <<cfgEngine, carded, recorded, rowThere, bootedWith>>

MarksOf(l) == {l.marks[i] : i \in DOMAIN l.marks}

(* Of the VDUs whose qualified name contains that of the one launched, the *)
(* last in the order of a dictionary gives the index.                      *)
CountOf(w) == recorded[w] + 1
FilledWith(l, c) == [what |-> l.what, of |-> l.of, n |-> l.n, marks |-> <<>>, filled |-> c]

(* Mutant: a line is left as it is when it cannot be filled in.            *)
FormatLineAnyway(v, w, l) ==
  IF rowThere /\ \E m \in MarksOf(l) : MarksOf(l) = {m} /\ m.ask = "index" /\ m.of \in WithinName[v]
    THEN FilledWith(l, CountOf(w)) ELSE l

(* format_userdata. The loop over the marks ends after its first round, so *)
(* that a line with a second mark has no value for it.                     *)
FormatLine(v, w, l) ==
  IF l.marks = <<>> THEN l
  ELSE IF rowThere /\ \E m \in MarksOf(l) : MarksOf(l) = {m} /\ m.ask = "index" /\ m.of \in WithinName[v]
    THEN FilledWith(l, CountOf(w)) ELSE Line("failure")

FormatUserdata ==
  /\ udAt.pc = "routed"
  /\ \E w \in WithinName[udAt.vdu] :
       LET out == [i \in DOMAIN dataFile |-> FormatLine(udAt.vdu, w, dataFile[i])]
       IN IF Line("failure") \in Range(out)
            THEN udAt' = [udAt EXCEPT !.pc = "failed"] /\ UNCHANGED dataFile
            ELSE /\ udAt' = [udAt EXCEPT !.pc = "formatted"]
                 /\ dataFile' = <<Line("header")>> \o out
  /\ UNCHANGED <<cfgEngine, carded, recorded, rowThere, bootedWith>>

Recorded(v) == IF rowThere THEN InstancesOf[v] ELSE recorded[v]

(* _boot_vdu: all instances with one file; the row gets them, or there is  *)
(* none to get them.                                                       *)
BootWithFile ==
  /\ udAt.pc = "formatted"
  /\ udAt' = IF rowThere THEN [vdu |-> "", pc |-> "next"] ELSE [udAt EXCEPT !.pc = "failed"]
  /\ bootedWith' = [w \in DOMAIN bootedWith \cup {udAt.vdu} |->
                      IF w = udAt.vdu THEN dataFile ELSE bootedWith[w]]
  /\ recorded' = [recorded EXCEPT ![udAt.vdu] = Recorded(udAt.vdu)]
  /\ UNCHANGED <<cfgEngine, carded, dataFile, rowThere>>

RowOfServiceGone ==
  /\ rowThere /\ rowThere' = FALSE
  /\ UNCHANGED <<cfgEngine, carded, dataFile, udAt, recorded, bootedWith>>

UdNext ==
  \/ \E v \in UserVdu : SetDefaultUserdata(v)
  \/ SetDefaultRoute \/ FormatUserdata \/ BootWithFile \/ RowOfServiceGone

UdSpec == UdInit /\ [][UdNext]_udVars

(***************************************************************************)
(* Properties                                                              *)
(***************************************************************************)

InFront(f, a, b) == \A i, j \in DOMAIN f : (f[i].what = a /\ f[j].what = b) => i < j

(* No machine is created with a command that still has a mark in it.       *)
AllFilledIn == \A v \in DOMAIN bootedWith : \A i \in DOMAIN bootedWith[v] : bootedWith[v][i].marks = <<>>

(* A machine runs the commands of its own VDU and of no other that shared  *)
(* the file, all of them, in the order they were given in, at the end.     *)
OwnRun ==
  \A v \in DOMAIN bootedWith :
    LET before == Len(bootedWith[v]) - Len(OwnCommands[v])
    IN /\ before >= 0
       /\ \A i \in DOMAIN bootedWith[v] :
            LET line == bootedWith[v][i]
            IN IF i <= before THEN line.what # "own"
               ELSE line.what = "own" /\ line.of = v /\ line.n = i - before

(* A machine first gets its address, then its route, then the name of the  *)
(* puppet master, and runs its own commands when it has all these.         *)
NetworkFirst ==
  \A v \in DOMAIN bootedWith :
    /\ InFront(bootedWith[v], "header", "dhclient") /\ InFront(bootedWith[v], "dhclient", "delete")
    /\ InFront(bootedWith[v], "delete", "route") /\ InFront(bootedWith[v], "route", "hosts")
    /\ InFront(bootedWith[v], "route", "own") /\ InFront(bootedWith[v], "hosts", "own")
    /\ InFront(bootedWith[v], "dhclient", "own")

(* An index above one comes from a VDU with a longer name, launched        *)
(* before: the instances of a VDU itself all get one index.                *)
IndexFrom(f, v) ==
  \A i \in DOMAIN f : f[i].filled > 1 => \E w \in WithinName[v] \ {v} : recorded[w] = f[i].filled - 1

IndexForeign == \A v \in DOMAIN bootedWith : IndexFrom(bootedWith[v], v)

(* While the row of the service is there, a launch fails over its user     *)
(* data only for a second mark in a line, a mark that is no index, or the  *)
(* index of another VDU.                                                   *)
FailsForMark ==
  (udAt.pc = "failed" /\ rowThere) =>
    \E n \in DOMAIN OwnCommands[udAt.vdu] :
      LET marks == MarksOf(OwnLine(udAt.vdu, n))
      IN Cardinality(marks) > 1 \/ \E m \in marks : m.ask # "index" \/ m.of \notin WithinName[udAt.vdu]

(* What these rest on: the lines of the program in front of the commands,  *)
(* as the file is written, routed and formatted.                           *)
DefaultFronts == {<<"dhclient">>, <<"dhclient", "hosts">>}
RoutedFronts == {<<"dhclient", "delete", "route">>, <<"dhclient", "delete", "route", "hosts">>}
HeadedFronts ==
  {<<"header", "dhclient">>, <<"header", "dhclient", "hosts">>,
   <<"header", "dhclient", "delete", "route">>,
   <<"header", "dhclient", "delete", "route", "hosts">>}

Composed(f, v, front) ==
  /\ DOMAIN f = 1 .. Len(front) + Len(OwnCommands[v])
  /\ \A i \in DOMAIN f :
       f[i] = IF i <= Len(front) THEN Line(front[i]) ELSE OwnLine(v, i - Len(front))

FilledIn(f, v, front) ==
  /\ f \in Seq(Lines) /\ DOMAIN f = 1 .. Len(front) + Len(OwnCommands[v])
  /\ \A i \in DOMAIN f :
       /\ f[i].marks = <<>>
       /\ IF i <= Len(front) THEN f[i].what = front[i]
          ELSE f[i].what = "own" /\ f[i].of = v /\ f[i].n = i - Len(front)

FileSoFar ==
  /\ DOMAIN bootedWith \subseteq UserVdu /\ DOMAIN recorded = UserVdu
  /\ udAt.pc \in {"written", "routed", "formatted"} => udAt.vdu \in UserVdu \ DOMAIN bootedWith
  /\ udAt.pc = "written" => \E front \in DefaultFronts : Composed(dataFile, udAt.vdu, front)
  /\ udAt.pc = "routed" => \E front \in DefaultFronts \cup RoutedFronts : Composed(dataFile, udAt.vdu, front)
  /\ udAt.pc = "formatted" => /\ \E front \in HeadedFronts : FilledIn(dataFile, udAt.vdu, front)
                              /\ IndexFrom(dataFile, udAt.vdu)
  /\ \A v \in DOMAIN bootedWith : \E front \in HeadedFronts : FilledIn(bootedWith[v], v, front)

UdInv ==
  /\ UdTypeOK /\ AllFilledIn /\ OwnRun /\ NetworkFirst /\ IndexForeign /\ FailsForMark
  /\ FileSoFar
=============================================================================

--------------------------- MODULE ServiceTables ----------------------------
(***************************************************************************)
(* The database. First the rows of one service's VDUs. Then the tables of  *)
(* services and templates.                                                 *)
(***************************************************************************)
EXTENDS Naturals, Sequences, FiniteSets, SequencesExt, Functions

(***************************************************************************)
(* The rows of a service's VDUs. A descriptor names a VDU by its VNFD and  *)
(* its own name; the database keeps it under the text "vnfd:vdu" and looks *)
(* for it by the VDU's name alone, as a part of that text, taking the      *)
(* first or the last match in the order of a dictionary. With one name     *)
(* inside another, rows could be mixed up; that two rows of one id cannot  *)
(* be stored is what keeps such a service out of the database.             *)
(* create_service_model runs without giving way to other threads.          *)
(***************************************************************************)
CONSTANTS
  VnfdName, VduName,
  Inside,     \* <<n, m>> \in Inside: the text n occurs in the text m
  Descriptors \* lists of VDUs a descriptor may have

VduKey == VnfdName \X VduName
NoVdu == <<"", "">>

ASSUME RowsAssumption ==
  /\ Inside \subseteq VduName \X (VnfdName \cup VduName)
  /\ \A n \in VduName : <<n, n>> \in Inside
  /\ NoVdu \notin VduKey
  /\ \A d \in Descriptors : d \in Seq(VduKey) /\ IsInjective(d)

VARIABLES
  order,     \* the VDUs of the descriptor as nsd['vdus'] lists them
  scripts,   \* those whose VNFD has an implementation artifact
  rowsPc,    \* where create_service_model is
  userdata,  \* userdata[k]: the VDU whose user data the row of k has
  events,    \* events[k]: the VDU whose lifecycle events it has
  lookups    \* the VDUs found by name so far, <<asked for, found>>

rowsVars == <<order, scripts, rowsPc, userdata, events, lookups>>

members == ToSet(order)

(* The rows of a service's VDUs keep their types.                          *)
RowsTypeOK ==
  /\ order \in Seq(VduKey) /\ scripts \subseteq members
  /\ rowsPc \in {"populate", "events", "failed", "entered"}
  /\ userdata \in [members -> VduKey \cup {NoVdu}]
  /\ events \in [members -> VduKey \cup {NoVdu}]
  /\ lookups \subseteq members \X members

RowsInit ==
  /\ order \in Descriptors
  /\ scripts \in SUBSET members
  /\ rowsPc = "populate"
  /\ userdata = [k \in members |-> NoVdu]
  /\ events = [k \in members |-> NoVdu]
  /\ lookups = {}

(* Whether the text "vnfd:vdu" of a key contains a name.                   *)
KeyContains(k, n) == <<n, k[1]>> \in Inside \/ <<n, k[2]>> \in Inside

(* The rows whose key contains a name, by their place.                     *)
Matches(n) == {i \in DOMAIN order : KeyContains(order[i], n)}

FirstMatch(n) == order[CHOOSE i \in Matches(n) : \A j \in Matches(n) : i <= j]
LastMatch(n) == order[CHOOSE i \in Matches(n) : \A j \in Matches(n) : i >= j]

-----------------------------------------------------------------------------
(* The VDUs for which populate_vdu_details adds a row under the key k.     *)
RowsOf(k) == {d \in members : KeyContains(k, d[2])}

(* Mutant: a key that has a row already is given the later user data.      *)
PopulateOver ==
  /\ rowsPc = "populate"
  /\ \A k \in members : RowsOf(k) \subseteq scripts
  /\ userdata' \in {f \in [members -> members] : \A k \in members : f[k] \in RowsOf(k)}
  /\ rowsPc' = "events"
  /\ UNCHANGED <<order, scripts, events, lookups>>

Populate ==
  /\ rowsPc = "populate"
  /\ \A k \in members : RowsOf(k) = {k} /\ k \in scripts
  /\ userdata' = [k \in members |-> k]
  /\ rowsPc' = "events"
  /\ UNCHANGED <<order, scripts, events, lookups>>

(* Two rows of one primary key, or a VDU without user data: create_service *)
(* ends with the exception as its answer, and nothing is stored.           *)
PopulateFails ==
  /\ rowsPc = "populate"
  /\ \E k \in members : RowsOf(k) # {k} \/ k \notin scripts
  /\ rowsPc' = "failed"
  /\ UNCHANGED <<order, scripts, userdata, events, lookups>>

(* update_vdu_lf_event: for each VDU, in some order, the first row that    *)
(* matches its name gets the events its VNFD has for the name in the key.  *)
(* There always are such events, see RowsTrue: no KeyError is modelled.    *)
UpdateLfEvents ==
  /\ rowsPc = "events"
  /\ \E f \in [members -> members \cup {NoVdu}] :
       /\ \A k \in members :
            LET writers == {d \in members : FirstMatch(d[2]) = k}
            IN IF writers = {} THEN f[k] = NoVdu ELSE f[k] \in writers
       /\ events' = [k \in members |->
            IF f[k] = NoVdu THEN NoVdu ELSE <<f[k][1], k[2]>>]
  /\ rowsPc' = "entered"
  /\ UNCHANGED <<order, scripts, userdata, lookups>>

(* get_lfevents, which reads the last match,                               *)
GetLfevents(d) ==
  /\ rowsPc = "entered"
  /\ lookups' = lookups \cup {<<d, LastMatch(d[2])>>}
  /\ UNCHANGED <<order, scripts, rowsPc, userdata, events>>

(* and get_vdu_userdata, which reads the first.                            *)
GetVduUserdata(d) ==
  /\ rowsPc = "entered"
  /\ lookups' = lookups \cup {<<d, FirstMatch(d[2])>>}
  /\ UNCHANGED <<order, scripts, rowsPc, userdata, events>>

RowsNext ==
  \/ Populate \/ PopulateFails \/ UpdateLfEvents
  \/ \E d \in members : GetLfevents(d) \/ GetVduUserdata(d)

RowsSpec == RowsInit /\ [][RowsNext]_rowsVars

-----------------------------------------------------------------------------
(* A service that is in the database has, in the row of each VDU, that     *)
(* VDU's user data and that VDU's events.                                  *)
RowsTrue ==
  rowsPc = "entered" => \A k \in members : userdata[k] = k /\ events[k] = k

(* A look-up by name finds the VDU that is asked for and no other.         *)
LookupsTrue == \A l \in lookups : l[1] = l[2]

(* No two VDUs of a service in the database have the same name, not even   *)
(* under different VNFDs: the plugin and the manager, which know them by   *)
(* name, do not confuse them.                                              *)
NamesApart ==
  rowsPc \in {"events", "entered"} =>
    \A j, k \in members : j[2] = k[2] => j = k

(* What makes it so: once rows are entered, under the key of each VDU is   *)
(* one row, its own, so that a name matches one key and no other.          *)
RowsAlone ==
  rowsPc \in {"events", "entered"} => \A k \in members : RowsOf(k) = {k} /\ userdata[k] = k

RowsInv ==
  /\ RowsTypeOK /\ IsInjective(order) /\ RowsAlone
  /\ RowsTrue /\ LookupsTrue /\ NamesApart

-----------------------------------------------------------------------------
(***************************************************************************)
(* The tables of vnfsvc and the queries on them. Each statement outside of *)
(* a transaction is one of its own (the sessions are autocommit): an       *)
(* upload enters its template and then its VDUs, a deletion removes rows   *)
(* one after the other, and the server may end in between. No model has a  *)
(* tenant_id and no hook is registered, so that a query sees every row.    *)
(***************************************************************************)
CONSTANTS
  Template, TypeOf,  \* the templates uploaded, and the service each is for
  VdusOf,  \* their VDUs: sequences of [flavour, vdu, flavor, image]
  Service, WantedType, WantedFlavour,  \* what a request asks for
  Machine, MaxMachines  \* servers, and how many a VDU has

ASSUME TablesAssumption ==
  /\ \A t \in Template : \A i, j \in DOMAIN VdusOf[t] :
       (VdusOf[t][i].flavour = VdusOf[t][j].flavour /\ VdusOf[t][i].vdu = VdusOf[t][j].vdu
          /\ VdusOf[t][i].flavor = VdusOf[t][j].flavor) => i = j
  /\ MaxMachines \in Nat

VARIABLES
  templateRows,  \* the templates in the table
  configRows,    \* rows of VDU configurations, with their template
  upload,        \* where the upload or the removal of a template is
  serviceRow,    \* each service: where it is, and its template
  vduRow,        \* rows of VDUs, by service and name: [machines, flavor, image]
  booted,        \* history: the machines made for a VDU, in order
  managerInfo    \* the last answer of get_manager_info

tableVars == <<templateRows, configRows, upload, serviceRow, vduRow, booted, managerInfo>>

NoTemplate == "no template"
NotYet == ""
Phantom == "no machine"

ConfigRow(t, c) == [template |-> t, flavour |-> c.flavour, vdu |-> c.vdu,
                    flavor |-> c.flavor, image |-> c.image]
ConfigsOf(t) == {ConfigRow(t, VdusOf[t][i]) : i \in DOMAIN VdusOf[t]}
AllConfigs == UNION {ConfigsOf(t) : t \in Template}
VduIds == Service \X {c.vdu : c \in AllConfigs}

VduRows == [machines : Seq(Machine), flavor : {NotYet} \cup {c.flavor : c \in AllConfigs},
            image : {NotYet} \cup {c.image : c \in AllConfigs}]

Live(s) == serviceRow[s].at \in {"entered", "removing", "cut"}

(* The rows of services and templates keep their types.                    *)
TablesTypeOK ==
  /\ templateRows \subseteq Template /\ IsFiniteSet(templateRows)
  /\ configRows \subseteq AllConfigs
  /\ upload \in [Template -> {"none", "row", "over", "failed", "removing", "gone"}]
  /\ serviceRow \in [Service -> [at : {"none", "entered", "removing", "cut", "gone"},
                                 template : Template \cup {NoTemplate}]]
  /\ DOMAIN vduRow \subseteq VduIds /\ vduRow \in [DOMAIN vduRow -> VduRows]
  /\ booted \in [VduIds -> Seq(Machine)]
  /\ managerInfo.state \in {"none", "error", "given"}

TablesInit ==
  /\ templateRows = {} /\ configRows = {} /\ upload = [t \in Template |-> "none"]
  /\ serviceRow = [s \in Service |-> [at |-> "none", template |-> NoTemplate]]
  /\ vduRow = << >> /\ booted = [v \in VduIds |-> << >>]
  /\ managerInfo = [state |-> "none", of |-> << >>]

-----------------------------------------------------------------------------
(* Templates *)

PopulateTemplateDetails(t) ==
  /\ upload[t] = "none"
  /\ templateRows' = templateRows \cup {t}
  /\ upload' = [upload EXCEPT ![t] = "row"]
  /\ UNCHANGED <<configRows, serviceRow, vduRow, booted, managerInfo>>

(* The key of a configuration has no VNFD in it: with two VDUs of a name   *)
(* in a flavour none is entered.                                           *)
KeysApart(S) == \A c, d \in S : c.flavour = d.flavour /\ c.vdu = d.vdu => c = d

PopulateVduConfiguration(t) ==
  /\ upload[t] = "row"
  /\ IF KeysApart(ConfigsOf(t))
     THEN configRows' = configRows \cup ConfigsOf(t) /\ upload' = [upload EXCEPT ![t] = "over"]
     ELSE upload' = [upload EXCEPT ![t] = "failed"] /\ UNCHANGED configRows
  /\ UNCHANGED <<templateRows, serviceRow, vduRow, booted, managerInfo>>

(* delete_template_info: the configurations, which refer to the template,  *)
DeleteTemplateInfo(t) ==
  /\ upload[t] \in {"over", "failed"} /\ upload' = [upload EXCEPT ![t] = "removing"]
  /\ configRows' = {c \in configRows : c.template # t}
  /\ UNCHANGED <<templateRows, serviceRow, vduRow, booted, managerInfo>>

(* and then the template itself.                                           *)
DeleteTemplateRow(t) ==
  /\ upload[t] = "removing" /\ upload' = [upload EXCEPT ![t] = "gone"]
  /\ templateRows' = templateRows \ {t} /\ configRows' = {c \in configRows : c.template # t}
  /\ UNCHANGED <<serviceRow, vduRow, booted, managerInfo>>

-----------------------------------------------------------------------------
(* Services *)

(* get_template_model, by name, takes one(): with none, or with more than  *)
(* one, it answers {}, and so it does for every id, which it looks up by   *)
(* an unbound variable. Whether the template is active is not told: the    *)
(* text 'False' passes for true.                                           *)
OfType(n) == {t \in templateRows : TypeOf[t] = n}
TemplateModel(n) == IF Cardinality(OfType(n)) = 1 THEN OfType(n) ELSE {}

(* get_template_id takes the first().                                      *)
TemplateIds(n) == OfType(n)

(* The rows with new ones, of VDUs that are not booted yet.                *)
WithVdus(V) ==
  [v \in DOMAIN vduRow \cup V |->
     IF v \in DOMAIN vduRow THEN vduRow[v]
     ELSE [machines |-> << >>, flavor |-> NotYet, image |-> NotYet]]

(* Mutant: any template of the name will do.                               *)
CreateServiceModelAny(s) ==
  /\ serviceRow[s].at = "none"
  /\ \E t \in TemplateIds(WantedType[s]) :
       LET names == {c.vdu : c \in {d \in ConfigsOf(t) : d.flavour = WantedFlavour[s]}}
       IN /\ names # {}
          /\ serviceRow' = [serviceRow EXCEPT ![s] = [at |-> "entered", template |-> t]]
          /\ vduRow' = WithVdus({s} \X names)
  /\ UNCHANGED <<templateRows, configRows, upload, booted, managerInfo>>

(* create_service gets to create_service_model, where one transaction      *)
(* enters the service and the VDUs its descriptor has for the flavour.     *)
CreateServiceModel(s) ==
  /\ serviceRow[s].at = "none" /\ TemplateModel(WantedType[s]) # {}
  /\ \E t \in TemplateIds(WantedType[s]) :
       LET names == {c.vdu : c \in {d \in ConfigsOf(t) : d.flavour = WantedFlavour[s]}}
       IN /\ names # {}
          /\ serviceRow' = [serviceRow EXCEPT ![s] = [at |-> "entered", template |-> t]]
          /\ vduRow' = WithVdus({s} \X names)
  /\ UNCHANGED <<templateRows, configRows, upload, booted, managerInfo>>

(* Mutant: the flavour is not asked for.                                   *)
VduDetailsOfAny(t, vdu, flavour) ==
  {c \in configRows : c.template = t /\ c.vdu = vdu}

(* get_vdu_details: one row by its whole key, or None.                     *)
VduDetails(t, vdu, flavour) ==
  {c \in configRows : c.template = t /\ c.vdu = vdu /\ c.flavour = flavour}

(* The machine's flavor and image are looked up and kept with the VDU; for *)
(* a template that has gone by now the deployment ends there.              *)
UpdateVduDetails(v) ==
  /\ v \in DOMAIN vduRow /\ serviceRow[v[1]].at = "entered" /\ vduRow[v].machines = << >>
  /\ \E c \in VduDetails(serviceRow[v[1]].template, v[2], WantedFlavour[v[1]]) :
       vduRow' = [vduRow EXCEPT ![v].flavor = c.flavor, ![v].image = c.image]
  /\ UNCHANGED <<templateRows, configRows, upload, serviceRow, booted, managerInfo>>

(* A machine is added to the comma-separated list.                         *)
UpdateVduInstanceDetails(v, m) ==
  /\ v \in DOMAIN vduRow /\ serviceRow[v[1]].at = "entered" /\ vduRow[v].flavor # NotYet
  /\ Len(booted[v]) < MaxMachines /\ \A w \in VduIds : m \notin Range(booted[w])
  /\ vduRow' = [vduRow EXCEPT ![v].machines = Append(@, m)]
  /\ booted' = [booted EXCEPT ![v] = Append(@, m)]
  /\ UNCHANGED <<templateRows, configRows, upload, serviceRow, managerInfo>>

(* The server ends, and whatever is being removed stays as it is.          *)
Crash ==
  /\ \E s \in Service : serviceRow[s].at = "removing"
  /\ serviceRow' = [s \in Service |->
       IF serviceRow[s].at = "removing" THEN [serviceRow[s] EXCEPT !.at = "cut"] ELSE serviceRow[s]]
  /\ UNCHANGED <<templateRows, configRows, upload, vduRow, booted, managerInfo>>

(* delete_db_dict, which a second request may begin again where a first    *)
(* one was cut off,                                                        *)
DeleteDbDict(s) ==
  /\ serviceRow[s].at \in {"entered", "cut"}
  /\ serviceRow' = [serviceRow EXCEPT ![s].at = "removing"]
  /\ UNCHANGED <<templateRows, configRows, upload, vduRow, booted, managerInfo>>

(* removes one VDU after the other                                         *)
DeleteVduRow(v) ==
  /\ v \in DOMAIN vduRow /\ serviceRow[v[1]].at = "removing"
  /\ vduRow' = [w \in DOMAIN vduRow \ {v} |-> vduRow[w]]
  /\ UNCHANGED <<templateRows, configRows, upload, serviceRow, booted, managerInfo>>

(* and the service at last.                                                *)
DeleteServiceRow(s) ==
  /\ serviceRow[s].at = "removing" /\ \A v \in DOMAIN vduRow : v[1] # s
  /\ serviceRow' = [serviceRow EXCEPT ![s].at = "gone"]
  /\ UNCHANGED <<templateRows, configRows, upload, vduRow, booted, managerInfo>>

(* The VDUs the service's own row lists.                                   *)
ListedVdus(s) ==
  {s} \X {c.vdu : c \in {d \in ConfigsOf(serviceRow[s].template) : d.flavour = WantedFlavour[s]}}

(* "".split(",") has one, empty element.                                   *)
InstanceList(row) == IF row.machines = << >> THEN {Phantom} ELSE Range(row.machines)

(* get_manager_info: the instances of each service, under its manager; a   *)
(* VDU without a row is an error that ends the whole query.                *)
GetManagerInfo ==
  /\ managerInfo' =
       IF \E s \in Service : Live(s) /\ ~ ListedVdus(s) \subseteq DOMAIN vduRow
       THEN [state |-> "error", of |-> << >>]
       ELSE [state |-> "given",
             of |-> [s \in {s \in Service : Live(s)} |->
                       UNION {InstanceList(vduRow[v]) : v \in ListedVdus(s)}]]
  /\ UNCHANGED <<templateRows, configRows, upload, serviceRow, vduRow, booted>>

TablesNext ==
  \/ \E t \in Template : PopulateTemplateDetails(t) \/ PopulateVduConfiguration(t)
                         \/ DeleteTemplateInfo(t) \/ DeleteTemplateRow(t)
  \/ \E s \in Service : CreateServiceModel(s) \/ DeleteDbDict(s) \/ DeleteServiceRow(s)
  \/ \E v \in VduIds : UpdateVduDetails(v) \/ DeleteVduRow(v)
                       \/ \E m \in Machine : UpdateVduInstanceDetails(v, m)
  \/ Crash \/ GetManagerInfo

-----------------------------------------------------------------------------
(* Wherever the server ends while it removes rows, the VDUs that are left  *)
(* are listed in a service that is left: a second request can remove them. *)
NoOrphans == \A v \in DOMAIN vduRow : Live(v[1]) /\ v \in ListedVdus(v[1])

(* Nor is there ever a configuration of a template that is not in the      *)
(* table; and one that is there is wholly configured, or not at all: in    *)
(* the midst of its upload or removal, or because its VDUs could not be    *)
(* told apart, while it is in the catalog nevertheless.                    *)
ConfiguredWholly ==
  /\ \A c \in configRows : c.template \in templateRows
  /\ \A t \in templateRows :
       LET rows == {c \in configRows : c.template = t}
       IN rows = ConfigsOf(t) \/ (rows = {} /\ upload[t] # "over")

(* A VDU is booted with the flavor and the image its template's descriptor *)
(* has for it in the flavour that was asked for.                           *)
BootedAsDescribed ==
  \A v \in DOMAIN vduRow : vduRow[v].flavor # NotYet =>
    \E c \in ConfigsOf(serviceRow[v[1]].template) :
      /\ c.flavour = WantedFlavour[v[1]] /\ c.vdu = v[2]
      /\ c.flavor = vduRow[v].flavor /\ c.image = vduRow[v].image

(* No service is entered while it is not clear which template is meant.    *)
OneTemplateMeant ==
  [][\A s \in Service : serviceRow[s].at = "none" /\ serviceRow'[s].at = "entered" =>
       \A t \in templateRows : TypeOf[t] = WantedType[s] => t = serviceRow'[s].template]_tableVars

(* The list of a VDU has each of its machines, in the order they came.     *)
MachinesKept == \A v \in DOMAIN vduRow : vduRow[v].machines = booted[v]

(* What makes it so: a template is in the table from its upload to the end *)
(* of its removal; a service that is entered has a row for each VDU it     *)
(* lists, and one that is not yet has had no machine.                      *)
TemplatesListed ==
  templateRows = {t \in Template : upload[t] \in {"row", "over", "failed", "removing"}}

RowsListed ==
  \A s \in Service :
    /\ serviceRow[s].at = "entered" => ListedVdus(s) \subseteq DOMAIN vduRow
    /\ serviceRow[s].at = "none" => \A v \in VduIds : v[1] = s => booted[v] = << >>

TablesInv ==
  /\ TablesTypeOK /\ TemplatesListed /\ RowsListed
  /\ NoOrphans /\ ConfiguredWholly /\ BootedAsDescribed /\ MachinesKept

(* get_manager_info names under a manager the machines of its service and  *)
(* no other, but for the empty name of a VDU that has none yet; it fails   *)
(* only because a removal is under way or was cut off.                     *)
InfoTrue ==
  [][/\ managerInfo'.state = "given" /\ managerInfo' # managerInfo =>
          \A s \in DOMAIN managerInfo'.of :
            managerInfo'.of[s] = UNION {IF booted[v] = << >> THEN {Phantom} ELSE Range(booted[v]) :
                                          v \in ListedVdus(s)}
     /\ managerInfo'.state = "error" /\ managerInfo' # managerInfo =>
          \E s \in Service : serviceRow[s].at \in {"removing", "cut"}]_tableVars
=============================================================================

----------------------------- MODULE MCRequests -----------------------------
(***************************************************************************)
(* The parts that are checked for safety alone, each on its own: those     *)
(* that work on one request, one answer, one row or one descriptor, and    *)
(* the actors that share a lock, a bus, a database or a router. `turn' is  *)
(* the part a behaviour is about, the others keep still.                   *)
(***************************************************************************)
EXTENDS ServiceTables, RestRequest, RestListing, XmlCodec, CommandLine, DescriptorParsers,
        LifecycleData, WsgiPipeline, SharedClients, AttributeRules, OsloCommon,
        CommandRoutes, RouterDriver, RpcMessages, DbMigration, ServiceUpdate, TLC

VARIABLE turn

(* ServiceTables: VDU names of which one lies inside another, or in a VNFD name. *)
InsideNames == {<<"a", "a">>, <<"b", "b">>, <<"ab", "ab">>, <<"a", "ab">>,
                <<"b", "ab">>, <<"a", "fa">>}
ThreeVdus == {d \in UNION {[1 .. n -> VduKey] : n \in 0 .. 3} : IsInjective(d)}

(* RestListing: rows that are equal in each column, not in both.           *)
TwoColumns == [a |-> <<1, 2, 1>>, b |-> <<1, 1, 2>>]
SomeLimits == {-1, 2}

(* XmlCodec: documents of one resource, with scalars, lists and mappings.  *)
XmlScalars == {Null, Leaf("str", ""), Leaf("str", "a"), Leaf("int", "5"), Leaf("bool", "True")}
XmlShort == {Leaf("str", "a"), Leaf("int", "5")}
UpToTwo(S) == UNION {[1 .. n -> S] : n \in 0 .. 2}
XmlLists == {List(x) : x \in UpToTwo(XmlShort)}
XmlDicts == UNION {{Dict(f) : f \in [K -> XmlShort \cup {List(<<Leaf("int", "5")>>)}]} :
                     K \in SUBSET {"tags", "total"}}
XmlValues == XmlScalars \cup XmlLists \cup XmlDicts
             \cup {List(x) : x \in UpToTwo({d \in XmlDicts : Cardinality(DOMAIN d.map) < 2})}
XmlEntry(k, S) == {[x \in {} |-> Null]} \cup {k :> v : v \in S}
XmlBodies ==
  {Dict(f @@ g @@ h) : f \in XmlEntry("services", XmlValues),
                       g \in XmlEntry("total", XmlScalars),
                       h \in XmlEntry("services_links",
                                      {List(<< >>), List(<<Leaf("str", "l1")>>)})}
XmlSingular == [services |-> "service", tags |-> "tag"]
XmlPlurals == [server |-> {}, client |-> {"services", "tags"}]
XmlNamespace == [server |-> "svc", client |-> ""]

(* DescriptorParsers: one VDU whose ports and networks vary beside one     *)
(* whose do not.                                                           *)
DescSome ==
  [member : {[n \in Vld |-> [v \in DescVdu |-> IF v = "v" THEN m[n]
                                              ELSE IF n = "x" THEN "p"
                                              ELSE IF n = "y" THEN "q" ELSE "no"]] :
               m \in [Vld -> Join]},
   routed : {{"x"}, {"x", "y"}}, given : {Vld, Vld \ {"mgmt-if"}},
   ref : {[v \in DescVdu |-> IF v = "v" THEN r
                             ELSE [i \in Iface |-> IF i = "e0" THEN "q" ELSE "p"]] :
            r \in [Iface -> Point]},
   fixed : {{}, {"p"}}]

(* LifecycleData: VDUs that ask for data of one another, in turn or at     *)
(* once; the name of a lies in that of b.                                  *)
NamesInside == {<<"a", "b">>}
AsksFor(S) == [is |-> "asking", asks |-> S]
OfKind(k) == [is |-> k, asks |-> {}]
LfAsks ==
  {NoData, OfKind("plain"), OfKind("blank"), AsksFor({<<"b", "e">>}),
   AsksFor({<<"c", "e">>, <<"b", "f">>}), AsksFor({<<"a", "e">>}),
   AsksFor({<<"b", "e">>, <<"a", "f">>})}
LfSome ==
  [needs : {[v \in LfVdu |-> IF v = "b" THEN {"a"} ELSE {}], [v \in LfVdu |-> {}]},
   size : {[v \in LfVdu |-> IF v = w THEN 2 ELSE 1] : w \in {"a", "b", "none"}},
   cards : {[v \in LfVdu |-> IF v = "b" THEN LfIface ELSE {"e"}]},
   init : {[v \in LfVdu |-> IF v = "c" THEN x ELSE OfKind("plain")] : x \in LfAsks}
          \cup {[v \in LfVdu |-> IF v = "b" THEN AsksFor({<<"b", "e">>, <<"c", "e">>})
                                            ELSE OfKind("blank")]},
   config : {[v \in LfVdu |-> IF v = "b" THEN x
                              ELSE IF v = "a" THEN NoData ELSE AsksFor({<<"a", "e">>})] :
               x \in {NoData, OfKind("blank"), AsksFor({<<"b", "f">>})}}]

(* WsgiPipeline: the pipeline of the paste file, and one with all the      *)
(* filters of the repository.                                              *)
SomePipelines ==
  {<<"request_id", "catch_errors", "authtoken", "keystonecontext">>,
   <<"request_id", "catch_errors", "sizelimit", "authtoken", "keystonecontext", "middleware">>}

(* SharedClients: two requests of one tenant or of two, or of nobody.      *)
OsTenants == {[r1 |-> "A", r2 |-> x] : x \in {"A", "B", "nobody"}}
AuthCall == <<"auth">>
OsJobs ==
  {<<AuthCall>>,
   <<AuthCall, AuthCall, <<"make", "nova">>, <<"look", "nova">>, <<"admin", "neutron">>>>,
   <<AuthCall, <<"make", "glance">>, <<"look", "glance">>, <<"make", "nova">>>>}
OsFlavors == [v1 |-> "f1", v2 |-> "f2", v3 |-> "f1"]
OsImages == [v1 |-> "i1", v2 |-> "unknown", v3 |-> "i1"]
OsPrefix == {<<"c1", "c1">>, <<"c1", "c10">>, <<"c10", "c10">>, <<"c2", "c2">>}

(* ServiceTables: two templates of one type with several flavours.         *)
TbType == [t1 |-> "web", t2 |-> "web"]
TbRow(fl, v, nf, im) == [flavour |-> fl, vdu |-> v, flavor |-> nf, image |-> im]
TbVdus ==
  [t1 |-> <<TbRow("gold", "a", "f1", "i1"), TbRow("silver", "a", "f2", "i1")>>,
   t2 |-> <<TbRow("gold", "a", "f1", "i3")>>]
TbWanted == [s1 |-> "web", s2 |-> "web"]
TbFlavour == [s1 |-> "gold", s2 |-> "silver"]

(* RestListing: three of the resources, with columns the map does not    *)
(* show and keys that are no columns.                                      *)
VwColumns == [services |-> {"id", "vdus"}, diagnostics |-> {"id", "vdus"},
              templates |-> {"id", "status"}]
VwKnown == [services |-> {"tenant_id", "name"}, diagnostics |-> {"tenant_id", "vdus"},
            templates |-> {"tenant_id", "files"}]
VwPolicy == [services |-> {"tenant_id"}, diagnostics |-> {"tenant_id"},
             templates |-> {"tenant_id", "files"}]
VwTrims == [services |-> TRUE, diagnostics |-> TRUE, templates |-> FALSE]

(* AttributeRules: values at the bounds of each rule, of every type.       *)
RlNone == [type |-> "none"]
RlInt(n) == [type |-> "int", n |-> n]
RlBool(b) == [type |-> "bool", b |-> b]
RlText(n, w, len) == [type |-> "text", n |-> n, word |-> w, len |-> len]
RlList(items) == [type |-> "list", items |-> items]
RlUuid == RlText(999, "uuid", 36)
RlScalars ==
  {RlNone, RlInt(-1), RlInt(0), RlInt(1), RlInt(2), RlBool(TRUE), RlBool(FALSE),
   RlText(1, "plain", 1), RlText(0, "plain", 1), RlText(999, "true", 4),
   RlText(999, "blank", 2), RlText(999, "blank", 0), RlText(-1, "plain", 2), RlUuid}
RlLists ==
  {RlList(<< >>), RlList(<<RlUuid>>), RlList(<<RlUuid, RlText(999, "other uuid", 36)>>),
   RlList(<<RlUuid, RlUuid>>), RlList(<<RlInt(1)>>)}
RlR(name, lo, hi, none, req, conv) ==
  [rule |-> name, lo |-> lo, hi |-> hi, orNone |-> none, required |-> req, convert |-> conv]
RlU == -99
RlSingle ==
  {RlR("range", lo, hi, FALSE, TRUE, conv) :
     lo \in {RlU, 0}, hi \in {RlU, 0, 1}, conv \in {"none", "int"}}
  \cup {RlR(n, RlU, 1, FALSE, TRUE, "none") :
          n \in {"string", "not_empty_string", "uuid", "boolean", "non_negative"}}
  \cup {RlR(n, RlU, RlU, TRUE, FALSE, "none") : n \in {"string", "not_empty_string", "uuid"}}
  \cup {RlR(n, RlU, RlU, FALSE, TRUE, conv) :
          n \in {"uuid_list", "list_or_none"}, conv \in {"list", "none to list", "none"}}
  \cup {RlR("any", RlU, RlU, FALSE, FALSE, conv) : conv \in {"boolean", "boolean if not none"}}
RlDouble ==
  {RlR("boolean", RlU, RlU, FALSE, TRUE, "boolean"),
   RlR("non_negative", RlU, RlU, FALSE, FALSE, "int"),
   RlR("uuid_list", RlU, RlU, FALSE, FALSE, "list")}
RlSpecs == [{"a"} -> RlSingle] \cup [{"a", "b"} -> RlDouble]
RlData ==
  [{"a"} -> RlScalars \cup RlLists] \cup [{"b"} -> {RlNone}]
  \cup [{"a", "b"} -> {RlInt(-1), RlInt(1), RlNone, RlUuid, RlList(<<RlInt(1)>>)}]
RlPairs == {<<"x", "1">>, <<"x", "2">>, <<"y", "1">>, <<"True">>, << >>}
RlPairLists == UNION {[1 .. n -> RlPairs] : n \in 0 .. 2}

(* DescriptorParsers: three VDUs, two of them in one round, one named in     *)
(* another.                                                                *)
DocRounds == "db" :> 1 @@ "web" :> 2 @@ "webcache" :> 2
DocCopies == "db" :> 2 @@ "web" :> 1 @@ "webcache" :> 2
DocNamed == "db" :> {"db"} @@ "web" :> {"web", "webcache"} @@ "webcache" :> {"webcache"}

(* LifecycleData: VDUs that ask for their index, for that of another or for an  *)
(* address.                                                                *)
IndexOf(v) == [ask |-> "index", of |-> v]
UdWithin == "web" :> {"web", "webcache"} @@ "webcache" :> {"webcache"} @@ "db" :> {"db"}
            @@ "app" :> {"app"}
UdOwn == "web" :> << <<>>, <<IndexOf("webcache")>> >>
         @@ "webcache" :> << <<IndexOf("webcache"), IndexOf("webcache")>> >>
         @@ "db" :> << <<IndexOf("db"), [ask |-> "address", of |-> "web"]>> >>
         @@ "app" :> << <<>>, <<IndexOf("app")>>, <<>> >>
UdMachines == "web" :> 2 @@ "webcache" :> 2 @@ "db" :> 1 @@ "app" :> 1

(* RouterDriver: a rule for the NAT and the route.                         *)
TwoRules == <<"nat", "route">>

(* OsloCommon: three threads of a process, one of another.                 *)
LockProcesses == [t1 |-> "p", t2 |-> "p", t3 |-> "p", t4 |-> "q"]
LockErrands ==
  LET manager == [name |-> "manager", external |-> FALSE]
      tables == [name |-> "tables", external |-> TRUE]
  IN [t1 |-> {manager, tables}, t2 |-> {manager, tables}, t3 |-> {manager}, t4 |-> {tables}]
AnyErrand == CHOOSE f \in [Thread -> UNION {ErrandsOf[t] : t \in Thread}] :
               \A t \in Thread : f[t] \in ErrandsOf[t]

(* RpcMessages: two plugins of a host, a manager, one request.             *)
RpcTopics == [a |-> [name |-> "plugin", node |-> "plugin.h"],
              b |-> [name |-> "plugin", node |-> "plugin.h"],
              m |-> [name |-> "manager", node |-> "manager.h"]]
RpcAsking == [r |-> [user_id |-> "u", tenant_id |-> "t", user_name |-> "un",
                     tenant_name |-> "tn", auth_token |-> "k"]]
RpcOutdated == [o |-> [user |-> "v", project_id |-> "w"]]

(* ServiceUpdate: a request may name a VDU the service has or another.    *)
UpdateVdus == [o \in {"a"} |-> {"vm"}]

(* What the parts are about while others have their turn.                  *)
AnyDescription == CHOOSE d \in Descriptions : TRUE
AnyService == CHOOSE s \in LfServices : TRUE
AnyPipeline == CHOOSE p \in Pipelines : TRUE
LongestJob == CHOOSE j \in Jobs : \A k \in Jobs : Len(k) <= Len(j)
AnyGet == [kind |-> "services", many |-> FALSE, asked |-> {}, sorts |-> {}, sorting |-> FALSE,
           paging |-> FALSE, rows |-> 1]
AnySpec == CHOOSE s \in RuleSpecs : TRUE
AnyData == CHOOSE d \in Data : TRUE
AnyTyped == CHOOSE t \in TypedAs("list") : TRUE
AnyOrder == [command |-> CHOOSE c \in Commands : TRUE, given |-> {}, tenant |-> FALSE]
UnusedSsh == [state |-> "unused", tries |-> 0, connected |-> FALSE]

-----------------------------------------------------------------------------
Others(part) ==
  /\ turn = part /\ UNCHANGED turn
  /\ part # "rows" => UNCHANGED rowsVars
  /\ part # "rest" => UNCHANGED restVars
  /\ part # "list" => UNCHANGED listVars
  /\ part # "xml" => UNCHANGED xmlVars
  /\ part # "cli" => UNCHANGED cliVars
  /\ part # "desc" => UNCHANGED descVars
  /\ part # "lf" => UNCHANGED lfVars
  /\ part # "http" => UNCHANGED httpVars
  /\ part # "clients" => UNCHANGED osVars
  /\ part # "tables" => UNCHANGED tableVars
  /\ part # "view" => UNCHANGED viewVars
  /\ part # "rule" => UNCHANGED ruleVars
  /\ part # "values" => UNCHANGED valuesVars
  /\ part # "policy" => UNCHANGED polVars
  /\ part # "document" => UNCHANGED docVars
  /\ part # "userdata" => UNCHANGED udVars
  /\ part # "routes" => UNCHANGED routesVars
  /\ part # "router" => UNCHANGED routerVars
  /\ part # "lock" => UNCHANGED lockVars
  /\ part # "rpc" => UNCHANGED rpcVars
  /\ part # "migration" => UNCHANGED migrationVars
  /\ part # "update" => UNCHANGED updateVars

Init ==
  /\ turn \in {"rows", "rest", "list", "xml", "cli", "desc", "lf", "http", "clients",
               "tables", "view", "rule", "values", "policy", "document", "userdata",
               "routes", "router", "lock", "rpc", "migration", "update"}
  /\ (turn # "rows" => order = << >>) /\ RowsInit
  /\ RestInit
  /\ (turn # "list" => table = {}) /\ ListInit
  /\ XmlInit
  /\ (turn # "cli" => argv = << >>) /\ CliInit
  /\ (turn # "desc" => desc = AnyDescription) /\ DescInit
  /\ (turn # "lf" => service = AnyService /\ seenNames = {}) /\ LfInit
  /\ (turn # "http" => pipeline = AnyPipeline) /\ HttpInit
  /\ (turn # "clients" => tenantOf = [r1 |-> "A", r2 |-> "A"]) /\ OsInit
     /\ (turn # "clients" => ~listing.on /\ \A c \in Caller : caller[c].todo = LongestJob)
  /\ TablesInit
  /\ (turn # "view" => get = AnyGet) /\ ViewInit
  /\ (turn # "rule" => spec = AnySpec /\ data = AnyData /\ pairs = << >>) /\ RuleInit
  /\ (turn # "values" => typed = AnyTyped) /\ ValuesInit
  /\ (turn # "policy" => listRule = << >>) /\ PolInit
  /\ (turn # "document" => lastAcked = "db") /\ DocInit
  /\ (turn # "userdata" => cfgEngine = TRUE /\ carded = {}) /\ UdInit
  /\ (turn # "routes" => shellOrder = AnyOrder) /\ RoutesInit
  /\ (turn # "router" => ssh = UnusedSsh) /\ RouterInit
     /\ (turn # "router" => \A i \in RouterVm : box[i].saved = {})
  /\ (turn # "lock" => errand = AnyErrand) /\ LockInit
  /\ RpcInit
  /\ (turn # "migration" => dialect = [name |-> "mysql", config |-> "url"]) /\ MigrationInit
  /\ UpdateInit

Next ==
  \/ Others("rows") /\ RowsNext
  \/ Others("rest") /\ RestNext
  \/ Others("list") /\ ListNext
  \/ Others("xml") /\ XmlNext
  \/ Others("cli") /\ CliNext
  \/ Others("desc") /\ DescNext
  \/ Others("lf") /\ LfNext
  \/ Others("http") /\ HttpNext
  \/ Others("clients") /\ OsNext
  \/ Others("tables") /\ TablesNext
  \/ Others("view") /\ ViewNext
  \/ Others("rule") /\ RuleNext
  \/ Others("values") /\ ValuesNext
  \/ Others("policy") /\ PolNext
  \/ Others("document") /\ DocNext
  \/ Others("userdata") /\ UdNext
  \/ Others("routes") /\ RoutesNext
  \/ Others("router") /\ RouterNext
  \/ Others("lock") /\ LockNext
  \/ Others("rpc") /\ RpcNext
  \/ Others("migration") /\ MigrationNext
  \/ Others("update") /\ UpdateNext

partVars ==
  <<rowsVars, restVars, listVars, xmlVars, cliVars, descVars, lfVars, httpVars, osVars,
    tableVars, viewVars, ruleVars, valuesVars, polVars, docVars, udVars, routesVars,
    routerVars, lockVars, rpcVars, migrationVars, updateVars, turn>>

Spec == Init /\ [][Next]_partVars

-----------------------------------------------------------------------------
(* A request reaches the plugin only as the filters and the attributes of  *)
(* its resource allow, and one that is refused changes nothing: nobody is  *)
(* let in without a context, no rule lets in for what cannot be looked up, *)
(* no value of a wrong kind gets through, and a bulk that fails half way   *)
(* is taken back.                                                         *)
RequestsScreened ==
  /\ turn = "rest" => RestInv
  /\ turn = "http" => HttpInv
  /\ turn = "rule" => RuleInv
  /\ turn = "policy" => PolInv

(* What a GET shows is what there is: a walk over the pages meets every    *)
(* row that was there all the time, once and in order, forwards and back,  *)
(* and of each row the fields that were asked for and no others.           *)
AnswersTrue ==
  /\ turn = "list" => ListInv
  /\ turn = "view" => ViewInv

(* A command is carried out where and as it should be: what is typed is    *)
(* taken for what it says, sent where the server has a handler, with the   *)
(* values that were given and no others, and ends with a status and a      *)
(* table that say how it went.                                             *)
CommandsTrue ==
  /\ turn = "cli" => CliInv
  /\ turn = "values" => ValuesInv
  /\ turn = "routes" => RoutesInv

(* A text is taken as it is meant: a rule of the policy file is what the   *)
(* grammar reads in it or is denied, and what goes through XML comes back. *)
TextsMeant ==
  /\ turn = "policy" => ParsedAsMeant
  /\ turn = "xml" => XmlTypeOK /\ XmlRoundTrip /\ XmlNothingInvented /\ XmlLastItem

(* What a descriptor says reaches the machine it says it of: the networks  *)
(* its ports are wired to, the lifecycle data of the machines it depends   *)
(* on, its own user data, and its part of the service's document.          *)
DescriptorsTrue ==
  /\ turn = "desc" => DescInv
  /\ turn = "document" => DocInv
  /\ turn = "lf" => LfInv
  /\ turn = "userdata" => UdInv

(* A row is found again and is the right one, though names lie inside one  *)
(* another, templates share a type and the server may end between any two  *)
(* statements; and between its migrations the schema is that of its        *)
(* version, as far as the database can undo what a migration began.        *)
DatabaseTrue ==
  /\ turn = "rows" => RowsInv
  /\ turn = "tables" => TablesInv
  /\ turn = "migration" => MigrationInv

(* Actors that share something keep out of each other's way: requests with *)
(* the clients in the plugin, threads and processes with a lock, init and  *)
(* config threads of a router with its configuration session.              *)
ActorsApart ==
  /\ turn = "clients" => ClientsInv
  /\ turn = "lock" => LockInv
  /\ turn = "router" => RouterInv

(* A message between plugin and manager is handled by the one it is for,   *)
(* once, with the identity of the request it comes from; and an update on  *)
(* its way is for a manager that listens and names a VDU of its service.   *)
MessagesTrue ==
  /\ turn = "rpc" => RpcInv
  /\ turn = "update" => UpdateInv

(* No step goes further than it was told: a name that means several rows   *)
(* or templates picks none, a dump waits for what it shows, a migration    *)
(* goes one revision after the other and writes only in its own run, an    *)
(* update is refused where the service has gone, and for want of a proxy   *)
(* only where this plugin has invoked no manager.                          *)
StepsMeant ==
  /\ OneRowMeant /\ OneTemplateMeant /\ InfoTrue /\ DumpSettled
  /\ UpgradedWholly /\ DowngradedWholly /\ OnlyRunsWrite /\ EngineAsAsked /\ OneStepOnly
  /\ NoProxyYet /\ GoneIsRefused
=============================================================================

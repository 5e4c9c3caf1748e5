----------------------------- MODULE CommandRoutes -----------------------------
(***************************************************************************)
(* A command of the client all the way to the plugin: the command calls a  *)
(* method of the client by name, this sends a request to a path, the       *)
(* server finds a controller by the path, which checks the body by the     *)
(* attribute map of its resource and calls a handler of the plugin, again  *)
(* by name. Each of the five tables is in a file of its own.               *)
(***************************************************************************)
EXTENDS Naturals, Sequences, SequencesExt, FiniteSets

VARIABLES
  shellOrder, \* the command typed, the optional keys given, whether the user's
              \* token has a tenant
  orderAt,    \* "typed", "found", "sent", "routed", "checked", "ended"
  ran,        \* the handlers of the plugin that ran
  bodyKeys,   \* the keys of the body
  verdict     \* how the command ended

routesVars == <<shellOrder, orderAt, ran, bodyKeys, verdict>>

(* The commands: verb, resource, the keys they send, those they may send.  *)
CommandsOf(verb, resource, keys, may) == [verb |-> verb, of |-> resource, keys |-> keys, may |-> may]
Commands == {
  CommandsOf("create", "service", {"name", "quality_of_service", "attributes"}, {"tenant_id"}),
  CommandsOf("delete", "service", {}, {}), CommandsOf("list", "service", {}, {}),
  CommandsOf("show", "service", {}, {}), CommandsOf("update", "service", {"attributes"}, {}),
  CommandsOf("create", "activate", {"name", "template_id", "enable"}, {"tenant_id"}),
  CommandsOf("create", "template", {"name"}, {"files", "tenant_id"}),
  CommandsOf("list", "template", {}, {}), CommandsOf("delete", "template", {}, {}),
  CommandsOf("show", "template", {}, {}),
  CommandsOf("create", "register", {"user"}, {"nsd_id", "tenant_id"}),
  CommandsOf("show", "dumpxml", {}, {}), CommandsOf("show", "metric", {}, {}),
  CommandsOf("show", "service_driver", {}, {}),
  CommandsOf("create", "diagnostic", {"nsd_id", "vdus"}, {}),
  CommandsOf("delete", "diagnostic", {}, {}),
  CommandsOf("update", "configuration", {"attributes"}, {}) }

(* The methods of the client.                                              *)
ClientHas(verb, r) ==
  r \in CASE verb = "list" -> {"service", "template", "metric", "configuration", "service_driver",
                               "diagnostic", "dumpxml"}
          [] verb = "show" -> {"service", "metric", "service_driver", "template", "dumpxml"}
          [] verb = "create" -> {"service", "template", "configuration", "activate", "diagnostic",
                                 "register"}
          [] verb = "update" -> {"service", "configuration"}
          [] verb = "delete" -> {"service", "template", "diagnostic"}

(* The resource whose path a method sends to.                              *)
PathOf(verb, r) == IF verb = "list" /\ r = "dumpxml" THEN "service" ELSE r

RoutedNames == {"vnf", "vnf_template", "connection", "service", "template", "activate", "diagnostic",
           "configuration", "register", "dumpxml"}

(* The handlers of the plugin; those of service drivers have no route.     *)
PluginHas(verb, r) ==
  r \in CASE verb = "list" -> {"service", "template", "diagnostic", "configuration", "service_driver"}
          [] verb = "show" -> {"service", "template", "diagnostic", "configuration", "dumpxml",
                               "service_driver"}
          [] verb = "create" -> {"service", "template", "activate", "diagnostic"}
          [] verb = "update" -> {"service", "configuration"}
          [] verb = "delete" -> {"service", "template", "diagnostic"}

(* The table whose rows a list yields, and by whose ids a handler goes.    *)
TableOf(r) == IF r = "template" THEN "template" ELSE "service"

(* RESOURCE_ATTRIBUTE_MAP: it has "dumxmls" for the dumps, which thereby   *)
(* declare nothing.                                                        *)
Declared(r) ==
  CASE r = "service" -> {"tenant_id", "name", "description", "quality_of_service", "attributes"}
    [] r = "template" -> {"tenant_id", "name", "files"}
    [] r = "activate" -> {"tenant_id", "name", "template_id", "enable"}
    [] r = "diagnostic" -> {"tenant_id", "nsd_id", "vdus"}
    [] r = "configuration" -> {"attributes"}
    [] r = "register" -> {"tenant_id", "user"}
    [] OTHER -> {}

NoDefault(r) == Declared(r) \cap {"tenant_id", "files", "nsd_id", "user"}

(* A command is at one of the five stations, with what it carries.         *)
RoutesTypeOK ==
  /\ shellOrder.command \in Commands /\ shellOrder.given \subseteq shellOrder.command.may
  /\ orderAt \in {"typed", "found", "sent", "routed", "checked", "ended"}
  /\ \A i \in DOMAIN ran : PluginHas(ran[i][1], ran[i][2])
  /\ bodyKeys \subseteq UNION {Declared(r) : r \in RoutedNames}
  /\ verdict \in {"none", "no route", "no handler", "not found", "refused", "failed", "done"}
  /\ (verdict # "none") <=> (orderAt = "ended")

RoutesInit ==
  /\ \E c \in Commands : \E g \in SUBSET c.may : 
       \E t \in BOOLEAN : shellOrder = [command |-> c, given |-> g, tenant |-> t]
  /\ orderAt = "typed" /\ ran = <<>> /\ bodyKeys = {} /\ verdict = "none"

Verb == shellOrder.command.verb
Resource == shellOrder.command.of
ByName == Verb \in {"show", "update", "delete"}
OrderEnds(how) == orderAt' = "ended" /\ verdict' = how

(* Commands on one row take an id or a name, and list the rows first.      *)
NeedsLookup == ByName

NoLookup ==
  /\ orderAt = "typed" /\ ~NeedsLookup /\ orderAt' = "found"
  /\ UNCHANGED <<shellOrder, ran, bodyKeys, verdict>>

(* The answer of the lookup: a row, or none.                               *)
Lookup ==
  /\ orderAt = "typed" /\ NeedsLookup /\ ClientHas("list", Resource)
  /\ LET r == PathOf("list", Resource)
     IN IF r \notin RoutedNames THEN OrderEnds("no route") /\ UNCHANGED ran
        ELSE IF ~PluginHas("list", r) THEN OrderEnds("no handler") /\ UNCHANGED ran
        ELSE /\ ran' = Append(ran, <<"list", r>>)
             /\ \/ orderAt' = "found" /\ UNCHANGED verdict
                \/ OrderEnds("not found")
  /\ UNCHANGED <<shellOrder, bodyKeys>>

Send ==
  /\ orderAt = "found" /\ ClientHas(Verb, Resource) /\ orderAt' = "sent"
  /\ bodyKeys' = shellOrder.command.keys \cup shellOrder.given
  /\ UNCHANGED <<shellOrder, ran, verdict>>

FindController ==
  /\ orderAt = "sent"
  /\ IF PathOf(Verb, Resource) \in RoutedNames THEN orderAt' = "routed" /\ UNCHANGED verdict
                                         ELSE OrderEnds("no route")
  /\ UNCHANGED <<shellOrder, ran, bodyKeys>>

(* prepare_request_body, for the keys alone.                               *)
BodyFits(keys) ==
  LET all == keys \cup (IF Verb = "create" /\ shellOrder.tenant THEN {"tenant_id"} ELSE {})
  IN /\ all \subseteq Declared(Resource)
     /\ Verb = "create" => "tenant_id" \in all /\ NoDefault(Resource) \subseteq all

Refused400 == OrderEnds("refused")

CheckBody ==
  /\ orderAt = "routed"
  /\ IF Verb \in {"create", "update"} /\ ~BodyFits(bodyKeys)
       THEN Refused400 ELSE orderAt' = "checked" /\ UNCHANGED verdict
  /\ UNCHANGED <<shellOrder, ran, bodyKeys>>

(* Mutant: the row is shown afterwards.                                    *)
HandlersShownAfter(r) ==
  IF Verb \in {"update", "delete"} THEN <<<<Verb, r>>, <<"show", Resource>>>> ELSE <<<<Verb, r>>>>

(* The controller shows a row before it changes it.                        *)
HandlersRun(r) ==
  IF Verb \in {"update", "delete"} THEN <<<<"show", Resource>>, <<Verb, r>>>> ELSE <<<<Verb, r>>>>

(* start-diagnostics sends "vdus" where the handler reads "files_dict";    *)
(* with none started, there is none to stop; a template shown is empty and *)
(* cannot be printed.                                                      *)
NeverDone ==
  \/ Resource = "diagnostic"
  \/ Verb = "show" /\ Resource = "template"

Handle ==
  /\ orderAt = "checked"
  /\ IF ~PluginHas(Verb, PathOf(Verb, Resource))
       THEN OrderEnds("no handler") /\ ran' = ran
       ELSE /\ ran' = ran \o HandlersRun(PathOf(Verb, Resource))
            /\ \/ OrderEnds("failed")
               \/ ~NeverDone /\ OrderEnds("done")
  /\ UNCHANGED <<shellOrder, bodyKeys>>

RoutesNext == NoLookup \/ Lookup \/ Send \/ FindController \/ CheckBody \/ Handle

RoutesSpec == RoutesInit /\ [][RoutesNext]_routesVars

(***************************************************************************)
(* Properties                                                              *)
(***************************************************************************)

(* Each command finds the method, the route and the handler it needs, but  *)
(* for three: registering has no handler, metrics and drivers no route.    *)
ThreeDeadEnds ==
  /\ verdict = "no handler" => Resource = "register"
  /\ verdict = "no route" => Resource \in {"metric", "service_driver"}

(* Whatever way a command ends, the only thing it changed is what it is    *)
(* for, once at most and behind all that it read.                          *)
ChangesOnlyOwn ==
  \A i \in DOMAIN ran :
    ran[i][1] \in {"create", "update", "delete"} => ran[i] = <<Verb, Resource>> /\ i = Len(ran)

(* A handler that goes by an id runs only after a list of the table the id *)
(* is of, although commands and resources have other names than tables.    *)
LookedUpThere ==
  \A i \in DOMAIN ran :
    ran[i][1] \in {"show", "update", "delete"} =>
      \E j \in 1 .. i - 1 : ran[j][1] = "list" /\ TableOf(ran[j][2]) = TableOf(ran[i][2])

(* What a command is told to send is known at the other end: it is refused *)
(* only for a registration with a service, an upload without files, or     *)
(* without a tenant.                                                       *)
KeysUnderstood ==
  verdict = "refused" =>
    \/ Resource = "register" /\ "nsd_id" \in shellOrder.given
    \/ Resource = "template" /\ "files" \notin shellOrder.given
    \/ ~shellOrder.tenant /\ "tenant_id" \notin shellOrder.given

(* No handler that changes something is given a key the API does not       *)
(* declare for the resource.                                               *)
HandedAsDeclared ==
  orderAt = "checked" /\ Verb \in {"create", "update"} => bodyKeys \subseteq Declared(Resource)
(* The handlers that have run are those of the look-up and then, if it got *)
(* that far, those of the command; and the body is what was told to send.  *)
Looked == IF ByName THEN <<<<"list", PathOf("list", Resource)>>>> ELSE << >>
Told == shellOrder.command.keys \cup shellOrder.given
CommandSoFar ==
  /\ orderAt = "typed" => ran = << >> /\ bodyKeys = {}
  /\ orderAt \in {"found", "sent", "routed", "checked"} => ran = Looked
  /\ orderAt = "ended" =>
       \/ ran \in {<< >>, Looked}
       \/ ran = Looked \o HandlersRun(PathOf(Verb, Resource)) /\ PluginHas(Verb, PathOf(Verb, Resource))
  /\ ran # << >> /\ ByName => PathOf("list", Resource) \in RoutedNames
  /\ bodyKeys \in {{}, Told}
  /\ orderAt \in {"sent", "routed", "checked"} => bodyKeys = Told
  /\ orderAt \in {"routed", "checked"} => PathOf(Verb, Resource) \in RoutedNames
  /\ orderAt = "checked" /\ Verb \in {"create", "update"} => BodyFits(bodyKeys)

(* What each step of a command keeps.                                      *)
RoutesInv ==
  /\ RoutesTypeOK /\ CommandSoFar /\ ThreeDeadEnds /\ ChangesOnlyOwn /\ LookedUpThere
  /\ KeysUnderstood /\ HandedAsDeclared
=============================================================================

----------------------------- MODULE RpcMessages -----------------------------
(***************************************************************************)
(* The bus between the programs: which consumers a program has, which of   *)
(* them handle a cast, and how the context of a request goes with it, from *)
(* the server to a manager and back (rpc.py, context.py). A service listens*)
(* three times on each start and its connection has no close; the plugin   *)
(* listens once. A cast that nobody listens for is dropped.                *)
(***************************************************************************)
EXTENDS Naturals, Sequences, SequencesExt

CONSTANTS
  Program,      \* processes: some are plugins, the others services
  PluginOf,     \* those that are plugins
  TopicOf,      \* the topic of each
  Asking,       \* requests of clients, and what each brings with it
  Outdated,     \* what programs of another version send
  MayEnd,       \* a bound: programs that may end
  MaxStarts, MaxSessions  \* bounds

Has(d, names) == \E k \in DOMAIN d \cap names : d[k] # "None"

(* Programs, requests and outdated messages are told apart by their names, *)
(* plugins and services by their topics; headers make nobody an            *)
(* administrator, nor does a message of another version.                   *)
ASSUME RpcAssumption ==
  /\ PluginOf \subseteq Program /\ MaxStarts \in Nat \ {0} /\ MaxSessions \in Nat
  /\ Program \cap (DOMAIN Asking \cup DOMAIN Outdated) = {}
  /\ DOMAIN Asking \cap DOMAIN Outdated = {}
  /\ \A p \in PluginOf, q \in Program \ PluginOf :
       TopicOf[p].name \notin {TopicOf[q].name, TopicOf[q].node}
  /\ \A r \in DOMAIN Asking : "is_admin" \notin DOMAIN Asking[r]
  /\ \A r \in DOMAIN Outdated :
       /\ "is_admin" \notin DOMAIN Outdated[r]
       /\ Has(Outdated[r], {"user_id", "user"})
       /\ Has(Outdated[r], {"tenant_id", "project_id"})

VARIABLES
  starts,     \* how often each program has made its consumers
  ended,      \* the programs that have ended
  listening,  \* the servers of oslo.messaging that consume
  casts,      \* casts under way
  holding,    \* contexts in use: by a request, by a handler, by a copy
  sessions    \* database sessions that were opened

rpcVars == <<starts, ended, listening, casts, holding, sessions>>

NoValue == "None"
Get(d, k) == IF k \in DOMAIN d THEN d[k] ELSE NoValue
Or(x, y) == IF x = NoValue THEN y ELSE x

(* A context: the identity, a flag, and the moment, an object or its text. *)
NewContext(user, tenant, d, id) ==
  [user |-> user, tenant |-> tenant, admin |-> Get(d, "is_admin"),
   token |-> Get(d, "auth_token"), userName |-> Get(d, "user_name"),
   tenantName |-> Get(d, "tenant_name"),
   deleted |-> Or(Get(d, "read_deleted"), "no"),
   stamp |-> IF "timestamp" \in DOMAIN d THEN "text" ELSE "object",
   request |-> Or(Get(d, "request_id"), id), session |-> 0]

ToDict(c) ==
  [user_id |-> c.user, user |-> c.user, tenant_id |-> c.tenant,
   tenant |-> c.tenant, project_id |-> c.tenant,
   is_admin |-> c.admin, auth_token |-> c.token,
   user_name |-> c.userName, tenant_name |-> c.tenantName,
   project_name |-> c.tenantName, read_deleted |-> c.deleted,
   timestamp |-> "text", request_id |-> c.request]

(* deserialize_context: of user_id and user, and of tenant_id and          *)
(* project_id, the second counts when the first is missing or empty.       *)
Deserialize(d, id) ==
  NewContext(Or(Get(d, "user_id"), Get(d, "user")),
             Or(Get(d, "tenant_id"), Get(d, "project_id")), d, id)

RpcInit ==
  /\ starts = [p \in Program |-> 0] /\ ended = {} /\ listening = {}
  /\ casts = {} /\ holding = {} /\ sessions = 0

-----------------------------------------------------------------------------
(* Mutant: the plugin starts as a service does.                            *)
ListensThrice(p) == 1 .. 3

(* The consumers of one start: for the topic, for the topic of the host,   *)
(* and once more for the topic, to get what goes to all; the plugin has    *)
(* one. Any server of oslo.messaging gets what goes to all of its topic.   *)
Listens(p) == IF p \in PluginOf THEN {1} ELSE 1 .. 3

Topics(p, k) == IF k = 2 THEN TopicOf[p].node ELSE TopicOf[p].name

StartConsumers(p) ==
  /\ p \notin ended /\ starts[p] < IF p \in PluginOf THEN 1 ELSE MaxStarts
  /\ starts' = [starts EXCEPT ![p] = @ + 1]
  /\ listening' = listening \cup
       {[program |-> p, start |-> starts[p] + 1, k |-> k,
         topic |-> Topics(p, k)] : k \in Listens(p)}
  /\ UNCHANGED <<ended, casts, holding, sessions>>

(* Of a process that ends. Service.stop closes nothing: Connection has no  *)
(* close, and the error is ignored.                                        *)
ConsumersEnding(p) == {c \in listening : c.program = p}

ProcessEnds(p) ==
  /\ p \in MayEnd \ ended /\ starts[p] > 0
  /\ ended' = ended \cup {p}
  /\ listening' = listening \ ConsumersEnding(p)
  /\ holding' = {h \in holding : h.at # p}
  /\ casts' = {[m EXCEPT !.to = @ \ ConsumersEnding(p)] :
                 m \in {n \in casts : ~ n.to \subseteq ConsumersEnding(p)}}
  /\ UNCHANGED <<starts, sessions>>

-----------------------------------------------------------------------------
(* The way of a context: the consumers that took it, and copies made.      *)
Copied == [program |-> "elevated", start |-> 0, k |-> 0, topic |-> "none"]
Holding(p, origin, way, ctx) ==
  [at |-> p, origin |-> origin, way |-> way, ctx |-> ctx, to |-> {},
   sent |-> FALSE]

(* A bound: one request is followed at a time.                             *)
NoOther == holding = {} /\ casts = {}

(* The context that a request begins with, or a manager's own: that of an  *)
(* administrator who is nobody.                                            *)
AdminContext == [is_admin |-> "True"]

Original(r) ==
  LET d == IF r \in Program THEN AdminContext ELSE Asking[r] IN
  NewContext(Get(d, "user_id"), Get(d, "tenant_id"), d, r)

(* A request comes in, of whose headers the pipeline makes a context; or a *)
(* manager's monitor acknowledges with a context of its own.               *)
Ask(p, r) ==
  /\ p \notin ended /\ NoOther
  /\ IF r \in Program THEN p \notin PluginOf /\ r = p /\ starts[p] > 0
     ELSE p \in PluginOf
  /\ holding' = holding \cup {Holding(p, r, << >>, Original(r))}
  /\ UNCHANGED <<starts, ended, listening, casts, sessions>>

(* Context.session opens one when it is first asked for; only plugins have *)
(* a database.                                                             *)
SessionAsked(h) ==
  /\ h.at \in PluginOf /\ h.ctx.session = 0 /\ sessions < MaxSessions
  /\ sessions' = sessions + 1
  /\ holding' = (holding \ {h}) \cup {[h EXCEPT !.ctx.session = sessions + 1]}
  /\ UNCHANGED <<starts, ended, listening, casts>>

(* elevated: a copy, which shares a session that is open already; a bound: *)
(* only of the context that a request began with.                          *)
Elevate(h) ==
  /\ h.at \in PluginOf /\ h.way = << >>
  /\ \A i \in holding : i.origin = h.origin => i.way # Append(h.way, Copied)
  /\ LET copy == Holding(h.at, h.origin, Append(h.way, Copied), h.ctx) IN
     holding' = holding \cup {[copy EXCEPT !.ctx.admin = "True"]}
  /\ UNCHANGED <<starts, ended, listening, casts, sessions>>

(* Who gets a cast: of a fanout all that listen for its topic, of another  *)
(* one of them.                                                            *)
Listeners(topic) == {c \in listening : c.topic = topic}

Cast(origin, way, dict, topic, fanout) ==
  [origin |-> origin, way |-> way, dict |-> dict, fanout |-> fanout,
   to |-> Listeners(topic)]

(* A handler casts with the context it was given: a plugin to one that     *)
(* serves the topic of a manager, a manager to all plugins.                *)
SendTo(h, topic) ==
  /\ ~ h.sent
  /\ LET cast == Cast(h.origin, h.way, ToDict(h.ctx), topic,
                      h.at \notin PluginOf) IN
     /\ casts' = casts \cup {m \in {cast} : m.to # {}}
     /\ holding' = (holding \ {h}) \cup {[h EXCEPT !.sent = TRUE, !.to = cast.to]}
  /\ UNCHANGED <<starts, ended, listening, sessions>>

SendCast(h, p) ==
  /\ h.at \in PluginOf /\ p \notin PluginOf /\ Len(h.way) < 2
  /\ SendTo(h, TopicOf[p].name)

SendAck(h, p) ==
  /\ h.at \notin PluginOf /\ p \in PluginOf
  /\ SendTo(h, TopicOf[p].name)

(* A cast of a program of another version, to the topic of the host.       *)
SendOutdated(r, p) ==
  /\ NoOther /\ Listeners(TopicOf[p].node) # {}
  /\ casts' = casts \cup {Cast(r, << >>, Outdated[r], TopicOf[p].node, FALSE)}
  /\ UNCHANGED <<starts, ended, listening, holding, sessions>>

(* For whom a cast is still there when one has taken it.                   *)
Left(m, c) == IF m.fanout THEN m.to \ {c} ELSE {}

Deliver(m, c) ==
  /\ casts' = (casts \ {m}) \cup {n \in {[m EXCEPT !.to = Left(m, c)]} : n.to # {}}
  /\ holding' = holding \cup {Holding(c.program, m.origin, Append(m.way, c),
                                      Deserialize(m.dict, m.origin))}
  /\ UNCHANGED <<starts, ended, listening, sessions>>

-----------------------------------------------------------------------------
RpcNext ==
  \/ \E p \in Program : \/ StartConsumers(p) \/ ProcessEnds(p)
                        \/ \E r \in DOMAIN Asking \cup Program : Ask(p, r)
                        \/ \E r \in DOMAIN Outdated : SendOutdated(r, p)
                        \/ \E h \in holding : SendCast(h, p) \/ SendAck(h, p)
  \/ \E h \in holding : SessionAsked(h) \/ Elevate(h)
  \/ \E m \in casts : \E c \in m.to : Deliver(m, c)

-----------------------------------------------------------------------------
(* Properties *)

ContextFields ==
  {"user", "tenant", "admin", "token", "userName", "tenantName", "deleted", "stamp",
   "request", "session"}
Origins == DOMAIN Asking \cup DOMAIN Outdated \cup Program

(* The consumers there may be: the plugin starts once.                     *)
Consumer ==
  {c \in [program : Program, start : 1 .. MaxStarts, k : 1 .. 3,
          topic : {Topics(p, k) : p \in Program, k \in 1 .. 3}] :
     /\ c.k \in Listens(c.program) /\ c.topic = Topics(c.program, c.k)
     /\ c.program \in PluginOf => c.start = 1}
Started(c) == c \in Consumer /\ c.start <= starts[c.program]

HoldingTypeOK(h) ==
  /\ DOMAIN h = {"at", "origin", "way", "ctx", "to", "sent"}
  /\ h.at \in Program \ ended /\ h.origin \in Origins
  /\ h.way \in Seq(Consumer \cup {Copied})
  /\ DOMAIN h.ctx = ContextFields /\ h.ctx.session \in 0 .. sessions
  /\ \A c \in h.to : Started(c)
  /\ h.sent \in BOOLEAN

CastTypeOK(m) ==
  /\ DOMAIN m = {"origin", "way", "dict", "fanout", "to"}
  /\ m.origin \in Origins /\ m.way \in Seq(Consumer \cup {Copied})
  /\ m.fanout \in BOOLEAN /\ m.to # {} /\ m.to \subseteq listening

(* Consumers are of programs that run; who is left of a cast still listens.*)
RpcTypeOK ==
  /\ starts \in [Program -> 0 .. MaxStarts] /\ ended \subseteq Program
  /\ \A p \in PluginOf : starts[p] <= 1
  /\ sessions \in 0 .. MaxSessions
  /\ \A c \in listening : Started(c) /\ c.program \notin ended
  /\ \A h \in holding : HoldingTypeOK(h)
  /\ \A m \in casts : CastTypeOK(m)

Identity(c) == <<c.user, c.tenant, c.userName, c.tenantName, c.token, c.request>>

IdentityOf(c, origin) ==
  IF origin \notin DOMAIN Outdated
  THEN Identity(c) = Identity(Original(origin))
  ELSE LET d == Outdated[origin] IN
       /\ c.user \in {d[k] : k \in DOMAIN d \cap {"user", "user_id"}}
       /\ c.tenant \in {d[k] : k \in DOMAIN d \cap {"project_id", "tenant_id"}}

(* Wherever a request's context gets to, it names the user, the tenant, the*)
(* token and the request it began with; of what an older program sends the *)
(* user and the tenant are found.                                          *)
IdentityKept == \A h \in holding : IdentityOf(h.ctx, h.origin)

AdminOf(c, origin, way) ==
  c.admin = "True" => Copied \in Range(way) \/ origin \in Program \ PluginOf

(* Nobody is an administrator but by a copy made for it; the context that  *)
(* was copied stays as it was.                                             *)
AdminByCopyOnly == \A h \in holding : AdminOf(h.ctx, h.origin, h.way)

(* The consumers on a way: a copy is made at its start, if anywhere.       *)
Received(way) == IF way # << >> /\ way[1] = Copied THEN Tail(way) ELSE way

(* Contexts with one database session are copies of each other in one      *)
(* handler: no session is used by two threads.                             *)
SessionsApart ==
  \A h, i \in holding : h.ctx.session # 0 /\ h.ctx.session = i.ctx.session =>
    h.origin = i.origin /\ Received(h.way) = Received(i.way)

(* What a cast under way will make of its context.                         *)
CastsSound ==
  \A m \in casts : LET c == Deserialize(m.dict, m.origin) IN
    IdentityOf(c, m.origin) /\ AdminOf(c, m.origin, m.way)

(* A cast on this way goes to all who listen: its sender is a manager.     *)
Fanned(origin, way) ==
  IF way = << >> THEN origin \in Program
  ELSE Last(way) # Copied /\ Last(way).program \notin PluginOf

(* Who holds a context is told by its way; a manager's casts go to plugins.*)
SendersSound ==
  /\ \A x, y \in holding \cup casts : x.origin = y.origin
  /\ \A h \in holding :
       /\ h.at \notin PluginOf <=> Fanned(h.origin, h.way)
       /\ h.way # << >> /\ Last(h.way) # Copied => h.at = Last(h.way).program
       /\ h.to # {} => h.sent
  /\ \A m \in casts :
       /\ m.fanout <=> Fanned(m.origin, m.way)
       /\ m.fanout => \A c \in m.to : c.program \in PluginOf
  /\ \A h \in holding :
       /\ h.way # << >> /\ Last(h.way) # Copied /\ Fanned(h.origin, Front(h.way))
       => h.at \in PluginOf

(* A way leads over another; it does so by a cast, not by a copy.          *)
Follows(x, way) == Len(way) <= Len(x) /\ \A j \in 1 .. Len(way) : x[j] = way[j]
Beyond(x, way) == Follows(x, way) /\ Len(way) < Len(x) /\ x[Len(way) + 1] # Copied

Everything == holding \cup casts

(* There is one context of each way, and one cast.                         *)
HeldOnce ==
  /\ \A h, i \in holding : h.way = i.way => h = i
  /\ \A m, n \in casts : m.way = n.way => m = n

(* Nothing has come of a cast that was not sent ...                        *)
UnsentFresh ==
  \A h \in holding : ~ h.sent =>
    /\ \A m \in casts : m.way # h.way
    /\ \A x \in Everything : ~ Beyond(x.way, h.way)

(* ... nor with a consumer that still has to get it, whoever has got it.   *)
PendingFresh ==
  \A m \in casts : \A x \in Everything :
    /\ \A c \in m.to : ~ Follows(x.way, Append(m.way, c))
    /\ ~ m.fanout => ~ Beyond(x.way, m.way)

(* What comes of a copy comes while the copy is there, beside its original.*)
CopyBeside ==
  \A h \in holding : \A x \in Everything :
    h.way = << >> /\ x.way # << >> /\ x.way[1] = Copied =>
      \E i \in holding : i.way = <<Copied>> /\ i.at = h.at

WaysSound == HeldOnce /\ UnsentFresh /\ PendingFresh /\ CopyBeside

SameCast(h, i) ==
  /\ h # i /\ h.origin = i.origin /\ Len(h.way) = Len(i.way) /\ h.way # << >>
  /\ Front(h.way) = Front(i.way) /\ Copied \notin {Last(h.way), Last(i.way)}

(* However often its service was started, and though no start ends the     *)
(* consumers of those before, a manager handles a cast once; and of an     *)
(* acknowledgement each plugin has one handler, whichever consumers it has.*)
HandledOnce ==
  \A h, i \in holding : SameCast(h, i) =>
    h.at # i.at /\ {h.at, i.at} \subseteq PluginOf

(* A plugin that listened when an acknowledgement was sent and is still    *)
(* there has it or will have it, whichever others end meanwhile.           *)
NothingMissed ==
  \A h \in holding : \A c \in h.to \cap listening :
    \/ h.at \in PluginOf
    \/ \E i \in holding : i.origin = h.origin /\ i.way = Append(h.way, c)
    \/ \E m \in casts : m.origin = h.origin /\ m.way = h.way /\ c \in m.to

RpcInv ==
  /\ RpcTypeOK /\ CastsSound /\ SendersSound /\ WaysSound
  /\ IdentityKept /\ AdminByCopyOnly /\ SessionsApart /\ HandledOnce /\ NothingMissed
=============================================================================

---------------------------- MODULE SharedClients ----------------------------
(***************************************************************************)
(* The clients of nova, glance and neutron, which the plugin keeps in its  *)
(* own attributes: `auth' makes new ones from the context of whoever calls *)
(* a method, and every request and every acknowledgement of a vnf-manager  *)
(* does so, while the others go on with what is there.                     *)
(*                                                                         *)
(* The acknowledgement comes with the context of the manager, which has no *)
(* token.  Each making of a client asks keystone with the credentials of   *)
(* the service, for the part that acts as administrator.                   *)
(***************************************************************************)
EXTENDS Naturals, Sequences, FiniteSets

CONSTANTS Caller,    \* the requests and acknowledgements under way
          Tenant, Tenancies,  \* whose they may be; an acknowledgement is nobody's
          Nobody,
          Jobs,      \* what a caller may have to do: sequences of calls
          FlavorOf, ImageOf,                  \* the machines of a host
          Hypervisor, PrefixOf                \* names, and which begin others

Api == {"nova", "glance", "neutron"}
Vm == DOMAIN FlavorOf
NotKnown == "unknown"

ApiCalls == {<<"auth">>} \cup ({"make", "look", "admin"} \X Api)

(* What is looked at is made, or will be before.                           *)
MadeBefore(todo, made) ==
  \A k \in 1 .. Len(todo) : todo[k][1] = "look" =>
    \/ \E x \in made : x[1] = todo[k][2]
    \/ \E j \in 1 .. k - 1 : todo[j] = <<"make", todo[k][2]>>

ASSUME ClientsAssumption ==
  /\ Tenancies \subseteq [Caller -> Tenant \cup {Nobody}] /\ Nobody \notin Tenant
  /\ DOMAIN FlavorOf = DOMAIN ImageOf /\ \A m \in Vm : FlavorOf[m] # NotKnown
  /\ \A job \in Jobs : /\ job \in Seq(ApiCalls) /\ job # << >> /\ Head(job) = <<"auth">>
                       /\ MadeBefore(job, {})
  /\ \A h \in Hypervisor : <<h, h>> \in PrefixOf

VARIABLES
  tenantOf,  \* whose the callers are
  osClient,  \* the plugin's clients: whose context each was made from
  caller,    \* each caller: its step, what it has left to do, what it made
  expired,   \* whose token is no longer good
  keystoneNo, \* whose question to keystone failed
  crossed,   \* crossed[c]: who replaced the clients while c went on
  listing    \* instance_get_all_by_host and check_host, in behaviours of their own

osVars == <<tenantOf, osClient, caller, expired, keystoneNo, crossed, listing>>

NoHost == [list |-> << >>, asked |-> NotKnown, found |-> NotKnown]

OsInit ==
  /\ tenantOf \in Tenancies
  /\ osClient = [a \in Api |-> Nobody]
  /\ caller \in [Caller -> [at : {"idle"}, todo : Jobs, made : {{}}]]
  /\ \A c \in Caller : tenantOf[c] = Nobody <=> caller[c].todo = <<<<"auth">>>>
  /\ expired = {} /\ keystoneNo = {} /\ crossed = [c \in Caller |-> {}]
  /\ listing \in [on : BOOLEAN, left : {Vm}, asked : {<< >>}, flavor : {[m \in Vm |-> NotKnown]},
                  image : {[m \in Vm |-> NotKnown]}, host : {NoHost}]

-----------------------------------------------------------------------------
(* auth *)

Underway(c) == caller[c].at \notin {"idle", "done", "failed"}

(* The others that are under way go on with c's clients from now on.       *)
Crossing(c) == [d \in Caller |-> IF d # c /\ Underway(d) THEN crossed[d] \cup {c} ELSE crossed[d]]

CallerGoes(c, at) == caller' = [caller EXCEPT ![c].at = at]
CallerFails(c) == caller' = [caller EXCEPT ![c].at = "failed"]

(* The call that is next is done.                                          *)
AfterCall(c, made) ==
  caller' = [caller EXCEPT ![c] = [at |-> IF Len(@.todo) = 1 THEN "done" ELSE "work",
                                   todo |-> Tail(@.todo), made |-> made]]

BeginAuth(c) ==
  /\ ~ listing.on
  /\ caller[c].at \in {"idle", "work"} /\ Head(caller[c].todo) = <<"auth">>
  /\ CallerGoes(c, "nova")
  /\ UNCHANGED <<tenantOf, osClient, expired, keystoneNo, crossed, listing>>

(* create_keystone_client: the versions are asked for, the first that is   *)
(* known is taken, and the service signs in; any of it may fail.           *)
KeystoneRefuses(c) ==
  /\ caller[c].at \in {"nova", "neutron"}
  /\ keystoneNo' = keystoneNo \cup {c} /\ CallerFails(c)
  /\ UNCHANGED <<tenantOf, osClient, expired, crossed, listing>>

(* Mutant: the image service keeps the client it has.                      *)
AuthNovaOnly(c) ==
  /\ caller[c].at = "nova"
  /\ osClient' = [osClient EXCEPT !["nova"] = c, !["glance"] = IF @ = Nobody THEN c ELSE @]
  /\ CallerGoes(c, "neutron") /\ crossed' = Crossing(c)
  /\ UNCHANGED <<tenantOf, expired, keystoneNo, listing>>

(* The client of nova is there when keystone has answered, and at once the *)
(* one of glance, which asks nobody.                                       *)
AuthNova(c) ==
  /\ caller[c].at = "nova"
  /\ osClient' = [osClient EXCEPT !["nova"] = c, !["glance"] = c]
  /\ CallerGoes(c, "neutron") /\ crossed' = Crossing(c)
  /\ UNCHANGED <<tenantOf, expired, keystoneNo, listing>>

AuthNeutron(c) ==
  /\ caller[c].at = "neutron"
  /\ osClient' = [osClient EXCEPT !["neutron"] = c]
  /\ AfterCall(c, caller[c].made) /\ crossed' = Crossing(c)
  /\ UNCHANGED <<tenantOf, expired, keystoneNo, listing>>

-----------------------------------------------------------------------------
(* The calls *)

TokenExpires(c) ==
  /\ Underway(c) /\ tenantOf[c] # Nobody /\ c \notin expired /\ expired' = expired \cup {c}
  /\ UNCHANGED <<tenantOf, osClient, caller, keystoneNo, crossed, listing>>

(* OpenStack lets in whom the client was made for.                         *)
LetIn(c) == tenantOf[c] # Nobody /\ c \notin expired

Asks(c, what) ==
  caller[c].at = "work" /\ Head(caller[c].todo)[1] = what

(* What is made belongs to the tenant of the client.                       *)
Make(c) ==
  /\ Asks(c, "make")
  /\ LET api == Head(caller[c].todo)[2] IN
       IF LetIn(osClient[api])
       THEN AfterCall(c, caller[c].made \cup {<<api, tenantOf[osClient[api]]>>})
       ELSE CallerFails(c)
  /\ UNCHANGED <<tenantOf, osClient, expired, keystoneNo, crossed, listing>>

(* A tenant does not see what belongs to another: the state of what was    *)
(* made is not found.                                                      *)
Look(c) ==
  /\ Asks(c, "look")
  /\ LET api == Head(caller[c].todo)[2] IN
       IF LetIn(osClient[api]) /\ <<api, tenantOf[osClient[api]]>> \in caller[c].made
       THEN AfterCall(c, caller[c].made)
       ELSE CallerFails(c)
  /\ UNCHANGED <<tenantOf, osClient, expired, keystoneNo, crossed, listing>>

(* update_port and check_host act as administrator, whosever client it is. *)
Administer(c) ==
  /\ Asks(c, "admin") /\ AfterCall(c, caller[c].made)
  /\ UNCHANGED <<tenantOf, osClient, expired, keystoneNo, crossed, listing>>

-----------------------------------------------------------------------------
(* The machines of a host, and the host *)

ListedVm(m) == listing.flavor[m] # NotKnown

(* _with_flavor: the flavor of the machine, as it was read or is read now. *)
FlavorTaken(m) == FlavorOf[m]

(* What was read for a machine before is in the cache of the listing.      *)
Remembered(of, m) == \E n \in Vm : ListedVm(n) /\ of[n] = of[m]

WithFlavorAndImage(m) ==
  /\ listing.on /\ m \in listing.left
  /\ listing' =
       [listing EXCEPT
         !.left = @ \ {m}, !.flavor[m] = FlavorTaken(m), !.image[m] = ImageOf[m],
         !.asked = @ \o (IF Remembered(FlavorOf, m) THEN << >> ELSE <<<<"flavor", FlavorOf[m]>>>>)
                     \o (IF Remembered(ImageOf, m) \/ ImageOf[m] = NotKnown
                         THEN << >> ELSE <<<<"image", ImageOf[m]>>>>)]
  /\ UNCHANGED <<tenantOf, osClient, caller, expired, keystoneNo, crossed>>

(* find_resource: the name of the resource is the pattern, and a pattern   *)
(* matches what begins with it.                                            *)
NameMatches(name, asked) == <<name, asked>> \in PrefixOf

FindResource(list, asked) ==
  LET hits == {k \in DOMAIN list : NameMatches(list[k], asked)} IN
  IF hits = {} THEN NotKnown ELSE list[CHOOSE k \in hits : \A j \in hits : k <= j]

CheckHost ==
  /\ listing.on /\ listing.host = NoHost
  /\ \E list \in {f \in [1 .. 2 -> Hypervisor] : f[1] # f[2]}, asked \in Hypervisor :
       listing' = [listing EXCEPT !.host = [list |-> list, asked |-> asked,
                                            found |-> FindResource(list, asked)]]
  /\ UNCHANGED <<tenantOf, osClient, caller, expired, keystoneNo, crossed>>

-----------------------------------------------------------------------------
OsNext ==
  \/ \E c \in Caller : \/ BeginAuth(c) \/ KeystoneRefuses(c) \/ AuthNova(c) \/ AuthNeutron(c)
                       \/ TokenExpires(c) \/ Make(c) \/ Look(c) \/ Administer(c)
  \/ \E m \in Vm : WithFlavorAndImage(m)
  \/ CheckHost

-----------------------------------------------------------------------------
(* Properties *)

(* What the plugin and its callers have; an acknowledgement makes nothing. *)
OsTypeOK ==
  /\ tenantOf \in [Caller -> Tenant \cup {Nobody}]
  /\ osClient \in [Api -> Caller \cup {Nobody}]
  /\ caller \in [Caller -> [at : {"idle", "nova", "neutron", "work", "done", "failed"},
                            todo : Seq(ApiCalls), made : SUBSET (Api \X Tenant)]]
  /\ \A c \in Caller :
       /\ caller[c].at = "done" <=> caller[c].todo = << >>
       /\ tenantOf[c] = Nobody => caller[c].made = {}
  /\ expired \subseteq Caller /\ keystoneNo \subseteq Caller
  /\ crossed \in [Caller -> SUBSET Caller]
  /\ DOMAIN listing = {"on", "left", "asked", "flavor", "image", "host"}
  /\ listing.left \subseteq Vm /\ DOMAIN listing.flavor = Vm /\ DOMAIN listing.image = Vm

(* Whoever replaced the clients of c and is let in elsewhere, or nowhere.  *)
Strangers(c) == {d \in crossed[c] : tenantOf[d] # tenantOf[c] \/ d \in expired}

(* A caller fails for its own token, for keystone, or for a stranger whose *)
(* clients it had to use: requests of one tenant may overlap freely.       *)
FailsForClients ==
  \A c \in Caller : caller[c].at = "failed" =>
    c \in keystoneNo \/ c \in expired \/ Strangers(c) # {}

(* What a caller made is its tenant's, or that of a caller that replaced   *)
(* the clients while it went on: never of one that was done before.        *)
MadeForTenant ==
  \A c \in Caller : \A x \in caller[c].made :
    x[2] = tenantOf[c] \/ \E d \in crossed[c] : tenantOf[d] = x[2]

(* The three clients are one caller's when callers come one by one and     *)
(* keystone answers.                                                       *)
ClientsOfOne ==
  (\A c \in Caller : crossed[c] = {} /\ caller[c].at \notin {"nova", "neutron"}) /\ keystoneNo = {}
    => osClient["nova"] = osClient["glance"] /\ osClient["glance"] = osClient["neutron"]

(* What the administrator does succeeds whosever client it goes by: with   *)
(* only such calls left nobody fails for a token.                          *)
AdminGoesOn ==
  \A c \in Caller : caller[c].at = "failed" /\ c \notin keystoneNo =>
    Head(caller[c].todo)[1] \in {"make", "look"}

(* Each machine is listed with its own flavor and image, and none of them  *)
(* is asked for twice.                                                     *)
ListingTrue ==
  /\ \A m \in Vm \ listing.left : listing.flavor[m] = FlavorOf[m] /\ listing.image[m] = ImageOf[m]
  /\ \A j, k \in DOMAIN listing.asked : listing.asked[j] = listing.asked[k] => j = k

(* The host that is asked for is found when it is there, unless one whose  *)
(* name begins its own is listed before.                                   *)
HostFound ==
  LET h == listing.host IN
  h.asked \in {h.list[k] : k \in DOMAIN h.list} =>
    \/ h.found = h.asked
    \/ h.found = h.list[1] /\ <<h.found, h.asked>> \in PrefixOf

(* What makes it so. A caller that looks has made what it looks at, or     *)
(* will; one that is nobody's makes nothing; and the clients that a caller *)
(* works with are its own or those of one that replaced them meanwhile.    *)
CallerSound(c) ==
  LET w == caller[c]
      own == {c} \cup crossed[c] IN
  /\ MadeBefore(w.todo, w.made)
  /\ w.at \in {"idle", "nova", "neutron"} => Head(w.todo) = <<"auth">>
  /\ tenantOf[c] = Nobody => w.at # "work" /\ (w.todo = << >> \/ Len(w.todo) = 1)
  /\ w.at = "neutron" => osClient["nova"] \in own
  /\ w.at = "work" => osClient["nova"] \in own /\ osClient["neutron"] \in own

(* Nova and glance go together, and neutron follows.                       *)
ClientsFollow ==
  /\ osClient["nova"] = osClient["glance"]
  /\ (\A c \in Caller : crossed[c] = {}) /\ keystoneNo = {} =>
       osClient["neutron"] = osClient["nova"] \/ \E c \in Caller : caller[c].at = "neutron"

(* What was asked for is what the listed machines have.                    *)
AskedFor(m) ==
  {<<"flavor", FlavorOf[m]>>}
    \cup (IF ImageOf[m] = NotKnown THEN {} ELSE {<<"image", ImageOf[m]>>})

ListingSound ==
  /\ \A m \in listing.left : listing.flavor[m] = NotKnown
  /\ listing.asked \in Seq(UNION {AskedFor(m) : m \in Vm})
  /\ {listing.asked[k] : k \in DOMAIN listing.asked} = UNION {AskedFor(m) : m \in Vm \ listing.left}

ClientsInv ==
  /\ OsTypeOK /\ ClientsFollow /\ ListingSound /\ \A c \in Caller : CallerSound(c)
  /\ FailsForClients /\ MadeForTenant /\ ClientsOfOne /\ AdminGoesOn /\ ListingTrue /\ HostFound
=============================================================================

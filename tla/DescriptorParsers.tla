------------------------- MODULE DescriptorParsers --------------------------
(***************************************************************************)
(* Descriptors. First those of a network service and its VNFs, as the      *)
(* parsers read them. Then the document of a service that is put together  *)
(* from all that is known of it.                                           *)
(***************************************************************************)
EXTENDS Naturals, Sequences, FiniteSets, Functions, SequencesExt

(***************************************************************************)
(* From descriptors to network cards: the parsers of the NSD and of its    *)
(* VNFDs, which join the interfaces of a VDU to networks by way of its     *)
(* connection points, and what the plugin makes of that when it boots the  *)
(* VDU's machines: the order of the cards and the default route. Mappings  *)
(* are gone through in any order.                                          *)
(***************************************************************************)
CONSTANTS
  DescVdu,       \* the VDUs of the service
  Vld,           \* the networks of 'member-vlds'; one may be MgmtIf
  MgmtIf,
  Point,         \* connection points
  Iface,         \* names of network interfaces
  Descriptions   \* the descriptors, with what the request gives for them

(* A VLD need not join a VDU, or joins several of its points, as a list.   *)
Join == Point \cup {"no", "list"}

ASSUME DescriptorsAssumption ==
  \A d \in Descriptions :
    /\ d.member \in [Vld -> [DescVdu -> Join]]
    /\ d.routed \subseteq Vld /\ d.given \subseteq Vld
    /\ d.ref \in [DescVdu -> [Iface -> Point]]
    /\ d.fixed \subseteq Point

NoNetwork == "no network"
NoCards == <<"not booted">>
Pairs == DescVdu \X Iface

ASSUME NetworksAssumption == NoNetwork \notin Vld /\ IsFiniteSet(Iface)

VARIABLES
  desc,      \* the descriptors at hand
  parsePc,   \* what is being parsed, or "parsed", "failed"
  left,      \* the VLDs or <<VDU, interface>> pairs still to be parsed
  toRouter,  \* keys of preconfigure['router']
  joined,    \* vdus[v]['networks']: the network of each connection point
  wired,     \* the network that each interface was given
  fixedPort, \* interfaces that neutron made a port for
  nics,      \* the cards of each VDU, once it is booted
  route      \* the network its default route leads to, by way of eth1

descVars == <<desc, parsePc, left, toRouter, joined, wired, fixedPort, nics, route>>

(* Each interface has one card.                                            *)
Orders == Bijection(1 .. Cardinality(Iface), Iface)

(* What the parsers have read so far keeps its type.                       *)
DescTypeOK ==
  /\ parsePc \in {"nsd", "vnfd", "parsed", "failed"}
  /\ left \subseteq Vld \/ left \subseteq Pairs
  /\ toRouter \subseteq Vld
  /\ joined \in [DescVdu -> [Point -> Vld \cup {NoNetwork}]]
  /\ wired \in [Pairs -> Vld \cup {NoNetwork}]
  /\ fixedPort \subseteq Pairs
  /\ \A v \in DescVdu : nics[v] = NoCards \/ nics[v] \in Orders
  /\ route \in [DescVdu -> Vld \cup {NoNetwork}]

DescInit ==
  /\ desc \in Descriptions
  /\ parsePc = "nsd" /\ left = Vld /\ toRouter = {}
  /\ joined = [v \in DescVdu |-> [p \in Point |-> NoNetwork]]
  /\ wired = [x \in Pairs |-> NoNetwork] /\ fixedPort = {}
  /\ nics = [v \in DescVdu |-> NoCards] /\ route = [v \in DescVdu |-> NoNetwork]

-----------------------------------------------------------------------------
(* The NSD *)

(* preconfigure['router'] is made for the first network that has a router. *)
RouterEntries(n) ==
  toRouter' = IF n \in desc.routed THEN toRouter \cup {n} ELSE toRouter

(* Mutant: add_networks gives a network to all connection points.          *)
AddNetworksAll(n) ==
  joined' = [v \in DescVdu |-> [p \in Point |->
              IF desc.member[n][v] # "no" THEN n ELSE joined[v][p]]]

(* add_networks: of two networks at one connection point the last counts.  *)
AddNetworks(n) ==
  joined' = [v \in DescVdu |-> [p \in Point |->
              IF desc.member[n][v] = p THEN n ELSE joined[v][p]]]

(* The request has to give an identifier and a subnet for each network. A  *)
(* list of connection points meets an undefined name.                      *)
MemberVld(n) ==
  /\ parsePc = "nsd" /\ n \in left
  /\ IF n \in desc.given /\ \A v \in DescVdu : desc.member[n][v] # "list"
       THEN /\ left' = left \ {n} /\ UNCHANGED parsePc
            /\ RouterEntries(n) /\ AddNetworks(n)
       ELSE parsePc' = "failed" /\ UNCHANGED <<left, toRouter, joined>>
  /\ UNCHANGED <<desc, wired, fixedPort, nics, route>>

NsdParsed ==
  /\ parsePc = "nsd" /\ left = {}
  /\ parsePc' = "vnfd" /\ left' = Pairs
  /\ UNCHANGED <<desc, toRouter, joined, wired, fixedPort, nics, route>>

-----------------------------------------------------------------------------
(* The VNFDs *)

(* neutron: a fixed address is given to one port of a network.             *)
AddressFree(p, n) ==
  ~\E y \in fixedPort : desc.ref[y[1]][y[2]] = p /\ wired[y] = n

(* network_interfaces: an interface of a connection point that no network  *)
(* joins is an error; one with a fixed address is given a port of its own. *)
NetworkInterface(v, i) ==
  /\ parsePc = "vnfd" /\ <<v, i>> \in left
  /\ LET p == desc.ref[v][i] n == joined[v][p]
     IN IF n = NoNetwork \/ (p \in desc.fixed /\ ~AddressFree(p, n))
          THEN parsePc' = "failed" /\ UNCHANGED <<left, wired, fixedPort>>
          ELSE /\ wired' = [wired EXCEPT ![<<v, i>>] = n]
               /\ fixedPort' = IF p \in desc.fixed THEN fixedPort \cup {<<v, i>>} ELSE fixedPort
               /\ left' = left \ {<<v, i>>} /\ UNCHANGED parsePc
  /\ UNCHANGED <<desc, toRouter, joined, nics, route>>

VnfdsParsed ==
  /\ parsePc = "vnfd" /\ left = {}
  /\ parsePc' = "parsed"
  /\ UNCHANGED <<desc, left, toRouter, joined, wired, fixedPort, nics, route>>

-----------------------------------------------------------------------------
(* Booting *)

OnMgmt(v, i) == MgmtIf \in desc.given /\ wired[<<v, i>>] = MgmtIf

(* The first card on the management network is moved to the front, if the  *)
(* request names that network.                                             *)
MgmtFirst(v, cards) ==
  LET at == {k \in DOMAIN cards : OnMgmt(v, cards[k])}
  IN IF at = {} THEN cards
     ELSE [k \in DOMAIN cards |-> IF k = 1 THEN cards[Min(at)]
                                 ELSE IF k <= Min(at) THEN cards[k - 1] ELSE cards[k]]

(* set_default_route: the first network that is not the management's, by   *)
(* way of eth1 wherever that is.                                           *)
DefaultRoute(v, cards) ==
  LET others == {k \in DOMAIN cards : ~OnMgmt(v, cards[k])}
  IN IF others = {} THEN NoNetwork ELSE wired[<<v, cards[Min(others)]>>]

Boot(v) ==
  /\ parsePc = "parsed" /\ nics[v] = NoCards
  /\ \E cards \in Orders :
       /\ nics' = [nics EXCEPT ![v] = MgmtFirst(v, cards)]
       /\ route' = [route EXCEPT ![v] = DefaultRoute(v, MgmtFirst(v, cards))]
  /\ UNCHANGED <<desc, parsePc, left, toRouter, joined, wired, fixedPort>>

DescNext ==
  \/ \E n \in Vld : MemberVld(n)
  \/ NsdParsed \/ VnfdsParsed
  \/ \E v \in DescVdu, i \in Iface : NetworkInterface(v, i)
  \/ \E v \in DescVdu : Boot(v)

DescSpec == DescInit /\ [][DescNext]_descVars

-----------------------------------------------------------------------------
(* An interface is on a network that the NSD joins to its own connection   *)
(* point of its own VDU.                                                   *)
WiredAsDescribed ==
  \A x \in Pairs :
    wired[x] # NoNetwork => desc.member[wired[x]][x[1]] = desc.ref[x[1]][x[2]]

(* What can be parsed at all is: it fails for a network without identifier,*)
(* a list of connection points, a point without network or one address for *)
(* two interfaces; otherwise every router named in the NSD is there for    *)
(* the networks to be joined.                                              *)
ParsedWhenComplete ==
  /\ parsePc = "failed" =>
       \/ desc.given # Vld
       \/ \E n \in Vld, v \in DescVdu : desc.member[n][v] = "list"
       \/ \E x \in Pairs : \A n \in Vld : desc.member[n][x[1]] # desc.ref[x[1]][x[2]]
       \/ \E x, y \in Pairs : x # y /\ desc.ref[x[1]][x[2]] = desc.ref[y[1]][y[2]]
                                   /\ desc.ref[x[1]][x[2]] \in desc.fixed
  /\ parsePc \in {"vnfd", "parsed"} => toRouter = desc.routed

(* Every interface with a fixed address has a port with it, none of the    *)
(* others has one.                                                         *)
FixedPorts ==
  parsePc = "parsed" =>
    fixedPort = {x \in Pairs : desc.ref[x[1]][x[2]] \in desc.fixed}

(* A machine that is on the management network is so with its first card,  *)
(* the one the manager can reach before anything is configured, and with   *)
(* no other such card its default route leads by the second, eth1.         *)
CardOrder ==
  \A v \in DescVdu :
    nics[v] # NoCards /\ (\E i \in Iface : OnMgmt(v, i)) =>
      /\ OnMgmt(v, nics[v][1])
      /\ Cardinality({i \in Iface : OnMgmt(v, i)}) = 1 /\ Len(nics[v]) > 1
           => route[v] = wired[<<v, nics[v][2]>>]

(* What these rest on: what the parsers have gone through so far.          *)
VldRead(n) ==
  /\ n \in desc.given
  /\ \A v \in DescVdu : /\ desc.member[n][v] # "list"
                        /\ \A p \in Point : desc.member[n][v] = p => joined[v][p] # NoNetwork

NeedsPort(x) == desc.ref[x[1]][x[2]] \in desc.fixed

ReadSoFar ==
  /\ desc \in Descriptions /\ DOMAIN nics = DescVdu
  /\ \A v \in DescVdu : \A p \in Point :
       joined[v][p] # NoNetwork => desc.member[joined[v][p]][v] = p
  /\ parsePc = "nsd" => /\ left \subseteq Vld /\ \A n \in Vld \ left : VldRead(n)
                        /\ toRouter = desc.routed \ left
                        /\ fixedPort = {} /\ \A x \in Pairs : wired[x] = NoNetwork
  /\ parsePc \in {"vnfd", "parsed"} => \A n \in Vld : VldRead(n)
  /\ parsePc = "vnfd" => /\ left \subseteq Pairs
                         /\ \A x \in Pairs : x \in fixedPort <=> x \notin left /\ NeedsPort(x)
  /\ parsePc # "parsed" => \A v \in DescVdu : nics[v] = NoCards

DescInv ==
  /\ DescTypeOK /\ WiredAsDescribed /\ ParsedWhenComplete /\ FixedPorts /\ CardOrder /\ ReadSoFar

-----------------------------------------------------------------------------
(***************************************************************************)
(* The description of a service that a user can dump. The vnf-manager      *)
(* gathers what it is told of the machines, round after round of the       *)
(* deployment, and sends all of it with every acknowledgement; the plugin  *)
(* keeps what came last, writes the document from it when the service is   *)
(* active, and gives the keys back the names they have in descriptors.     *)
(***************************************************************************)
CONSTANTS
  DocVdu,     \* VDUs of the service
  RoundOf,    \* the round of the deployment each is launched in
  Copies,     \* instances each has
  NamedIn,    \* the VDUs whose qualified name contains the name of each
  Artifacts   \* the VDUs that have an implementation artifact

ASSUME DocumentAssumption ==
  /\ RoundOf \in [DocVdu -> Nat \ {0}] /\ Copies \in [DocVdu -> Nat \ {0}]
  /\ NamedIn \in [DocVdu -> SUBSET DocVdu] /\ \A v \in DocVdu : v \in NamedIn[v]
  /\ Artifacts \subseteq DocVdu

VARIABLES
  nsConfig,   \* ns_config of the manager: the machines it was told of
  working,    \* instances being configured
  ackNews,    \* acknowledgements on their way, in no order
  ackedBy,    \* instances acknowledged of each VDU
  vnfmConf,   \* vnfm_conf: the machines known, those with their artifact
  nsStatus,   \* of the service row; "gone" without one
  xml,        \* the document in the row
  lastAcked,  \* history: the machine acknowledged last
  dumped      \* what the last dump answered

docVars == <<nsConfig, working, ackNews, ackedBy, vnfmConf, nsStatus, xml, lastAcked, dumped>>

Instance == {i \in DocVdu \X (1 .. 9) : i[2] <= Copies[i[1]]}

(* The keys of a machine as the program has them, as paths; names of the   *)
(* program and of descriptors are one to one.                              *)
InnerPaths == {<<"name">>, <<"vm_details", "disk">>, <<"vm_details", "image_details", "disk">>,
               <<"vcpus">>, <<"mgmt-ip">>}
OuterName == [vm_details |-> "vm-spec", disk |-> "storage", vcpus |-> "cpu", name |-> "",
              image_details |-> ""]

(* vnf_info_map: it goes down only below keys that have an outer name.     *)
Outward(p) ==
  LET renamed(i) == /\ \A j \in 1 .. i : p[j] \in DOMAIN OuterName /\ OuterName[p[j]] # ""
  IN [i \in DOMAIN p |-> IF renamed(i) THEN OuterName[p[i]] ELSE p[i]]

NoDocument == [of |-> {}, art |-> {}, paths |-> {}, id |-> [v \in {} |-> v]]

(* The document, its VDUs and artifacts keep their types.                  *)
DocTypeOK ==
  /\ nsConfig \subseteq DocVdu /\ working \subseteq Instance
  /\ ackNews \subseteq [of : Instance, failed : BOOLEAN, conf : SUBSET DocVdu]
  /\ \A a \in ackNews : a.of \notin working /\ a.of[1] \in a.conf
  /\ \A v \in DocVdu : ackedBy[v] \subseteq 1 .. Copies[v]
  /\ vnfmConf.of \subseteq nsConfig /\ vnfmConf.art \subseteq vnfmConf.of
  /\ nsStatus \in {"PENDING", "ACTIVE", "ERROR", "gone"}
  /\ xml.of \subseteq DocVdu /\ DOMAIN xml.id = xml.of
  /\ dumped \in {"none", "error", "empty", "document"}

DocInit ==
  /\ nsConfig = {} /\ working = {} /\ ackNews = {} /\ ackedBy = [v \in DocVdu |-> {}]
  /\ vnfmConf = [of |-> {}, art |-> {}] /\ nsStatus = "PENDING" /\ xml = NoDocument
  /\ lastAcked \in DocVdu /\ dumped = "none"

IsConfigured(v) == Cardinality(ackedBy[v]) >= Copies[v]
RoundVdus(r) == {v \in DocVdu : RoundOf[v] = r}

(* Mutant: what was there of the last round is put out.                    *)
GatheredAnew(vs) == vs

(* configure_vdus extends what the manager has.                            *)
Gathered(vs) == nsConfig \cup vs

(* The next round: all it waits for is configured.                         *)
ConfigureVdus(r) ==
  /\ nsStatus = "PENDING" /\ RoundVdus(r) # {} /\ RoundVdus(r) \cap nsConfig = {}
  /\ \A v \in DocVdu : RoundOf[v] < r => IsConfigured(v)
  /\ nsConfig' = Gathered(RoundVdus(r))
  /\ working' = working \cup {i \in Instance : i[1] \in RoundVdus(r)}
  /\ UNCHANGED <<ackNews, ackedBy, vnfmConf, nsStatus, xml, lastAcked, dumped>>

SendAckOf(i, failed) ==
  /\ i \in working /\ working' = working \ {i}
  /\ ackNews' = ackNews \cup {[of |-> i, failed |-> failed, conf |-> nsConfig]}
  /\ UNCHANGED <<nsConfig, ackedBy, vnfmConf, nsStatus, xml, lastAcked, dumped>>

(* What came last replaces what was there, other artifacts with it.        *)
WithArtifact(conf, v) == [of |-> conf, art |-> {v} \cap Artifacts]

(* build_acknowledge_list                                                  *)
TakeAck(a) ==
  /\ a \in ackNews /\ ackNews' = ackNews \ {a}
  /\ IF a.failed
       THEN /\ nsStatus' = IF nsStatus = "gone" THEN "gone" ELSE "ERROR"
            /\ UNCHANGED <<ackedBy, vnfmConf, lastAcked>>
       ELSE /\ ackedBy' = [ackedBy EXCEPT ![a.of[1]] = @ \cup {a.of[2]}]
            /\ vnfmConf' = WithArtifact(a.conf, a.of[1]) /\ lastAcked' = a.of[1]
            /\ UNCHANGED nsStatus
  /\ UNCHANGED <<nsConfig, working, xml, dumped>>

Activate ==
  /\ nsStatus = "PENDING" /\ nsStatus' = "ACTIVE"
  /\ \A v \in DocVdu : IsConfigured(v)
  /\ UNCHANGED <<nsConfig, working, ackNews, ackedBy, vnfmConf, xml, lastAcked, dumped>>

(* The id of the last VDU, in the order of a dictionary, whose qualified   *)
(* name contains the name.                                                 *)
Ids == {id \in [vnfmConf.of -> DocVdu] : \A v \in vnfmConf.of : id[v] \in NamedIn[v]}

GenerateNsInfo(id) == [of |-> vnfmConf.of, art |-> vnfmConf.art, id |-> id,
                       paths |-> {Outward(p) : p \in InnerPaths}]

(* update_nsd_info raises an exception where the row has gone.             *)
WriteDocument ==
  /\ nsStatus = "ACTIVE" /\ xml = NoDocument
  /\ \E id \in Ids : xml' = GenerateNsInfo(id)
  /\ UNCHANGED <<nsConfig, working, ackNews, ackedBy, vnfmConf, nsStatus, lastAcked, dumped>>

RowDeleted ==
  /\ nsStatus # "gone" /\ nsStatus' = "gone" /\ xml' = NoDocument
  /\ UNCHANGED <<nsConfig, working, ackNews, ackedBy, vnfmConf, lastAcked, dumped>>

(* get_network_service_xml reads the document of a row it may not find.    *)
DumpAnswer ==
  IF nsStatus = "gone" THEN "error" ELSE IF xml = NoDocument THEN "empty" ELSE "document"

GetDumpxml ==
  /\ dumped' = DumpAnswer
  /\ UNCHANGED <<nsConfig, working, ackNews, ackedBy, vnfmConf, nsStatus, xml, lastAcked>>

DocNext ==
  \/ \E r \in {RoundOf[v] : v \in DocVdu} : ConfigureVdus(r)
  \/ \E i \in Instance, failed \in BOOLEAN : SendAckOf(i, failed)
  \/ \E a \in ackNews : TakeAck(a)
  \/ Activate \/ WriteDocument \/ RowDeleted \/ GetDumpxml

DocSpec == DocInit /\ [][DocNext]_docVars

(***************************************************************************)
(* Properties                                                              *)
(***************************************************************************)

(* The document of a service names every machine of it, whatever the order *)
(* its acknowledgements of each round came in.                             *)
DocumentWhole == xml # NoDocument => xml.of = DocVdu

(* An artifact in the document stands at the machine it is of, and that is *)
(* the machine acknowledged last: the others are lost on the way.          *)
ArtifactOfLast == \A v \in xml.art : v \in Artifacts /\ v = lastAcked

(* Where no name is contained in another's, each machine has an id of its  *)
(* own in the document.                                                    *)
IdsApart ==
  \A v, w \in xml.of :
    (v # w /\ NamedIn[v] = {v} /\ NamedIn[w] = {w}) => xml.id[v] # xml.id[w]

(* No key of the document has the name of the program where the descriptor *)
(* has another, unless it lies below a key that descriptors do not have.   *)
NoInnerNames ==
  \A p \in xml.paths, i \in 1 .. 2 :
    (i \in DOMAIN p /\ p[i] \in DOMAIN OuterName /\ OuterName[p[i]] # "")
      => \E j \in 1 .. i - 1 : p[j] \in {"image_details", "name", "mgmt-ip"}

(* What a dump answered is so still: there is no row again after an error, *)
(* and the document stays until the row goes.                              *)
DumpTrue ==
  /\ dumped = "error" => nsStatus = "gone"
  /\ dumped = "document" => xml # NoDocument \/ nsStatus = "gone"

(* What these rest on: the rounds come one after the other, so that what   *)
(* is still to be acknowledged belongs to the last of them and is sent     *)
(* with all that the manager knows, and no instance acknowledges twice.    *)
RoundsInOrder ==
  /\ \A v \in nsConfig, w \in DocVdu : RoundOf[w] <= RoundOf[v] => w \in nsConfig
  /\ \A i \in working : i[1] \in nsConfig /\ i[2] \notin ackedBy[i[1]]
  /\ \A a \in ackNews : a.conf = nsConfig /\ a.of[2] \notin ackedBy[a.of[1]]
  /\ \A a, b \in ackNews : a.of = b.of => a = b
  /\ DOMAIN ackedBy = DocVdu /\ \A v \in DocVdu : ackedBy[v] # {} => v \in vnfmConf.of

WrittenWhole ==
  /\ vnfmConf.art \subseteq Artifacts \cap {lastAcked}
  /\ nsStatus = "ACTIVE" \/ xml # NoDocument => \A v \in DocVdu : IsConfigured(v)
  /\ \A v \in xml.of : xml.id[v] \in NamedIn[v]
  /\ xml.paths \subseteq {Outward(p) : p \in InnerPaths}

DocInv ==
  /\ DocTypeOK /\ DocumentWhole /\ ArtifactOfLast /\ IdsApart /\ NoInnerNames
  /\ DumpTrue /\ RoundsInOrder /\ WrittenWhole

(* A dump that failed found no row, and one that was given a document will *)
(* not be given an empty one later.                                        *)
DumpSettled ==
  [][(dumped \in {"document", "error"} => dumped' # "empty")
       /\ (dumped = "error" => dumped' = "error")]_docVars
=============================================================================

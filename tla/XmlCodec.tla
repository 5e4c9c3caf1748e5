------------------------------ MODULE XmlCodec ------------------------------
(***************************************************************************)
(* Requests and answers in XML: XMLDictSerializer and XMLDeserializer, of  *)
(* which the server and the client have a copy each. A list is written as  *)
(* children with a name derived from its own, and read as a list only if   *)
(* the reader was told the name; types are attributes in the namespace of  *)
(* the API, which is the empty text for the client.                        *)
(***************************************************************************)
EXTENDS Naturals, Sequences, SequencesExt, FiniteSets

CONSTANTS
  Bodies,      \* the dictionaries that are written
  Singular,    \* Singular[name]: name without its last letter if that is an s
  PluralsOf,   \* PluralsOf[end]: 'plurals' in the metadata of each end
  NamespaceOf, \* NamespaceOf[end]: 'xmlns' there, "" if it is empty
  LinkKeys,    \* the names that end in _links
  Deepest      \* bound: how deep the values of a body are nested

End == {"server", "client"}
RootKey == "_v_root"
NoKey == "None"

(* Values: null, text, int, bool with their text, lists and dictionaries.  *)
Leaf(type, text) == [t |-> type, v |-> text, items |-> << >>, map |-> << >>]
Null == Leaf("null", "")
List(items) == [t |-> "list", v |-> "", items |-> items, map |-> << >>]
Dict(map) == [t |-> "dict", v |-> "", items |-> << >>, map |-> map]
EmptyDict == Dict(<< >>)

VARIABLES
  body,    \* what is to be sent, as its owner has it
  sent,    \* what it was before it was written
  writer,  \* the end that writes it
  doc,     \* the document
  got,     \* what is read from it
  xmlPc

xmlVars == <<body, sent, writer, doc, got, xmlPc>>

LinksOf(name) == name \o "_links"

NoDoc == [ns |-> "", root |-> << >>]
Malformed == Leaf("malformed", "")

XmlInit ==
  /\ body = EmptyDict /\ sent = EmptyDict /\ writer = "server"
  /\ doc = NoDoc /\ got = Null /\ xmlPc = "idle"

-----------------------------------------------------------------------------
(* An element: its name, the type attribute (or nil), text and children.   *)
Element(name, type, text, kids) ==
  [tag |-> name, type |-> type, text |-> text, kids |-> kids]

ItemName(name) ==
  IF name \in DOMAIN Singular THEN Singular[name] ELSE "item"

(* Mutant: null is written like any other scalar.                          *)
ScalarNodeNoNil(name, data) ==
  Element(name, IF data.t \in {"str", "null"} THEN "" ELSE data.t,
          IF data.t = "null" THEN "None" ELSE data.v, << >>)

ScalarNode(name, data) ==
  Element(name, CASE data.t = "null" -> "nil"
                  [] data.t = "str" -> ""
                  [] OTHER -> data.t, data.v, << >>)

Size(data) == Len(data.items) + Cardinality(DOMAIN data.map)

(* x and what is below it, down to the bound.                              *)
Nested(x, Below(_)) ==
  LET layer[n \in 0 .. Deepest] ==
        IF n = 0 THEN {x} ELSE UNION {Below(y) : y \in layer[n - 1]}
  IN UNION {layer[n] : n \in 0 .. Deepest}

(* The values under a name, each with the name its element gets.           *)
NamedBelow(p) ==
  {<<ItemName(p[1]), p[2].items[i]>> : i \in DOMAIN p[2].items}
    \cup {<<k, p[2].map[k]>> : k \in DOMAIN p[2].map}
NamedWithin(name, data) == Nested(<<name, data>>, NamedBelow)

ToNode(name, data) ==
  LET node[p \in NamedWithin(name, data)] ==
        LET kid(i) == IF p[2].t = "list" THEN <<ItemName(p[1]), p[2].items[i]>>
                      ELSE LET k == SetToSeq(DOMAIN p[2].map)[i] IN <<k, p[2].map[k]>>
        IN CASE p[2].t \notin {"list", "dict"} -> ScalarNode(p[1], p[2])
             [] p[2].t \in {"list", "dict"} /\ Size(p[2]) = 0 ->
                  Element(p[1], p[2].t, "", << >>)
             [] OTHER -> Element(p[1], "", "", [i \in 1 .. Size(p[2]) |-> node[kid(i)]])
  IN node[<<name, data>>]

LinkNodes(links) ==
  [i \in DOMAIN links.items |-> Element("atom:link", "", links.items[i].v, << >>)]

(* The links are taken out of the dictionary itself, one entry of it.      *)
Links(d) == DOMAIN d.map \cap LinkKeys
WithoutLinks(d) ==
  IF Links(d) = {} THEN d
  ELSE LET l == CHOOSE k \in Links(d) : TRUE
       IN Dict([k \in DOMAIN d.map \ {l} |-> d.map[k]])

Document(ns, d) ==
  LET rest == WithoutLinks(d)
      root == IF Cardinality(DOMAIN rest.map) = 1
                THEN LET k == CHOOSE k \in DOMAIN rest.map : TRUE
                     IN ToNode(k, rest.map[k])
                ELSE ToNode(RootKey, rest)
      links == IF Links(d) = {} THEN << >>
               ELSE LinkNodes(d.map[CHOOSE k \in Links(d) : TRUE])
  IN [ns |-> ns, root |-> <<[root EXCEPT !.kids = @ \o links]>>]

-----------------------------------------------------------------------------
(* An element without children.                                            *)
ReadScalar(type, text) ==
  CASE type = "nil" -> Null
    [] type \in {"list", "dict"} /\ text = "" ->
         IF type = "list" THEN List(<< >>) ELSE EmptyDict
    [] type \in {"int", "bool"} /\ text # "" -> Leaf(type, text)
    [] OTHER -> Leaf("str", text)

IsList(name, plurals) == name \in plurals

(* ns: whether the document's namespace is the reader's own. Otherwise it  *)
(* knows no name and no type; nil is in a namespace both have.             *)
FromNode(top, plurals, ns) ==
  LET key(n) == IF ns THEN n.tag ELSE NoKey
      value[node \in Nested(top, LAMBDA n : ToSet(n.kids))] ==
        LET type == IF ns \/ node.type = "nil" THEN node.type ELSE ""
            kids == DOMAIN node.kids
            at(k) == {i \in kids : key(node.kids[i]) = k}
            last(k) == CHOOSE i \in at(k) : \A j \in at(k) : j <= i
        IN CASE kids = {} -> ReadScalar(type, node.text)
             [] kids # {} /\ IsList(key(node), plurals) ->
                  List([i \in kids |-> value[node.kids[i]]])
             [] OTHER -> Dict([k \in {key(node.kids[i]) : i \in kids} |->
                                 value[node.kids[last(k)]]])
  IN value[top]

(* _get_links: the children of the root that are links.                    *)
IsLink(n) == n.tag = "atom:link"

(* The prefix of the API's own types is bound to its namespace: a document *)
(* that binds it to the empty text is not well-formed.                     *)
Parse(d, plurals, own) ==
  LET ns == d.ns = own
      top == d.root[1]
      links == SelectSeq(top.kids, IsLink)
      rest == [top EXCEPT !.kids = SelectSeq(@, LAMBDA n : ~IsLink(n))]
      name == IF ns THEN top.tag ELSE NoKey
      value == FromNode(rest, plurals, ns)
      linked == List([i \in DOMAIN links |-> Leaf("str", links[i].text)])
  IN CASE d.ns = "" -> Malformed
       [] d.ns # "" /\ name = RootKey -> value
       [] d.ns # "" /\ name # RootKey /\ links = << >> -> Dict(name :> value)
       [] OTHER -> Dict([k \in {name, LinksOf(name)} |->
                           IF k = name THEN value ELSE linked])

-----------------------------------------------------------------------------
Hand(end) ==
  /\ xmlPc = "idle" /\ writer' = end
  /\ \E d \in Bodies : body' = d /\ sent' = d
  /\ xmlPc' = "handed"
  /\ UNCHANGED <<doc, got>>

Write(end) ==
  /\ xmlPc = "handed" /\ writer = end
  /\ doc' = Document(NamespaceOf[end], body)
  /\ body' = WithoutLinks(body)
  /\ xmlPc' = "written"
  /\ UNCHANGED <<sent, writer, got>>

Read(end) ==
  /\ xmlPc = "written" /\ xmlPc' = "read_by_" \o end
  /\ got' = Parse(doc, PluralsOf[end], NamespaceOf[end])
  /\ UNCHANGED <<body, sent, writer, doc>>

(* The two copies: an answer and a request.                                *)
WriteAnswer == Write("server")
ReadRequest == Read("server")
WriteRequest == Write("client")
ReadAnswer == Read("client")

XmlNext ==
  \/ \E end \in End : Hand(end)
  \/ WriteAnswer \/ ReadRequest \/ WriteRequest \/ ReadAnswer

XmlSpec == XmlInit /\ [][XmlNext]_xmlVars

-----------------------------------------------------------------------------
(* The document, its nodes and what is read back keep their types.         *)
XmlTypeOK ==
  /\ sent.t = "dict" /\ writer \in End
  /\ body \in {sent, WithoutLinks(sent)}
  /\ xmlPc \in {"idle", "handed", "written", "read_by_server", "read_by_client"}
  /\ Len(doc.root) <= 1
  /\ got.t \in {"null", "dict", "malformed"}

(* Every list that is not empty has a name the reader was told.            *)
ListsKnown(name, data, plurals) ==
  \A p \in NamedWithin(name, data) : p[2].items # << >> => p[1] \in plurals

(* Links, if any, are those of the one other entry.                        *)
LinksFit(d) ==
  \A l \in Links(d) : d.map[l].items # << >> /\ \E k \in DOMAIN d.map :
    l = LinksOf(k) /\ DOMAIN d.map = {k, l}

Reader == IF xmlPc = "read_by_server" THEN "server" ELSE "client"
Arrived == xmlPc \in {"read_by_server", "read_by_client"}

(* Within one namespace a body arrives as it was sent, with the types of   *)
(* its values, if the reader knows its lists and its links fit.            *)
XmlRoundTrip ==
  /\ Arrived /\ NamespaceOf[writer] = NamespaceOf[Reader] /\ NamespaceOf[writer] # ""
  /\ ListsKnown(RootKey, Dict([k \in DOMAIN sent.map \ Links(sent) |-> sent.map[k]]),
                PluralsOf[Reader])
  /\ LinksFit(sent)
  => got = sent

Texts(data) == {p[2].v : p \in NamedWithin(RootKey, data)}

(* Whatever is lost on the way, no value arrives that was not sent.        *)
XmlNothingInvented ==
  Arrived => Texts(got) \subseteq Texts(sent) \cup {""}

(* A list the reader was not told of arrives as its last item alone: a     *)
(* request with several items is taken for a request with one.             *)
XmlLastItem ==
  Arrived /\ writer = "server" /\ Reader = "server" =>
    \A k \in DOMAIN sent.map \ LinkKeys :
      /\ sent.map[k].t = "list" /\ sent.map[k].items # << >>
      /\ k \notin PluralsOf["server"]
      => /\ got.map[k].t = "dict" /\ DOMAIN got.map[k].map = {ItemName(k)}
         /\ Last(sent.map[k].items).t \in {"str", "int"} =>
              got.map[k].map[ItemName(k)] = Last(sent.map[k].items)
=============================================================================

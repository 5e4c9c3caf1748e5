--------------------------- MODULE TemplateCatalog ---------------------------
(***************************************************************************)
(* The catalog of service templates: a row per template, the file          *)
(* templates.json that says where the descriptors of a service are, and    *)
(* the flavors and images made on OpenStack for its VNFDs. Uploads and     *)
(* deletions are requests of the REST server; they give way to each other  *)
(* in calls to nova and glance only, and what lies between is one step.    *)
(*                                                                         *)
(* Every VDU has a flavor and an image of its own here (the code makes     *)
(* equal ones of a VNFD once), and no two VDUs of a template have the same *)
(* name, which populate_vdu_configuration could not enter twice.           *)
(***************************************************************************)
EXTENDS Naturals, Sequences, FiniteSets, Functions

CONSTANTS
  Upload,   \* the uploads that may be made; each makes a template
  Name,     \* the names of services
  Vnfd,     \* the names of VNFDs
  NameOf,   \* NameOf[u]: the service an upload describes
  VnfdsOf,  \* VnfdsOf[u]: its VNFDs, in the order they are gone through
  NsdAfter, \* NsdAfter[u]: how many of them come before its NSD
  Part,     \* flavors and images
  Image,    \* those that are images
  PartsOf,  \* PartsOf[f]: what is made for a VNFD, in order
  Faults    \* "create": making a part raises; "poll": asking for the
            \* state of an image does; "remove": removing a part does

ASSUME CatalogAssumption ==
  /\ NameOf \in [Upload -> Name]
  /\ VnfdsOf \in [Upload -> Seq(Vnfd) \ {<< >>}]
  /\ \A u \in Upload : IsInjective(VnfdsOf[u])
  /\ NsdAfter \in [Upload -> Nat] /\ \A u \in Upload : NsdAfter[u] <= Len(VnfdsOf[u])
  /\ PartsOf \in [Vnfd -> Seq(Part) \ {<< >>}]
  /\ \A f, g \in Vnfd : Range(PartsOf[f]) \cap Range(PartsOf[g]) # {} => f = g
  /\ \A f \in Vnfd : IsInjective(PartsOf[f])
  /\ \A f \in Vnfd : PartsOf[f][Len(PartsOf[f])] \notin Image
  /\ Image \subseteq Part
  /\ Name \cap Vnfd = {}
  /\ Faults \subseteq {"create", "poll", "remove"}

VARIABLES
  json,    \* templates.json: by service or VNFD, whose file it names
  rows,    \* the templates in the database, with their configurations
  status,  \* status[u]: the status column of template u
  store,   \* the parts on OpenStack, each with the upload that made it
  pc,      \* where create_template is
  snap,    \* template_json as an upload has loaded it
  nth,     \* how many VNFDs an upload is through with
  made,    \* how many parts of the next one it has made and noted
  undo,    \* the parts template_cleanup has still to remove
  del,     \* where delete_template is
  todo,    \* the flavors it has still to remove
  overlapped  \* history: whether two requests were ever under way at a time

upVars == <<pc, snap, nth, made, undo>>
delVars == <<del, todo>>
vars == <<json, rows, status, store, upVars, delVars, overlapped>>

Key == Name \cup Vnfd
NoFile == "no file"

(* The VNFD an upload is at, and the parts made for all, or one, of them.  *)
At(u) == VnfdsOf[u][nth[u] + 1]
PartsIn(u, fs) == {<<u, p>> : p \in UNION {Range(PartsOf[f]) : f \in fs}}
AllParts(u) == PartsIn(u, Range(VnfdsOf[u]))
Flavors(u) == {p \in AllParts(u) : p[2] \notin Image}

(* Rows, file, uploads and what they made keep their types.                *)
TypeOK ==
  /\ json \in [Key -> Upload \cup {NoFile}]
  /\ rows \subseteq Upload
  /\ status \in [Upload -> {"True", "False"}]
  /\ store \subseteq Upload \X Part
  /\ pc \in [Upload -> {"idle", "parts", "polling", "cleanup", "over", "failed",
                        "refused"}]
  /\ snap \in [Upload -> [Key -> Upload \cup {NoFile}]]
  /\ nth \in [Upload -> Nat] /\ made \in [Upload -> Nat]
  /\ undo \in [Upload -> SUBSET (Upload \X Part)]
  /\ del \in [Upload -> {"idle", "flavors", "over", "failed"}]
  /\ todo \in [Upload -> SUBSET (Upload \X Part)]
  /\ overlapped \in BOOLEAN

Init ==
  /\ json = [k \in Key |-> NoFile]
  /\ rows = {} /\ store = {}
  /\ status = [u \in Upload |-> "True"]
  /\ pc = [u \in Upload |-> "idle"]
  /\ snap = [u \in Upload |-> json]
  /\ nth = [u \in Upload |-> 0] /\ made = [u \in Upload |-> 0]
  /\ undo = [u \in Upload |-> {}]
  /\ del = [u \in Upload |-> "idle"] /\ todo = [u \in Upload |-> {}]
  /\ overlapped = FALSE

Goto(u, l) == pc' = [pc EXCEPT ![u] = l]

-----------------------------------------------------------------------------
(* create_template *)

(* Mutant: an NSD that comes last is not entered.                          *)
WrittenBefore(u, n) ==
  {VnfdsOf[u][i] : i \in 1 .. n} \cup (IF NsdAfter[u] < n THEN {NameOf[u]} ELSE {})

(* The copy of templates.json that an upload holds when it is through with *)
(* n of its VNFDs: what it has loaded, with its own files entered.         *)
Written(u, n) ==
  {VnfdsOf[u][i] : i \in 1 .. n} \cup (IF NsdAfter[u] <= n THEN {NameOf[u]} ELSE {})

CopyOf(u, loaded, n) == [k \in Key |-> IF k \in Written(u, n) THEN u ELSE loaded[k]]

(* Mutant: the name is not looked up.                                      *)
CreateTemplateAnyway(u) ==
  /\ pc[u] = "idle"
  /\ snap' = [snap EXCEPT ![u] = json]
  /\ json' = CopyOf(u, json, 0)
  /\ Goto(u, "parts")
  /\ UNCHANGED <<rows, status, store, nth, made, undo, delVars>>

(* Load templates.json, and refuse the name of a service that has a row.   *)
CreateTemplate(u) ==
  /\ pc[u] = "idle"
  /\ snap' = [snap EXCEPT ![u] = json]
  /\ \/ /\ \E w \in rows : NameOf[w] = NameOf[u]
        /\ Goto(u, "refused") /\ UNCHANGED json
     \/ /\ ~ \E w \in rows : NameOf[w] = NameOf[u]
        /\ Goto(u, "parts")
        /\ json' = CopyOf(u, json, 0)
  /\ UNCHANGED <<rows, status, store, nth, made, undo, delVars>>

(* Mutant: the row is entered with the first VNFD.                         *)
NotePartEarly(u) ==
  IF made[u] + 1 < Len(PartsOf[At(u)])
  THEN /\ made' = [made EXCEPT ![u] = @ + 1]
       /\ Goto(u, "parts") /\ UNCHANGED <<json, rows, nth>>
  ELSE /\ made' = [made EXCEPT ![u] = 0]
       /\ nth' = [nth EXCEPT ![u] = @ + 1]
       /\ json' = CopyOf(u, snap[u], nth[u] + 1)
       /\ rows' = rows \cup {u}
       /\ IF nth[u] + 1 = Len(VnfdsOf[u]) THEN Goto(u, "over") ELSE Goto(u, "parts")

(* A part is noted. With the last part of a VNFD the upload's copy of      *)
(* templates.json is written back, with the last VNFD the rows are entered.*)
NotePart(u) ==
  IF made[u] + 1 < Len(PartsOf[At(u)])
  THEN /\ made' = [made EXCEPT ![u] = @ + 1]
       /\ Goto(u, "parts") /\ UNCHANGED <<json, rows, nth>>
  ELSE /\ made' = [made EXCEPT ![u] = 0]
       /\ nth' = [nth EXCEPT ![u] = @ + 1]
       /\ json' = CopyOf(u, snap[u], nth[u] + 1)
       /\ IF nth[u] + 1 = Len(VnfdsOf[u])
          THEN rows' = rows \cup {u} /\ Goto(u, "over")
          ELSE Goto(u, "parts") /\ UNCHANGED rows

NextPart(u) == PartsOf[At(u)][made[u] + 1]

CreateFlavor(u) ==
  /\ pc[u] = "parts" /\ NextPart(u) \notin Image
  /\ store' = store \cup {<<u, NextPart(u)>>}
  /\ NotePart(u)
  /\ UNCHANGED <<status, snap, undo, delVars>>

(* get_vdu_image: an image is made, and noted once it is active.           *)
CreateImage(u) ==
  /\ pc[u] = "parts" /\ NextPart(u) \in Image
  /\ store' = store \cup {<<u, NextPart(u)>>}
  /\ Goto(u, "polling")
  /\ UNCHANGED <<json, rows, status, snap, nth, made, undo, delVars>>

ImageActive(u) ==
  /\ pc[u] = "polling"
  /\ NotePart(u)
  /\ UNCHANGED <<status, store, snap, undo, delVars>>

Noted(u) == {<<u, PartsOf[At(u)][i]>> : i \in 1 .. made[u]}

(* Mutant: the images of the VNFD are forgotten.                           *)
UploadFailsFlavorsOnly(u) ==
  /\ \/ pc[u] = "parts" /\ "create" \in Faults
     \/ pc[u] = "polling" /\ "poll" \in Faults
  /\ undo' = [undo EXCEPT ![u] = {p \in Noted(u) : p[2] \notin Image}]
  /\ Goto(u, "cleanup")
  /\ UNCHANGED <<json, rows, status, store, snap, nth, made, delVars>>

(* An exception in get_vnf_details, which then removes what it has noted   *)
(* of the VNFD it is at.                                                   *)
UploadFails(u) ==
  /\ \/ pc[u] = "parts" /\ "create" \in Faults
     \/ pc[u] = "polling" /\ "poll" \in Faults
  /\ undo' = [undo EXCEPT ![u] = Noted(u)]
  /\ Goto(u, "cleanup")
  /\ UNCHANGED <<json, rows, status, store, snap, nth, made, delVars>>

(* template_cleanup: the flavors, then the images.                         *)
TemplateCleanup(u, p) ==
  /\ pc[u] = "cleanup" /\ p \in undo[u]
  /\ p[2] \in Image => \A q \in undo[u] : q[2] \in Image
  /\ store' = store \ {p}
  /\ undo' = [undo EXCEPT ![u] = @ \ {p}]
  /\ UNCHANGED <<json, rows, status, pc, snap, nth, made, delVars>>

(* It ends; or a removal raises, and what is left stays.                   *)
CleanupEnds(u) ==
  /\ pc[u] = "cleanup"
  /\ undo[u] = {} \/ "remove" \in Faults
  /\ Goto(u, "failed")
  /\ UNCHANGED <<json, rows, status, store, snap, nth, made, undo, delVars>>

-----------------------------------------------------------------------------
(* delete_template, for a template whose upload has been answered *)

DeleteTemplate(u) ==
  /\ pc[u] = "over" /\ del[u] \in {"idle", "failed"}
  /\ del' = [del EXCEPT ![u] = "flavors"]
  /\ todo' = [todo EXCEPT ![u] = IF u \in rows THEN Flavors(u) ELSE {}]
  /\ UNCHANGED <<json, rows, status, store, upVars>>

(* Mutant: the rows go before the flavors are all removed.                 *)
DeleteFlavorOnce(u, p) ==
  /\ del[u] = "flavors" /\ p \in todo[u] /\ p \in store
  /\ store' = store \ {p}
  /\ todo' = [todo EXCEPT ![u] = {}]
  /\ UNCHANGED <<json, rows, status, upVars, del>>

DeleteFlavor(u, p) ==
  /\ del[u] = "flavors" /\ p \in todo[u] /\ p \in store
  /\ store' = store \ {p}
  /\ todo' = [todo EXCEPT ![u] = @ \ {p}]
  /\ UNCHANGED <<json, rows, status, upVars, del>>

(* nova raises, in any case for a flavor it does not have.                 *)
DeleteFails(u, p) ==
  /\ del[u] = "flavors" /\ p \in todo[u]
  /\ p \notin store \/ "remove" \in Faults
  /\ del' = [del EXCEPT ![u] = "failed"]
  /\ UNCHANGED <<json, rows, status, store, upVars, todo>>

(* The rows go; the images and the entries of templates.json stay.         *)
DeleteTemplateInfo(u) ==
  /\ del[u] = "flavors" /\ todo[u] = {}
  /\ rows' = rows \ {u}
  /\ del' = [del EXCEPT ![u] = "over"]
  /\ UNCHANGED <<json, status, store, upVars, todo>>

-----------------------------------------------------------------------------
(* create_activate. The template is looked up by an unbound variable: the  *)
(* exception is swallowed, and it is always taken for one not active. So a *)
(* request to activate writes the row and one to deactivate is refused.    *)
Activate(u) ==
  /\ u \in rows
  /\ status' = [status EXCEPT ![u] = "True"]
  /\ UNCHANGED <<json, rows, store, upVars, delVars>>

-----------------------------------------------------------------------------
Uploading(u) ==
  \/ CreateFlavor(u) \/ CreateImage(u) \/ ImageActive(u)
  \/ UploadFails(u) \/ CleanupEnds(u)
  \/ \E p \in undo[u] : TemplateCleanup(u, p)

Deleting(u) ==
  \/ DeleteTemplateInfo(u)
  \/ \E p \in todo[u] : DeleteFlavor(u, p) \/ DeleteFails(u, p)

Request(u) ==
  \/ CreateTemplate(u) \/ Uploading(u)
  \/ DeleteTemplate(u) \/ Deleting(u)
  \/ Activate(u)

(* The requests under way.                                                 *)
Busy == {u \in Upload : pc[u] \in {"parts", "polling", "cleanup"} \/ del[u] = "flavors"}

Next ==
  /\ \E u \in Upload : Request(u)
  /\ overlapped' = (overlapped \/ Cardinality(Busy') > 1)

Spec == Init /\ [][Next]_vars

-----------------------------------------------------------------------------
(* What can be said of a template in the catalog that nobody has begun to  *)
(* delete.                                                                 *)
Listed == {u \in rows : del[u] = "idle"}

(* All it needs on OpenStack is there, whatever uploads and deletions go   *)
(* on or fail beside it: _launch_vnfds boots from these flavors and images.*)
PartsKept == \A u \in Listed : AllParts(u) \subseteq store

(* What there is on OpenStack of an upload, and what of its VNFDs it is    *)
(* through with.                                                           *)
Stored(u) == {p \in store : p[1] = u}
Finished(u) == PartsIn(u, {VnfdsOf[u][i] : i \in 1 .. nth[u]})

(* Where an upload is tells what there is of it, up to the part it is at,  *)
(* and a template has its rows from the end of its upload to the end of    *)
(* its deletion.                                                           *)
UploadSound(u) ==
  /\ pc[u] = "over" => nth[u] = Len(VnfdsOf[u])
  /\ pc[u] # "over" => nth[u] < Len(VnfdsOf[u]) /\ made[u] < Len(PartsOf[At(u)])
  /\ pc[u] \in {"idle", "refused", "parts"} => Stored(u) = Finished(u) \cup Noted(u)
  /\ pc[u] = "polling" =>
       NextPart(u) \in Image /\ Stored(u) = Finished(u) \cup Noted(u) \cup {<<u, NextPart(u)>>}
  /\ pc[u] \in {"cleanup", "failed"} =>
       undo[u] \subseteq Noted(u) /\ Stored(u) \ {<<u, NextPart(u)>>} = Finished(u) \cup undo[u]
  /\ u \in rows <=> pc[u] = "over" /\ del[u] # "over"
  /\ del[u] # "idle" => pc[u] = "over"
  /\ pc[u] = "over" /\ del[u] = "idle" => Stored(u) = AllParts(u)
  /\ todo[u] \subseteq Flavors(u)
  /\ del[u] = "flavors" => Flavors(u) \cap store \subseteq todo[u]
  /\ del[u] = "over" => Flavors(u) \cap store = {}

(* The files of a template that no service of another name describes too:  *)
(* the NSD's, and those of VNFDs.                                          *)
Files(u) ==
  {NameOf[u]} \cup
    {k \in Range(VnfdsOf[u]) :
       \A w \in Upload : k \in Range(VnfdsOf[w]) => NameOf[w] = NameOf[u]}

(* As long as requests come one at a time, templates.json names the files  *)
(* of the template: _ns_dict_init and create_service look them up there.   *)
FilesListed == ~overlapped => \A u \in Listed : \A k \in Files(u) : json[k] = u

(* As long as they do, no template has come by the name of the one that is *)
(* uploaded, and none by the files it has loaded.                          *)
LoneRequest ==
  /\ IsFiniteSet(Busy)
  /\ ~overlapped =>
       /\ \A u, w \in Busy : u = w
       /\ \A u \in Upload : pc[u] \in {"parts", "polling"} =>
            /\ \A w \in rows : NameOf[w] # NameOf[u]
            /\ \A w \in Listed : \A k \in Files(w) : snap[u][k] = w

(* python-vnfsvcclient/vnfsvcclient/vnfsvc/v1_0/template.py:25: "Creates   *)
(* Descriptor Templates." A template in the catalog has its descriptor     *)
(* listed under its service's name, whatever other uploads there are.      *)
DescriptorListed == \A u \in Listed : json[NameOf[u]] # NoFile

(* And no two templates have the same name: "Service name already exists"  *)
(* (vnfsvc/common/exceptions.py:137). get_template_model takes the one()   *)
(* row of a name, and create_service is refused when there are several.    *)
NamesUnique ==
  ~overlapped => \A u, w \in rows : NameOf[u] = NameOf[w] => u = w

(* An upload that failed leaves the parts of the VNFDs it was through      *)
(* with, those whose removal raised, and perhaps the image it waited for:  *)
(* the cleanup knows of everything else.                                   *)
FailedLeavesFinished ==
  \A u \in Upload : pc[u] = "failed" =>
    Stored(u) \ {<<u, NextPart(u)>>}
      = Finished(u) \cup undo[u]

(* A template that is deleted leaves no flavor behind.                     *)
DeletedFlavorsGone ==
  \A u \in Upload : del[u] = "over" => Flavors(u) \cap store = {}

(* All that the catalog keeps: the parts of its templates, because uploads *)
(* and deletions go about their own parts only, and their names and files, *)
(* because requests come one at a time. Every step keeps it.               *)
CatalogInv ==
  /\ TypeOK /\ PartsKept
  /\ \A u \in Upload : UploadSound(u)
  /\ LoneRequest /\ FilesListed /\ NamesUnique
=============================================================================

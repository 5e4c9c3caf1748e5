---------------------------- MODULE RestRequest ----------------------------
(***************************************************************************)
(* One request that writes: how Resource and Controller make of a body the *)
(* items handed to the plugin, what the plugin may answer, how a bulk is   *)
(* undone, and the status the client gets. A value is told by its type     *)
(* ("blank" and "empty" are '' and {}). The attribute maps are the real    *)
(* ones; every attribute of theirs may be given in a POST.                 *)
(***************************************************************************)
EXTENDS Naturals, Sequences, SequencesExt

CONSTANT MaxItems  \* the largest bulk

ASSUME RestAssumption == MaxItems \in Nat \ {0}

VARIABLES
  rq,       \* the request
  restPc,   \* where Controller is
  prepared, \* the items that prepare_request_body is through with
  made,     \* what the plugin made of each, and what the undo left of it
  undo,     \* the next item to be undone
  fault,    \* the status of the exception that is being handled
  refused,  \* the items whose undo was refused
  noted,    \* the notifications sent
  answer    \* the status of the answer, 0 before it

restVars == <<rq, restPc, prepared, made, undo, fault, refused, noted, answer>>

Value == {"str", "blank", "dict", "empty", "list", "none"}

(* The validators in use, by the values they let pass.                     *)
Accepts ==
  [string |-> {"str", "blank"},
   dict_or_none |-> {"dict", "empty", "none"},
   list_or_none |-> {"list", "blank", "empty", "none"}]

Required(rule) == [rule |-> rule, default |-> "required", put |-> "no"]
Optional(rule, default) == [rule |-> rule, default |-> default, put |-> "yes"]

(* RESOURCE_ATTRIBUTE_MAP, but for tenant_id. The key of dumpxmls is       *)
(* spelt otherwise, so they have none; 'user' does not say if a PUT may.   *)
NoAttributes == [a \in {} |-> Required("string")]
AttrMap ==
  [services |->
     [name |-> Optional("string", "blank"),
      description |-> Optional("string", "blank"),
      quality_of_service |-> Optional("string", "blank"),
      attributes |-> Optional("dict_or_none", "empty")],
   templates |->
     [name |-> Optional("string", "blank"), files |-> Required("dict_or_none")],
   activates |->
     [name |-> Optional("string", "blank"), template_id |-> Optional("string", "blank"),
      enable |-> Optional("string", "blank")],
   diagnostics |->
     [nsd_id |-> Required("string"), vdus |-> Optional("list_or_none", "empty")],
   configurations |-> [attributes |-> Optional("dict_or_none", "empty")],
   registers |->
     [user |-> [rule |-> "dict_or_none", default |-> "required", put |-> "unsaid"]],
   dumpxmls |-> NoAttributes]

Res == DOMAIN AttrMap
HasTenant == Res \ {"configurations", "dumpxmls"}

(* The methods of the plugin.                                              *)
CanGet == {"services", "templates", "diagnostics", "configurations", "dumpxmls"}
CanUpdate == {"services", "configurations"}
CanDelete == {"services", "templates", "diagnostics"}

-----------------------------------------------------------------------------
(* Requests: an item is a well-formed one but for one attribute at most.   *)
GoodValue(rule) == CASE rule = "string" -> "str" [] rule = "dict_or_none" -> "dict"
                     [] OTHER -> "list"
Good(res) == [a \in DOMAIN AttrMap[res] |-> GoodValue(AttrMap[res][a].rule)]
Given(res) ==
  LET known == DOMAIN AttrMap[res]
  IN {Good(res)}
       \cup {[b \in known \ {a} |-> Good(res)[b]] : a \in known}
       \cup {[b \in known |-> IF b = a THEN v ELSE Good(res)[b]] : a \in known, v \in Value}
       \cup {[b \in known \cup {"files_dict"} |->
               IF b \in known THEN Good(res)[b] ELSE "dict"]}
Mapping(res) == [shape : {"dict"}, tenant : {"own", "foreign", "unset"}, given : Given(res)]
ItemGiven(res) ==
  Mapping(res) \cup [shape : {"text", "null"}, tenant : {"unset"}, given : {<< >>}]

NoRequest == [method |-> "none", res |-> "services", body |-> "none", items |-> << >>,
              tenant |-> "own", admin |-> FALSE, known |-> FALSE]

(* Items, rows and answer of a request keep their types.                   *)
RestTypeOK ==
  /\ rq.method \in {"none", "create", "update", "delete"} /\ rq.res \in Res
  /\ restPc \in {"idle", "prepare", "fetch", "call", "undo", "answer"}
  /\ Len(prepared) <= Len(rq.items) /\ Len(made) <= Len(rq.items)
  /\ \A i \in DOMAIN made : made[i] \in {"row", "check", "undone"}
  /\ undo \in 1 .. MaxItems + 1
  /\ fault \in {0, 400, 403, 500} /\ answer \in {0, 200, 201, 204, 400, 403, 500}
  /\ refused \subseteq 1 .. MaxItems /\ noted \subseteq {"start", "end"}

RestInit ==
  /\ rq = NoRequest /\ restPc = "idle" /\ prepared = << >> /\ made = << >>
  /\ undo = 1 /\ fault = 0 /\ refused = {} /\ noted = {} /\ answer = 0

Answer(status) == restPc' = "answer" /\ answer' = status

(* A body that is no object, or has neither of the two keys; a body cannot *)
(* be read; a delete whose request is left to the plugin.                  *)
Receive(method, res, body, items) ==
  /\ \E t \in {"own", "unset"}, admin \in BOOLEAN,
        known \in IF method = "create" THEN {FALSE} ELSE BOOLEAN :
       rq' = [method |-> method, res |-> res, body |-> body, items |-> items,
              tenant |-> t, admin |-> admin, known |-> known]
  /\ \/ body = "malformed" /\ Answer(400) /\ UNCHANGED noted
     \/ /\ body = "none" /\ method # "delete" /\ Answer(400)
        /\ noted' = IF method = "create" THEN {"start"} ELSE {}
     \/ body = "list" /\ method = "create" /\ Answer(500) /\ noted' = {"start"}
     \/ body = "list" /\ method = "update" /\ Answer(400) /\ UNCHANGED noted
     \/ body = "other" /\ Answer(400) /\ noted' = {"start"}
     \/ body = "bulk" /\ items = << >> /\ Answer(400) /\ noted' = {"start"}
     \/ /\ items # << >> /\ restPc' = "prepare" /\ noted' = {"start"}
        /\ UNCHANGED answer
     \/ /\ method = "delete" /\ restPc' = "fetch" /\ noted' = {"start"}
        /\ UNCHANGED answer
  /\ UNCHANGED <<prepared, made, undo, fault, refused>>

ReceiveAny ==
  restPc = "idle" /\ \E res \in Res :
    \/ Receive("delete", res, "none", << >>)
    \/ \E method \in {"create", "update"} :
         \/ \E body \in {"none", "malformed", "list", "other"} :
              Receive(method, res, body, << >>)
         \/ \E i \in ItemGiven(res) : Receive(method, res, "one", <<i>>)
         \/ Receive(method, res, "bulk", << >>)
         \/ \E i \in ItemGiven(res), n \in 1 .. MaxItems, k \in 1 .. MaxItems :
              /\ k <= n
              /\ Receive(method, res, "bulk",
                         [j \in 1 .. n |-> IF j = k THEN i
                            ELSE [shape |-> "dict", tenant |-> "unset", given |-> Good(res)]])

-----------------------------------------------------------------------------
(* prepare_request_body: the statuses one item may be refused with. Of the *)
(* attributes a PUT may not change, the first that the map yields decides. *)
Creating == rq.method = "create"
Attrs == AttrMap[rq.res]
Untyped(i) == i.shape # "dict"
Foreign(i) == i.tenant # "unset" /\ i.tenant # rq.tenant /\ ~rq.admin
NoTenant(i) == Creating /\ i.tenant = "unset" /\ rq.tenant = "unset"
Unknown(i) ==
  \/ ~(DOMAIN i.given \subseteq DOMAIN Attrs)
  \/ rq.res \notin HasTenant /\ (Creating \/ i.tenant # "unset")
Missing(i) == \E a \in DOMAIN Attrs \ DOMAIN i.given : Attrs[a].default = "required"
ReadOnly(i) == {a \in DOMAIN i.given : Attrs[a].put # "yes"}
Filled(i) ==
  IF Creating
    THEN [i EXCEPT !.tenant = IF @ = "unset" THEN rq.tenant ELSE @,
            !.given = [a \in DOMAIN Attrs |-> IF a \in DOMAIN i.given THEN i.given[a]
                                                ELSE Attrs[a].default]]
    ELSE i
Invalid(i) ==
  \E a \in DOMAIN Filled(i).given : Filled(i).given[a] \notin Accepts[Attrs[a].rule]

Refusals(i) ==
  IF Untyped(i)
    THEN {IF (i.shape = "null" /\ rq.body = "one") \/ (i.shape = "text" /\ NoTenant(i))
            THEN 400 ELSE 500}
  ELSE IF Foreign(i) \/ NoTenant(i) \/ Unknown(i) \/ (Creating /\ Missing(i)) THEN {400}
  ELSE IF ~Creating /\ (ReadOnly(i) # {} \/ i.tenant # "unset")
    THEN {IF Attrs[a].put = "unsaid" THEN 500 ELSE 400 : a \in ReadOnly(i)}
           \cup (IF i.tenant # "unset" THEN {400} ELSE {})
  ELSE IF Invalid(i) THEN {400} ELSE {}

Prepare ==
  /\ restPc = "prepare" /\ Len(prepared) < Len(rq.items)
  /\ LET i == rq.items[Len(prepared) + 1]
     IN \/ /\ Refusals(i) = {} /\ prepared' = Append(prepared, Filled(i))
           /\ UNCHANGED <<restPc, answer>>
        \/ \E r \in Refusals(i) : Answer(r) /\ UNCHANGED prepared
  /\ UNCHANGED <<rq, made, undo, fault, refused, noted>>

(* All items are prepared before the plugin is called for the first.       *)
Prepared ==
  /\ restPc = "prepare" /\ Len(prepared) = Len(rq.items)
  /\ restPc' = IF Creating THEN "call" ELSE "fetch"
  /\ UNCHANGED <<rq, prepared, made, undo, fault, refused, noted, answer>>

-----------------------------------------------------------------------------
(* create, and _emulate_bulk_create. create_service answers with the id of *)
(* a service it has not made, next to the exception it caught.             *)
Outcomes(i) ==
  CASE rq.res = "services" ->
         {"check"} \cup IF i.given["attributes"] = "dict" THEN {"row"} ELSE {}
    [] rq.res = "templates" -> IF i.given["files"] = "dict" THEN {"row"} ELSE {}
    [] rq.res = "activates" -> {"row"}
    [] OTHER -> {}

CreateFaults ==
  IF rq.res = "templates" /\ ~rq.admin THEN {403} ELSE {500}

Create ==
  /\ restPc = "call" /\ Creating /\ Len(made) < Len(rq.items)
  /\ LET i == prepared[Len(made) + 1]
     IN \/ /\ 403 \notin CreateFaults
           /\ \E o \in Outcomes(i) : made' = Append(made, o)
           /\ UNCHANGED <<restPc, fault, answer>>
        \/ \E f \in CreateFaults :
             IF rq.body = "bulk"
               THEN restPc' = "undo" /\ fault' = f /\ UNCHANGED <<made, answer>>
               ELSE Answer(f) /\ UNCHANGED <<made, fault>>
  /\ UNCHANGED <<rq, prepared, undo, refused, noted>>

Created ==
  /\ restPc = "call" /\ Creating /\ Len(made) = Len(rq.items)
  /\ Answer(201) /\ noted' = noted \cup {"end"}
  /\ UNCHANGED <<rq, prepared, made, undo, fault, refused>>

(* Mutant: the first deletion that is refused ends the undo.               *)
UndoItemOnce ==
  /\ restPc = "undo" /\ undo <= Len(made) /\ rq.res \in CanDelete
  /\ \/ /\ made' = [made EXCEPT ![undo] = IF @ = "row" THEN "undone" ELSE @]
        /\ undo' = undo + 1 /\ UNCHANGED refused
     \/ refused' = {undo} /\ undo' = Len(made) + 1 /\ UNCHANGED made
  /\ UNCHANGED <<rq, restPc, prepared, fault, noted, answer>>

(* The deletion of what was made: of activations there is none, and that   *)
(* is the exception the client gets then.                                  *)
UndoItem ==
  /\ restPc = "undo" /\ undo <= Len(made) /\ rq.res \in CanDelete
  /\ \/ /\ made' = [made EXCEPT ![undo] = IF @ = "row" THEN "undone" ELSE @]
        /\ UNCHANGED refused
     \/ refused' = refused \cup {undo} /\ UNCHANGED made
  /\ undo' = undo + 1
  /\ UNCHANGED <<rq, restPc, prepared, fault, noted, answer>>

Undone ==
  /\ restPc = "undo"
  /\ \/ undo > Len(made) /\ Answer(fault)
     \/ undo <= Len(made) /\ rq.res \notin CanDelete /\ Answer(500)
  /\ UNCHANGED <<rq, prepared, made, undo, fault, refused, noted>>

-----------------------------------------------------------------------------
(* update and delete look the object up first. That of a service which     *)
(* does not exist is {}, and its deletion succeeds.                        *)
Fetch ==
  /\ restPc = "fetch"
  /\ IF rq.res \in CanGet /\ rq.body # "bulk"
       THEN \/ restPc' = "call" /\ UNCHANGED answer
            \/ rq.res \in {"templates", "dumpxmls"} /\ Answer(500)
       ELSE Answer(500)
  /\ UNCHANGED <<rq, prepared, made, undo, fault, refused, noted>>

Update ==
  /\ restPc = "call" /\ rq.method = "update"
  /\ \/ /\ rq.res \in CanUpdate /\ rq.known
        /\ "attributes" \in DOMAIN prepared[1].given
        /\ prepared[1].given["attributes"] = "dict"
        /\ made' = <<"row">> /\ Answer(200) /\ noted' = noted \cup {"end"}
     \/ Answer(500) /\ UNCHANGED <<made, noted>>
  /\ UNCHANGED <<rq, prepared, undo, fault, refused>>

Delete ==
  /\ restPc = "call" /\ rq.method = "delete"
  /\ \/ /\ rq.res \in CanDelete
        /\ Answer(IF rq.res = "services" THEN 204 ELSE 200)
        /\ noted' = noted \cup {"end"}
     \/ Answer(500) /\ UNCHANGED noted
  /\ UNCHANGED <<rq, prepared, made, undo, fault, refused>>

-----------------------------------------------------------------------------
RestStep ==
  \/ Prepare \/ Prepared \/ Create \/ Created \/ UndoItem \/ Undone
  \/ Fetch \/ Update \/ Delete

RestNext == ReceiveAny \/ RestStep

RestSpec == RestInit /\ [][RestNext]_restVars

(* What the plugin is handed has every attribute of its resource when it   *)
(* is to be created, none that is not known, no value of another type, and *)
(* the tenant of the requester unless that is an administrator.            *)
Screened ==
  \A k \in DOMAIN prepared :
    LET p == prepared[k]
    IN /\ IF Creating THEN DOMAIN p.given = DOMAIN Attrs
                      ELSE DOMAIN p.given \subseteq DOMAIN Attrs
       /\ \A a \in DOMAIN p.given : p.given[a] \in Accepts[Attrs[a].rule]
       /\ rq.admin \/ p.tenant = rq.tenant \/ (~Creating /\ p.tenant = "unset")

(* A request answered 400 has left nothing behind, whichever item of its   *)
(* bulk was the wrong one: nothing was created for the plugin to undo.     *)
RefusedUntouched == answer = 400 => made = << >> /\ "end" \notin noted

(* After the failure of a bulk, no service or template of it remains that  *)
(* could be deleted; a deletion that is refused does not keep the others.  *)
BulkUndone ==
  answer >= 400 /\ rq.res \in CanDelete /\ Creating =>
    \A k \in DOMAIN made : made[k] = "row" => k \in refused

(* 201 says that each item was handed over: created, or answered with the  *)
(* exception create_service caught. No diagnostic is ever started, and no  *)
(* configuration created: what the plugin wants is not what the map lets   *)
(* through.                                                                *)
CreatedAll ==
  answer = 201 =>
    /\ Len(made) = Len(rq.items) /\ Len(made) > 0
    /\ \A k \in DOMAIN made : made[k] = "check" => rq.res = "services"
    /\ rq.res \notin {"diagnostics", "configurations", "registers", "dumpxmls"}

(* The items of a request are as they may be sent, more than one only in a *)
(* bulk, and each is prepared before the plugin is called.                 *)
IsSequence(s) == s \in Seq({s[k] : k \in DOMAIN s})
AnyItem == UNION {ItemGiven(res) : res \in Res}
ItemsKept ==
  /\ rq.items \in Seq(AnyItem) /\ Len(rq.items) <= MaxItems
  /\ rq.body # "bulk" => Len(rq.items) <= 1
  /\ restPc \notin {"idle", "answer"} /\ rq.method # "delete" => rq.items # << >>
  /\ restPc = "call" /\ Creating => Len(prepared) = Len(rq.items)
  /\ IsSequence(prepared)
  /\ made \in Seq({"row", "check", "undone"})

(* Nothing is made until the plugin is called, nothing is answered until   *)
(* the end, and only a bulk that was to be created is undone.              *)
RestPhases ==
  /\ restPc = "idle" => prepared = << >>
  /\ restPc \in {"idle", "prepare", "fetch"} => made = << >> /\ "end" \notin noted
  /\ restPc # "answer" => answer = 0
  /\ restPc # "undo" => restPc = "answer" \/ undo = 1
  /\ restPc = "fetch" => ~Creating
  /\ restPc = "undo" => Creating /\ fault \in {403, 500}

(* What the plugin makes is of three kinds.                                *)
MadeAsKnown ==
  Creating => \A k \in DOMAIN made :
    /\ rq.res \in {"services", "templates", "activates"}
    /\ made[k] = "check" => rq.res = "services"

(* The undo has dealt with what lies before it.                            *)
UndoneSoFar ==
  restPc = "undo" =>
    \A k \in DOMAIN made : k < undo /\ made[k] = "row" => k \in refused

(* What each step of a request keeps.                                      *)
RestInv ==
  /\ RestTypeOK /\ ItemsKept /\ RestPhases /\ MadeAsKnown /\ UndoneSoFar
  /\ Screened /\ RefusedUntouched /\ BulkUndone /\ CreatedAll
=============================================================================

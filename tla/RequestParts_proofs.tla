------------------------- MODULE RequestParts_proofs -------------------------
(***************************************************************************)
(* Proofs about what a request passes on its way, from the handler a       *)
(* command has (CommandRoutes) by the filters and the resource of the      *)
(* server (WsgiPipeline), the rules of its attributes (AttributeRules) and *)
(* the handler (RestRequest) to what it is answered (RestListing), the     *)
(* tables (ServiceTables), and what a descriptor says on its way to the    *)
(* machine it says it of (DescriptorParsers, LifecycleData). Of each part: *)
(* its invariant holds at the start and every step keeps it.               *)
(***************************************************************************)
EXTENDS RestRequest, WsgiPipeline, AttributeRules, RestListing, ServiceTables,
        CommandRoutes, DescriptorParsers, LifecycleData, FiniteSetTheorems, SequenceTheorems, TLAPS

(***************************************************************************)
(* RestRequest                                                             *)
(***************************************************************************)

(* An item has the three fields that requests have.                        *)
LEMMA ItemFields ==
  ASSUME NEW i \in AnyItem
  PROVE  i = [shape |-> i.shape, tenant |-> i.tenant, given |-> i.given]
<1>1. PICK res \in Res : i \in ItemGiven(res)
  BY DEF AnyItem
<1>2. \/ i \in [shape : {"dict"}, tenant : {"own", "foreign", "unset"}, given : Given(res)]
      \/ i \in [shape : {"text", "null"}, tenant : {"unset"}, given : {<< >>}]
  BY <1>1 DEF ItemGiven, Mapping
<1> QED
  BY <1>2

LEMMA GoodGiven == \A res \in Res : [shape |-> "dict", tenant |-> "unset", given |-> Good(res)] \in AnyItem
<1> SUFFICES ASSUME NEW res \in Res
             PROVE  [shape |-> "dict", tenant |-> "unset", given |-> Good(res)] \in AnyItem
  OBVIOUS
<1>1. Good(res) \in Given(res)
  BY DEF Given
<1>2. [shape |-> "dict", tenant |-> "unset", given |-> Good(res)] \in Mapping(res)
  BY <1>1 DEF Mapping
<1> QED
  BY <1>2 DEF AnyItem, ItemGiven

LEMMA RestStarts == RestInit => RestInv
<1> SUFFICES ASSUME RestInit PROVE RestInv
  OBVIOUS
<1> USE RestAssumption
<1>1. rq = NoRequest /\ restPc = "idle" /\ prepared = << >> /\ made = << >>
      /\ undo = 1 /\ fault = 0 /\ refused = {} /\ noted = {} /\ answer = 0
  BY DEF RestInit
<1>2. rq.method = "none" /\ rq.res = "services" /\ rq.items = << >> /\ rq.body = "none"
  BY <1>1 DEF NoRequest
<1>3. "services" \in Res
  BY DEF Res, AttrMap
<1>4. RestTypeOK
  BY <1>1, <1>2, <1>3 DEF RestTypeOK
<1>5. ItemsKept
  BY <1>1, <1>2 DEF ItemsKept, Creating, IsSequence
<1>6. RestPhases /\ MadeAsKnown /\ UndoneSoFar
  BY <1>1, <1>2 DEF RestPhases, MadeAsKnown, UndoneSoFar, Creating
<1>7. Screened /\ RefusedUntouched /\ BulkUndone /\ CreatedAll
  BY <1>1, <1>2 DEF Screened, RefusedUntouched, BulkUndone, CreatedAll
<1> QED
  BY <1>4, <1>5, <1>6, <1>7 DEF RestInv

(* What Receive is called with.                                            *)
Receivable(method, res, body, items) ==
  /\ method \in {"create", "update", "delete"} /\ res \in Res
  /\ items \in Seq(AnyItem) /\ Len(items) <= MaxItems
  /\ body # "bulk" => Len(items) <= 1

LEMMA ReceivedOne ==
  ASSUME ReceiveAny
  PROVE  /\ restPc = "idle"
         /\ \E method, res, body, items :
              Receivable(method, res, body, items) /\ Receive(method, res, body, items)
<1> USE RestAssumption
<1>1. PICK res \in Res :
        \/ Receive("delete", res, "none", << >>)
        \/ \E method \in {"create", "update"} :
             \/ \E body \in {"none", "malformed", "list", "other"} :
                  Receive(method, res, body, << >>)
             \/ \E i \in ItemGiven(res) : Receive(method, res, "one", <<i>>)
             \/ Receive(method, res, "bulk", << >>)
             \/ \E i \in ItemGiven(res), n \in 1 .. MaxItems, k \in 1 .. MaxItems :
                  /\ k <= n
                  /\ Receive(method, res, "bulk",
                             [j \in 1 .. n |-> IF j = k THEN i
                                ELSE [shape |-> "dict", tenant |-> "unset", given |-> Good(res)]])
  BY DEF ReceiveAny
<1>2. restPc = "idle"
  BY DEF ReceiveAny
<1>3. \A method \in {"create", "update", "delete"},
           body \in {"none", "malformed", "list", "other", "bulk"} : Receivable(method, res, body, << >>)
  BY DEF Receivable
<1>4. ItemGiven(res) \subseteq AnyItem
  BY DEF AnyItem
<1>5. \A method \in {"create", "update"}, i \in ItemGiven(res) : Receivable(method, res, "one", <<i>>)
  BY <1>4 DEF Receivable
<1>6. \A method \in {"create", "update"}, i \in ItemGiven(res), n \in 1 .. MaxItems, k \in 1 .. MaxItems :
        Receivable(method, res, "bulk",
                   [j \in 1 .. n |-> IF j = k THEN i
                      ELSE [shape |-> "dict", tenant |-> "unset", given |-> Good(res)]])
  <2> TAKE method \in {"create", "update"}, i \in ItemGiven(res), n \in 1 .. MaxItems,
           k \in 1 .. MaxItems
  <2>1. PICK good : good = [shape |-> "dict", tenant |-> "unset", given |-> Good(res)]
    OBVIOUS
  <2>2. good \in AnyItem /\ i \in AnyItem
    BY <2>1, <1>4, GoodGiven
  <2>3. [j \in 1 .. n |-> IF j = k THEN i ELSE good] \in Seq(AnyItem)
    BY <2>2
  <2>4. Len([j \in 1 .. n |-> IF j = k THEN i ELSE good]) = n
    OBVIOUS
  <2> QED
    BY <2>1, <2>3, <2>4 DEF Receivable
<1>7. CASE Receive("delete", res, "none", << >>)
  BY <1>2, <1>3, <1>7
<1>8. CASE \E method \in {"create", "update"}, body \in {"none", "malformed", "list", "other"} :
             Receive(method, res, body, << >>)
  BY <1>2, <1>3, <1>8
<1>9. CASE \E method \in {"create", "update"}, i \in ItemGiven(res) :
             Receive(method, res, "one", <<i>>)
  BY <1>2, <1>5, <1>9
<1>10. CASE \E method \in {"create", "update"} : Receive(method, res, "bulk", << >>)
  BY <1>2, <1>3, <1>10
<1>11. CASE \E method \in {"create", "update"}, i \in ItemGiven(res), n \in 1 .. MaxItems,
              k \in 1 .. MaxItems :
              Receive(method, res, "bulk",
                      [j \in 1 .. n |-> IF j = k THEN i
                         ELSE [shape |-> "dict", tenant |-> "unset", given |-> Good(res)]])
  <2>1. PICK method \in {"create", "update"}, i \in ItemGiven(res), n \in 1 .. MaxItems,
              k \in 1 .. MaxItems :
              Receive(method, res, "bulk",
                      [j \in 1 .. n |-> IF j = k THEN i
                         ELSE [shape |-> "dict", tenant |-> "unset", given |-> Good(res)]])
    BY <1>11
  <2>2. PICK items : items = [j \in 1 .. n |-> IF j = k THEN i
                         ELSE [shape |-> "dict", tenant |-> "unset", given |-> Good(res)]]
    OBVIOUS
  <2>3. Receive(method, res, "bulk", items) /\ Receivable(method, res, "bulk", items)
    BY <2>1, <2>2, <1>6
  <2> QED
    BY <1>2, <2>3
<1> QED
  BY <1>1, <1>7, <1>8, <1>9, <1>10, <1>11

LEMMA ReceiveKept == RestInv /\ ReceiveAny => RestInv'
<1> SUFFICES ASSUME RestInv, ReceiveAny PROVE RestInv'
  OBVIOUS
<1> USE RestAssumption
<1>1. restPc = "idle" /\ answer = 0 /\ prepared = << >> /\ made = << >> /\ "end" \notin noted
      /\ undo = 1
  BY ReceivedOne DEF RestInv, RestPhases
<1>2. PICK method, res, body, items :
        Receivable(method, res, body, items) /\ Receive(method, res, body, items)
  BY ReceivedOne
<1>3. rq'.method = method /\ rq'.res = res /\ rq'.body = body /\ rq'.items = items
  BY <1>2 DEF Receive
<1>4. UNCHANGED <<prepared, made, undo, fault, refused>>
  BY <1>2 DEF Receive
<1>5. /\ noted' \subseteq {"start"} \cup noted
      /\ \/ restPc' = "answer" /\ answer' \in {400, 500}
         \/ restPc' = "prepare" /\ items # << >> /\ answer' = answer
         \/ restPc' = "fetch" /\ method = "delete" /\ answer' = answer
  <2>1. PICK m, r, b, s : m = method /\ r = res /\ b = body /\ s = items
    OBVIOUS
  <2>2. Receive(m, r, b, s)
    BY <2>1, <1>2
  <2> QED
    BY <2>1, <2>2 DEF Receive, Answer
<1>6. /\ method \in {"create", "update", "delete"} /\ res \in Res
      /\ items \in Seq(AnyItem) /\ Len(items) <= MaxItems
      /\ body # "bulk" => Len(items) <= 1
  BY <1>2 DEF Receivable
<1>7. RestTypeOK'
  BY <1>1, <1>3, <1>4, <1>5, <1>6 DEF RestTypeOK, RestInv
<1>8. ItemsKept'
  BY <1>1, <1>3, <1>4, <1>5, <1>6 DEF ItemsKept, RestInv, Creating
<1>9. RestPhases'
  BY <1>1, <1>3, <1>4, <1>5, <1>6 DEF RestPhases, Creating
<1>10. MadeAsKnown' /\ UndoneSoFar'
  BY <1>1, <1>4, <1>5 DEF MadeAsKnown, UndoneSoFar
<1>11. Screened' /\ RefusedUntouched' /\ BulkUndone' /\ CreatedAll'
  BY <1>1, <1>4, <1>5 DEF Screened, RefusedUntouched, BulkUndone, CreatedAll
<1> QED
  BY <1>7, <1>8, <1>9, <1>10, <1>11 DEF RestInv

(* What prepare_request_body lets pass is as the plugin is promised it.    *)
Clean(p) ==
  /\ IF Creating THEN DOMAIN p.given = DOMAIN Attrs
                 ELSE DOMAIN p.given \subseteq DOMAIN Attrs
  /\ \A a \in DOMAIN p.given : p.given[a] \in Accepts[Attrs[a].rule]
  /\ rq.admin \/ p.tenant = rq.tenant \/ (~Creating /\ p.tenant = "unset")

LEMMA PassedClean ==
  ASSUME NEW i \in AnyItem, Refusals(i) = {}
  PROVE  Clean(Filled(i))
<1>1. /\ ~Foreign(i) /\ ~NoTenant(i) /\ ~Unknown(i) /\ ~Invalid(i)
      /\ ~Creating => i.tenant = "unset"
  BY DEF Refusals
<1>2. DOMAIN i.given \subseteq DOMAIN Attrs
  BY <1>1 DEF Unknown
<1>3. \A a \in DOMAIN Filled(i).given : Filled(i).given[a] \in Accepts[Attrs[a].rule]
  BY <1>1 DEF Invalid
<1>4. CASE Creating
  <2>1. Filled(i) = [i EXCEPT !.tenant = IF @ = "unset" THEN rq.tenant ELSE @,
            !.given = [a \in DOMAIN Attrs |-> IF a \in DOMAIN i.given THEN i.given[a]
                                                ELSE Attrs[a].default]]
    BY <1>4 DEF Filled
  <2>2. DOMAIN i = {"shape", "tenant", "given"}
    BY ItemFields
  <2>3. /\ Filled(i).tenant = (IF i.tenant = "unset" THEN rq.tenant ELSE i.tenant)
        /\ DOMAIN Filled(i).given = DOMAIN Attrs
    BY <2>1, <2>2
  <2>4. rq.admin \/ Filled(i).tenant = rq.tenant
    BY <2>3, <1>1 DEF Foreign
  <2> QED
    BY <1>3, <1>4, <2>3, <2>4 DEF Clean
<1>5. CASE ~Creating
  <2>1. Filled(i) = i
    BY <1>5 DEF Filled
  <2> QED
    BY <1>1, <1>2, <1>3, <1>5, <2>1 DEF Clean
<1> QED
  BY <1>4, <1>5

LEMMA RefusedWith == \A i : Refusals(i) \subseteq {400, 500}
  BY DEF Refusals

LEMMA OneMore ==
  ASSUME NEW s, NEW e, IsSequence(s)
  PROVE  /\ IsSequence(Append(s, e))
         /\ Len(Append(s, e)) = Len(s) + 1 /\ DOMAIN Append(s, e) = 1 .. Len(s) + 1
         /\ \A k \in 1 .. Len(s) : Append(s, e)[k] = s[k]
         /\ Append(s, e)[Len(s) + 1] = e
<1>1. PICK S : S = {s[k] : k \in DOMAIN s} \cup {e}
  OBVIOUS
<1>2. s \in Seq(S) /\ e \in S
  BY <1>1 DEF IsSequence
<1>3. PICK t : t = Append(s, e)
  OBVIOUS
<1>4. /\ t \in Seq(S) /\ Len(t) = Len(s) + 1
      /\ \A k \in 1 .. Len(s) : t[k] = s[k]
      /\ t[Len(s) + 1] = e
  BY <1>2, <1>3
<1>5. t \in Seq({t[k] : k \in DOMAIN t}) /\ DOMAIN t = 1 .. Len(s) + 1
  BY <1>2, <1>4
<1> QED
  BY <1>3, <1>4, <1>5 DEF IsSequence

LEMMA PrepareKept == RestInv /\ Prepare => RestInv'
<1> SUFFICES ASSUME RestInv, Prepare PROVE RestInv'
  OBVIOUS
<1> USE RestAssumption
<1>1. /\ RestTypeOK /\ ItemsKept /\ RestPhases /\ MadeAsKnown /\ UndoneSoFar
      /\ Screened /\ RefusedUntouched /\ BulkUndone /\ CreatedAll
  BY DEF RestInv
<1>2. restPc = "prepare" /\ UNCHANGED <<rq, made, undo, fault, refused, noted>>
  BY DEF Prepare
<1>3. /\ made = << >> /\ "end" \notin noted /\ answer = 0 /\ undo = 1
      /\ rq.method # "delete" => rq.items # << >>
  BY <1>1, <1>2 DEF RestPhases, ItemsKept
<1>4. /\ rq.items \in Seq(AnyItem) /\ Len(rq.items) <= MaxItems
      /\ IsSequence(prepared)
  BY <1>1 DEF ItemsKept
<1>5. PICK i \in AnyItem : i = rq.items[Len(prepared) + 1]
  BY <1>4 DEF Prepare
<1>6. Len(prepared) < Len(rq.items)
  BY DEF Prepare
<1>7. CASE Refusals(i) = {} /\ prepared' = Append(prepared, Filled(i)) /\ UNCHANGED <<restPc, answer>>
  <2>1. PICK p : p = Filled(i)
    OBVIOUS
  <2>2. /\ IsSequence(prepared')
        /\ Len(prepared') = Len(prepared) + 1 /\ DOMAIN prepared' = 1 .. Len(prepared) + 1
        /\ \A k \in 1 .. Len(prepared) : prepared'[k] = prepared[k]
        /\ prepared'[Len(prepared) + 1] = p
    <3>1. PICK t : t = Append(prepared, p)
      OBVIOUS
    <3>2. /\ IsSequence(t)
          /\ Len(t) = Len(prepared) + 1 /\ DOMAIN t = 1 .. Len(prepared) + 1
          /\ \A k \in 1 .. Len(prepared) : t[k] = prepared[k]
          /\ t[Len(prepared) + 1] = p
      BY <1>4, <3>1, OneMore
    <3>3. prepared' = t
      BY <1>7, <2>1, <3>1
    <3> QED
      BY <3>2, <3>3
  <2>3. Clean(p)
    BY <1>7, <2>1, PassedClean
  <2>4. DOMAIN prepared = 1 .. Len(prepared) /\ Len(prepared) \in Nat
    BY <1>4 DEF IsSequence
  <2>5. \A k \in DOMAIN prepared' : Clean(prepared'[k])
    <3> SUFFICES ASSUME NEW k \in DOMAIN prepared' PROVE Clean(prepared'[k])
      OBVIOUS
    <3>1. CASE k = Len(prepared) + 1
      BY <3>1, <2>2, <2>3
    <3>2. CASE k \in 1 .. Len(prepared)
      <4>1. prepared'[k] = prepared[k] /\ k \in DOMAIN prepared
        BY <3>2, <2>2, <2>4
      <4> QED
        BY <4>1, <1>1 DEF Screened, Clean
    <3> QED
      BY <3>1, <3>2, <2>2, <2>4
  <2>6. Screened'
    BY <2>5, <1>2 DEF Screened, Clean, Creating, Attrs
  <2>7. RestTypeOK'
    BY <1>1, <1>2, <1>6, <1>7, <2>2, <2>4 DEF RestTypeOK
  <2>8. ItemsKept'
    BY <1>1, <1>2, <1>7, <2>2 DEF ItemsKept, Creating
  <2>9. RestPhases' /\ MadeAsKnown' /\ UndoneSoFar'
    BY <1>1, <1>2, <1>3, <1>7 DEF RestPhases, MadeAsKnown, UndoneSoFar, Creating
  <2>10. RefusedUntouched' /\ BulkUndone' /\ CreatedAll'
    BY <1>3, <1>7 DEF RefusedUntouched, BulkUndone, CreatedAll
  <2> QED
    BY <2>6, <2>7, <2>8, <2>9, <2>10 DEF RestInv
<1>8. CASE \E r \in Refusals(i) : Answer(r) /\ UNCHANGED prepared
  <2>1. restPc' = "answer" /\ answer' \in {400, 500} /\ prepared' = prepared
    BY <1>8, RefusedWith DEF Answer
  <2>2. RestTypeOK'
    BY <1>1, <1>2, <2>1 DEF RestTypeOK
  <2>3. ItemsKept'
    BY <1>1, <1>2, <2>1 DEF ItemsKept, Creating
  <2>4. RestPhases' /\ MadeAsKnown' /\ UndoneSoFar'
    BY <1>1, <1>2, <1>3, <2>1 DEF RestPhases, MadeAsKnown, UndoneSoFar, Creating
  <2>5. Screened'
    BY <1>1, <1>2, <2>1 DEF Screened, Creating, Attrs
  <2>6. RefusedUntouched' /\ BulkUndone' /\ CreatedAll'
    BY <1>2, <1>3, <2>1 DEF RefusedUntouched, BulkUndone, CreatedAll
  <2> QED
    BY <2>2, <2>3, <2>4, <2>5, <2>6 DEF RestInv
<1> QED
  BY <1>5, <1>7, <1>8 DEF Prepare

(* The steps that leave items and prepared ones alone keep what was        *)
(* screened.                                                               *)
LEMMA ScreenedSame == Screened /\ UNCHANGED <<rq, prepared>> => Screened'
  BY DEF Screened, Creating, Attrs

LEMMA HandlingKept == RestInv /\ (Prepared \/ Fetch \/ Created) => RestInv'
<1> SUFFICES ASSUME RestInv, Prepared \/ Fetch \/ Created PROVE RestInv'
  OBVIOUS
<1> USE RestAssumption
<1>1. /\ RestTypeOK /\ ItemsKept /\ RestPhases /\ MadeAsKnown /\ UndoneSoFar
      /\ Screened /\ RefusedUntouched /\ BulkUndone /\ CreatedAll
  BY DEF RestInv
<1>2. UNCHANGED <<rq, prepared, made, undo, fault, refused>>
  BY DEF Prepared, Fetch, Created
<1>3. CASE Prepared
  <2>1. /\ restPc = "prepare" /\ Len(prepared) = Len(rq.items) /\ UNCHANGED <<noted, answer>>
        /\ restPc' = IF Creating THEN "call" ELSE "fetch"
    BY <1>3 DEF Prepared
  <2>2. answer = 0 /\ made = << >> /\ "end" \notin noted /\ undo = 1
    BY <1>1, <2>1 DEF RestPhases
  <2>3. RestTypeOK'
    BY <1>1, <1>2, <2>1 DEF RestTypeOK
  <2>4. ItemsKept'
    BY <1>1, <1>2, <2>1 DEF ItemsKept, Creating
  <2>5. RestPhases'
    BY <1>1, <1>2, <2>1, <2>2 DEF RestPhases, Creating
  <2>6. MadeAsKnown' /\ UndoneSoFar'
    BY <1>2, <2>1, <2>2 DEF MadeAsKnown, UndoneSoFar
  <2>7. RefusedUntouched' /\ BulkUndone' /\ CreatedAll'
    BY <1>2, <2>1, <2>2 DEF RefusedUntouched, BulkUndone, CreatedAll
  <2> QED
    BY <1>1, <1>2, <2>3, <2>4, <2>5, <2>6, <2>7, ScreenedSame DEF RestInv
<1>4. CASE Fetch
  <2>1. /\ restPc = "fetch" /\ UNCHANGED noted
        /\ (restPc' = "call" /\ UNCHANGED answer) \/ (restPc' = "answer" /\ answer' = 500)
    BY <1>4 DEF Fetch, Answer
  <2>2. answer = 0 /\ made = << >> /\ "end" \notin noted /\ undo = 1 /\ ~Creating
    BY <1>1, <2>1 DEF RestPhases
  <2>3. RestTypeOK'
    BY <1>1, <1>2, <2>1 DEF RestTypeOK
  <2>4. ItemsKept'
    BY <1>1, <1>2, <2>1, <2>2 DEF ItemsKept, Creating
  <2>5. RestPhases'
    BY <1>1, <1>2, <2>1, <2>2 DEF RestPhases, Creating
  <2>6. MadeAsKnown' /\ UndoneSoFar'
    BY <1>2, <2>1, <2>2 DEF MadeAsKnown, UndoneSoFar
  <2>7. RefusedUntouched' /\ BulkUndone' /\ CreatedAll'
    BY <1>2, <2>1, <2>2 DEF RefusedUntouched, BulkUndone, CreatedAll
  <2> QED
    BY <1>1, <1>2, <2>3, <2>4, <2>5, <2>6, <2>7, ScreenedSame DEF RestInv
<1>5. CASE Created
  <2>1. /\ restPc = "call" /\ Creating /\ Len(made) = Len(rq.items)
        /\ restPc' = "answer" /\ answer' = 201 /\ noted' = noted \cup {"end"}
    BY <1>5 DEF Created, Answer
  <2>2. rq.items # << >>
    BY <1>1, <2>1 DEF ItemsKept, Creating
  <2>3. RestTypeOK'
    BY <1>1, <1>2, <2>1 DEF RestTypeOK
  <2>4. ItemsKept'
    BY <1>1, <1>2, <2>1 DEF ItemsKept, Creating
  <2>5. RestPhases'
    BY <1>1, <1>2, <2>1, <2>2 DEF RestPhases, Creating
  <2>6. MadeAsKnown' /\ UndoneSoFar'
    BY <1>1, <1>2, <2>1, <2>2 DEF MadeAsKnown, UndoneSoFar, Creating
  <2>7. RefusedUntouched' /\ BulkUndone'
    BY <1>2, <2>1, <2>2 DEF RefusedUntouched, BulkUndone
  <2>8. Len(made) \in Nat /\ Len(made) > 0 /\ 1 \in DOMAIN made
    BY <1>1, <2>1, <2>2 DEF ItemsKept
  <2>9. CreatedAll'
    BY <1>1, <1>2, <2>1, <2>8 DEF CreatedAll, MadeAsKnown
  <2> QED
    BY <1>1, <1>2, <2>3, <2>4, <2>5, <2>6, <2>7, <2>9, ScreenedSame DEF RestInv
<1> QED
  BY <1>3, <1>4, <1>5

LEMMA CreateKept == RestInv /\ Create => RestInv'
<1> SUFFICES ASSUME RestInv, Create PROVE RestInv'
  OBVIOUS
<1> USE RestAssumption
<1>1. /\ RestTypeOK /\ ItemsKept /\ RestPhases /\ MadeAsKnown /\ UndoneSoFar
      /\ Screened /\ RefusedUntouched /\ BulkUndone /\ CreatedAll
  BY DEF RestInv
<1>2. /\ restPc = "call" /\ Creating /\ Len(made) < Len(rq.items)
      /\ UNCHANGED <<rq, prepared, undo, refused, noted>>
  BY DEF Create
<1>3. answer = 0 /\ undo = 1 /\ made \in Seq({"row", "check", "undone"})
  BY <1>1, <1>2 DEF RestPhases, ItemsKept
<1>4. /\ \A i : Outcomes(i) \subseteq {"row", "check"}
      /\ \A i : Outcomes(i) # {} => rq.res \in {"services", "templates", "activates"}
      /\ \A i : "check" \in Outcomes(i) => rq.res = "services"
  BY DEF Outcomes
<1>5. CreateFaults \subseteq {403, 500}
  BY DEF CreateFaults
<1>6. CASE \E i : \E o \in Outcomes(i) : made' = Append(made, o) /\ UNCHANGED <<restPc, fault, answer>>
  <2>1. PICK i, o : o \in Outcomes(i) /\ made' = Append(made, o) /\ UNCHANGED <<restPc, fault, answer>>
    BY <1>6
  <2>2. /\ made' \in Seq({"row", "check", "undone"}) /\ Len(made') = Len(made) + 1
        /\ DOMAIN made' = 1 .. Len(made) + 1 /\ DOMAIN made = 1 .. Len(made) /\ Len(made) \in Nat
        /\ \A k \in 1 .. Len(made) : made'[k] = made[k]
        /\ made'[Len(made) + 1] = o
    BY <1>3, <1>4, <2>1
  <2>3. RestTypeOK'
    BY <1>1, <1>2, <2>1, <2>2 DEF RestTypeOK
  <2>4. ItemsKept'
    BY <1>1, <1>2, <2>1, <2>2 DEF ItemsKept, Creating
  <2>5. RestPhases' /\ UndoneSoFar'
    BY <1>1, <1>2, <1>3, <2>1 DEF RestPhases, UndoneSoFar, Creating
  <2>6. MadeAsKnown'
    BY <1>1, <1>2, <1>4, <2>1, <2>2 DEF MadeAsKnown, Creating
  <2>7. RefusedUntouched' /\ BulkUndone' /\ CreatedAll'
    BY <1>2, <1>3, <2>1 DEF RefusedUntouched, BulkUndone, CreatedAll
  <2> QED
    BY <1>1, <1>2, <2>3, <2>4, <2>5, <2>6, <2>7, ScreenedSame DEF RestInv
<1>7. CASE \E f \in CreateFaults :
             IF rq.body = "bulk"
               THEN restPc' = "undo" /\ fault' = f /\ UNCHANGED <<made, answer>>
               ELSE Answer(f) /\ UNCHANGED <<made, fault>>
  <2>1. PICK f \in {403, 500} :
          IF rq.body = "bulk"
               THEN restPc' = "undo" /\ fault' = f /\ UNCHANGED <<made, answer>>
               ELSE Answer(f) /\ UNCHANGED <<made, fault>>
    BY <1>5, <1>7
  <2>2. made' = made
    BY <2>1
  <2>3. \/ restPc' = "undo" /\ fault' = f /\ answer' = answer
        \/ restPc' = "answer" /\ answer' = f /\ fault' = fault /\ rq.body # "bulk"
    BY <2>1 DEF Answer
  <2>4. RestTypeOK'
    BY <1>1, <1>2, <2>2, <2>3 DEF RestTypeOK
  <2>5. ItemsKept'
    BY <1>1, <1>2, <2>2, <2>3 DEF ItemsKept, Creating
  <2>6. RestPhases'
    BY <1>1, <1>2, <1>3, <2>2, <2>3 DEF RestPhases, Creating
  <2>7. MadeAsKnown'
    BY <1>1, <1>2, <2>2 DEF MadeAsKnown, Creating
  <2>8. UndoneSoFar'
    BY <1>2, <1>3, <2>2, <2>3 DEF UndoneSoFar
  <2>9. rq.body # "bulk" => made = << >>
    BY <1>1, <1>2, <1>3 DEF ItemsKept
  <2>10. RefusedUntouched' /\ BulkUndone' /\ CreatedAll'
    BY <1>2, <1>3, <2>2, <2>3, <2>9 DEF RefusedUntouched, BulkUndone, CreatedAll
  <2> QED
    BY <1>1, <1>2, <2>4, <2>5, <2>6, <2>7, <2>8, <2>10, ScreenedSame DEF RestInv
<1> QED
  BY <1>6, <1>7 DEF Create

LEMMA UndoKept == RestInv /\ (UndoItem \/ Undone) => RestInv'
<1> SUFFICES ASSUME RestInv, UndoItem \/ Undone PROVE RestInv'
  OBVIOUS
<1> USE RestAssumption
<1>1. /\ RestTypeOK /\ ItemsKept /\ RestPhases /\ MadeAsKnown /\ UndoneSoFar
      /\ Screened /\ RefusedUntouched /\ BulkUndone /\ CreatedAll
  BY DEF RestInv
<1>2. restPc = "undo" /\ UNCHANGED <<rq, prepared, fault, noted>>
  BY DEF UndoItem, Undone
<1>3. /\ made \in Seq({"row", "check", "undone"}) /\ Creating /\ fault \in {403, 500} /\ answer = 0
      /\ Len(made) <= Len(rq.items) /\ Len(rq.items) <= MaxItems /\ Len(rq.items) \in Nat
  BY <1>1, <1>2 DEF RestPhases, ItemsKept, RestTypeOK
<1>4. CASE UndoItem
  <2>1. /\ undo <= Len(made) /\ undo' = undo + 1 /\ UNCHANGED <<restPc, answer>>
        /\ \/ /\ made' = [made EXCEPT ![undo] = IF @ = "row" THEN "undone" ELSE @]
              /\ UNCHANGED refused
           \/ refused' = refused \cup {undo} /\ UNCHANGED made
    BY <1>4 DEF UndoItem
  <2>2. undo \in 1 .. Len(made) /\ DOMAIN made = 1 .. Len(made) /\ Len(made) \in Nat
    BY <1>1, <1>3, <2>1 DEF RestTypeOK
  <2>3. /\ made' \in Seq({"row", "check", "undone"}) /\ Len(made') = Len(made)
        /\ DOMAIN made' = DOMAIN made
        /\ \A k \in DOMAIN made : k # undo => made'[k] = made[k]
        /\ made'[undo] = "row" => undo \in refused'
        /\ made'[undo] = "check" => made[undo] = "check"
        /\ refused \subseteq refused' /\ refused' \subseteq refused \cup {undo}
    <3>1. CASE made' = [made EXCEPT ![undo] = IF @ = "row" THEN "undone" ELSE @] /\ UNCHANGED refused
      <4>1. PICK v \in {"row", "check", "undone"} :
              /\ v = IF made[undo] = "row" THEN "undone" ELSE made[undo]
              /\ made' = [made EXCEPT ![undo] = v]
        <5>1. made[undo] \in {"row", "check", "undone"}
          BY <1>3, <2>2
        <5>2. CASE made[undo] = "row"
          BY <3>1, <5>2
        <5>3. CASE made[undo] # "row"
          BY <3>1, <5>1, <5>3
        <5> QED
          BY <5>2, <5>3
      <4> QED
        BY <1>3, <2>2, <3>1, <4>1
    <3>2. CASE refused' = refused \cup {undo} /\ UNCHANGED made
      BY <1>3, <2>2, <3>2
    <3> QED
      BY <2>1, <3>1, <3>2
  <2>4. RestTypeOK'
    BY <1>1, <1>2, <1>3, <2>1, <2>2, <2>3 DEF RestTypeOK
  <2>5. ItemsKept'
    BY <1>1, <1>2, <2>1, <2>3 DEF ItemsKept, Creating
  <2>6. RestPhases'
    BY <1>1, <1>2, <2>1 DEF RestPhases, Creating
  <2>7. MadeAsKnown'
    BY <1>1, <1>2, <2>3 DEF MadeAsKnown, Creating
  <2>8. UndoneSoFar'
    BY <1>1, <1>2, <2>1, <2>2, <2>3 DEF UndoneSoFar
  <2>9. RefusedUntouched' /\ BulkUndone' /\ CreatedAll'
    BY <1>3, <2>1 DEF RefusedUntouched, BulkUndone, CreatedAll
  <2> QED
    BY <1>1, <1>2, <2>4, <2>5, <2>6, <2>7, <2>8, <2>9, ScreenedSame DEF RestInv
<1>5. CASE Undone
  <2>1. /\ UNCHANGED <<made, undo, refused>> /\ restPc' = "answer" /\ answer' \in {403, 500}
        /\ undo > Len(made) \/ rq.res \notin CanDelete
    BY <1>3, <1>5 DEF Undone, Answer
  <2>2. RestTypeOK'
    BY <1>1, <1>2, <2>1 DEF RestTypeOK
  <2>3. ItemsKept'
    BY <1>1, <1>2, <2>1 DEF ItemsKept, Creating
  <2>4. RestPhases' /\ UndoneSoFar'
    BY <1>1, <1>2, <2>1 DEF RestPhases, UndoneSoFar, Creating
  <2>5. MadeAsKnown'
    BY <1>1, <1>2, <2>1 DEF MadeAsKnown, Creating
  <2>6. BulkUndone'
    BY <1>1, <1>2, <1>3, <2>1 DEF BulkUndone, UndoneSoFar, RestTypeOK
  <2>7. RefusedUntouched' /\ CreatedAll'
    BY <2>1 DEF RefusedUntouched, CreatedAll
  <2> QED
    BY <1>1, <1>2, <2>2, <2>3, <2>4, <2>5, <2>6, <2>7, ScreenedSame DEF RestInv
<1> QED
  BY <1>4, <1>5

LEMMA ChangeKept == RestInv /\ (Update \/ Delete) => RestInv'
<1> SUFFICES ASSUME RestInv, Update \/ Delete PROVE RestInv'
  OBVIOUS
<1> USE RestAssumption
<1>1. /\ RestTypeOK /\ ItemsKept /\ RestPhases /\ MadeAsKnown /\ UndoneSoFar
      /\ Screened /\ RefusedUntouched /\ BulkUndone /\ CreatedAll
  BY DEF RestInv
<1>2. /\ restPc = "call" /\ ~Creating /\ UNCHANGED <<rq, prepared, undo, fault, refused>>
      /\ restPc' = "answer" /\ answer' \in {200, 204, 500} /\ noted' \subseteq noted \cup {"end"}
      /\ made' = made \/ (made' = <<"row">> /\ rq.method = "update")
  BY DEF Update, Delete, Answer, Creating
<1>3. rq.items \in Seq(AnyItem) /\ (rq.method = "update" => Len(rq.items) >= 1)
  BY <1>1, <1>2 DEF ItemsKept
<1>4. RestTypeOK'
  <2>1. /\ Len(made') <= Len(rq.items)
        /\ \A i \in DOMAIN made' : made'[i] \in {"row", "check", "undone"}
    <3>1. CASE made' = made
      BY <1>1, <3>1 DEF RestTypeOK
    <3>2. CASE made' = <<"row">> /\ rq.method = "update"
      BY <1>3, <3>2
    <3> QED
      BY <1>2, <3>1, <3>2
  <2> QED
    <3>1. /\ rq' = rq /\ prepared' = prepared /\ undo' = undo /\ fault' = fault /\ refused' = refused
          /\ restPc' = "answer" /\ answer' \in {200, 204, 500} /\ noted' \subseteq noted \cup {"end"}
      BY <1>2
    <3>2. /\ rq.method \in {"none", "create", "update", "delete"} /\ rq.res \in Res
          /\ Len(prepared) <= Len(rq.items) /\ undo \in 1 .. MaxItems + 1
          /\ fault \in {0, 400, 403, 500} /\ refused \subseteq 1 .. MaxItems /\ noted \subseteq {"start", "end"}
      BY <1>1 DEF RestTypeOK
    <3> QED
      BY <2>1, <3>1, <3>2 DEF RestTypeOK
<1>5. ItemsKept'
  <2>1. made \in Seq({"row", "check", "undone"})
    BY <1>1 DEF ItemsKept
  <2>2. made' \in Seq({"row", "check", "undone"})
    <3>1. CASE made' = made
      BY <2>1, <3>1
    <3>2. CASE made' = <<"row">>
      <4>1. <<"row">> \in Seq({"row", "check", "undone"})
        OBVIOUS
      <4> QED
        BY <3>2, <4>1
    <3> QED
      BY <1>2, <3>1, <3>2
  <2>3. IsSequence(prepared)' = IsSequence(prepared)
    BY <1>2 DEF IsSequence
  <2> QED
    BY <1>1, <1>2, <2>2, <2>3 DEF ItemsKept, Creating
<1>6. RestPhases' /\ UndoneSoFar'
  BY <1>1, <1>2 DEF RestPhases, UndoneSoFar, Creating
<1>7. MadeAsKnown'
  BY <1>2 DEF MadeAsKnown, Creating
<1>8. RefusedUntouched' /\ BulkUndone' /\ CreatedAll'
  BY <1>2 DEF RefusedUntouched, BulkUndone, CreatedAll, Creating
<1> QED
  BY <1>1, <1>2, <1>4, <1>5, <1>6, <1>7, <1>8, ScreenedSame DEF RestInv

LEMMA RestKept == RestInv /\ [RestNext]_restVars => RestInv'
<1> SUFFICES ASSUME RestInv, [RestNext]_restVars PROVE RestInv'
  OBVIOUS
<1>1. CASE RestNext
  BY <1>1, ReceiveKept, PrepareKept, HandlingKept, CreateKept, UndoKept, ChangeKept
     DEF RestNext, RestStep
<1>2. CASE UNCHANGED restVars
  <2>1. UNCHANGED <<rq, restPc, prepared, made, undo, fault, refused, noted, answer>>
    BY <1>2 DEF restVars
  <2>2. RestTypeOK' /\ ItemsKept' /\ RestPhases'
    BY <2>1 DEF RestInv, RestTypeOK, ItemsKept, RestPhases, Creating
  <2>3. MadeAsKnown' /\ UndoneSoFar' /\ Screened'
    BY <2>1, ScreenedSame DEF RestInv, MadeAsKnown, UndoneSoFar, Creating
  <2>4. RefusedUntouched' /\ BulkUndone' /\ CreatedAll'
    BY <2>1 DEF RestInv, RefusedUntouched, BulkUndone, CreatedAll, Creating
  <2> QED
    BY <2>2, <2>3, <2>4 DEF RestInv
<1> QED
  BY <1>1, <1>2

(***************************************************************************)
(* WsgiPipeline                                                            *)
(***************************************************************************)

(* Each filter of a pipeline has its place.                                *)
LEMMA PipelineHas ==
  ASSUME NEW p \in Pipelines
  PROVE  /\ p \in Seq(Filter) /\ Len(p) \in Nat /\ DOMAIN p = 1 .. Len(p)
         /\ Len(p) >= 1 /\ p[1] = "request_id"
         /\ \E k \in 1 .. Len(p) : p[k] = "catch_errors"
         /\ \E k \in 1 .. Len(p) : p[k] = "authtoken"
         /\ \E k \in 1 .. Len(p) : p[k] = "keystonecontext"
<1>1. p \in Seq(Filter) /\ p # << >>
  BY PipelineAssumption
<1>2. Len(p) \in Nat /\ DOMAIN p = 1 .. Len(p) /\ Len(p) >= 1
  BY <1>1
<1>3. \A f \in {"catch_errors", "authtoken", "keystonecontext"} : \E k \in DOMAIN p : p[k] = f
  BY PipelineAssumption
<1> QED
  BY <1>1, <1>2, <1>3, PipelineAssumption

LEMMA Lengths == 0 \in 0 .. MaxLength /\ 1 \in 0 .. MaxLength /\ \A n \in 1 .. MaxLength : n \in 0 .. MaxLength
  BY PipelineAssumption

(* What is sent, as webob makes it of the fields that differ.              *)
LEMMA Requests ==
  ASSUME NEW app \in App, NEW a \in Action, NEW e \in Kind \cup {"none", "other"},
         NEW c \in Kind \cup {"none", "other"}, NEW ac \in Kind \cup {"other"},
         NEW b \in Kind \cup {"none", "dtd"}, NEW n \in 0 .. MaxLength, NEW s \in BOOLEAN,
         NEW t \in {"valid", "invalid"}, NEW u \in BOOLEAN, NEW bl \in BOOLEAN, NEW o \in Outcome
  PROVE  [app |-> app, action |-> a, ext |-> e, ctype |-> c, accept |-> ac, body |-> b,
          length |-> n, sized |-> s, token |-> t, user |-> u, blocked |-> bl, outcome |-> o] \in Http
  BY DEF Http

LEMMA Members ==
  /\ "nowhere" \in App /\ "show" \in Action /\ "ok" \in Outcome
  /\ "json" \in Kind /\ "json" \in Kind \cup {"other"} /\ "json" \in Kind \cup {"none", "dtd"}
  /\ "none" \in Kind \cup {"none", "other"} /\ "none" \in Kind \cup {"none", "dtd"}
  /\ {"none", "xml"} \subseteq Kind \cup {"none", "other"}
  /\ Kind \cup {"dtd"} \subseteq Kind \cup {"none", "dtd"}
  BY DEF App, Action, Outcome, Kind

LEMMA HttpStarts == HttpInit => HttpInv
<1> SUFFICES ASSUME HttpInit PROVE HttpInv
  OBVIOUS
<1>1. /\ pipeline \in Pipelines /\ http = NoHttp /\ pos = 0 /\ way = "idle"
      /\ env = [context |-> FALSE, limited |-> FALSE, read |-> 0]
      /\ reply = NoReply /\ called = "no"
  BY DEF HttpInit
<1>2. Len(pipeline) \in Nat
  BY <1>1, PipelineHas
<1>3. NoHttp \in Http
  <2>1. /\ "valid" \in {"valid", "invalid"} /\ TRUE \in BOOLEAN /\ FALSE \in BOOLEAN
    OBVIOUS
  <2> QED
    BY <2>1, Requests, Lengths, Members DEF NoHttp
<1>4. NoReply = [status |-> 0, type |-> "", shape |-> "none", id |-> FALSE]
  BY DEF NoReply, Response
<1>5. HttpTypeOK
  <2>1. env \in Env
    BY <1>1 DEF Env
  <2>2. reply \in Reply
    BY <1>1, <1>4 DEF Reply, Status, Shape
  <2>3. reply.shape # "fault"
    BY <1>1, <1>4
  <2> QED
    BY <1>1, <1>2, <1>3, <2>1, <2>2, <2>3 DEF HttpTypeOK
<1>6. http.length = 0
  BY <1>1 DEF NoHttp
<1>7. PassedFilters
  BY <1>1, <1>6, PipelineAssumption DEF PassedFilters
<1>8. TaggedBehind /\ FaultsOnTheWay /\ TaggedAlways /\ FaultsInKind
  BY <1>1 DEF TaggedBehind, FaultsOnTheWay, TaggedAlways, FaultsInKind, Done
<1>9. NoAnonymousCall /\ DecodedAsAnswered
  BY <1>1 DEF NoAnonymousCall, DecodedAsAnswered, Kind
<1>10. BodyBounded
  BY <1>1, PipelineAssumption DEF BodyBounded
<1> QED
  BY <1>5, <1>7, <1>8, <1>9, <1>10 DEF HttpInv

LEMMA ArriveKept == HttpInv /\ HttpArrive => HttpInv'
<1> SUFFICES ASSUME HttpInv, HttpArrive PROVE HttpInv'
  OBVIOUS
<1>1. PICK r \in Http : HttpReceive(r)
  <2>1. PICK r \in Sent : HttpReceive(r)
    BY DEF HttpArrive
  <2>2. r \in Http
    BY Lengths, Members DEF Sent, Http
  <2> QED
    BY <2>1, <2>2
<1>2. way = "idle" /\ http' = r /\ way' = "down" /\ UNCHANGED <<pipeline, pos, env, reply, called>>
  BY <1>1 DEF HttpReceive
<1>3. pos = 0 /\ env.read = 0 /\ called = "no" /\ reply = NoReply
  BY <1>2 DEF HttpInv, PassedFilters
<1>4. r.length \in Nat
  BY PipelineAssumption DEF Http
<1>5. HttpTypeOK'
  <2>1. HttpTypeOK
    BY DEF HttpInv
  <2>2. way' \in {"idle", "down", "up", "answered"} /\ http' \in Http
    BY <1>1, <1>2
  <2> QED
    BY <1>2, <2>1, <2>2 DEF HttpTypeOK
<1>6. PassedFilters'
  BY <1>2, <1>3, <1>4, PipelineAssumption DEF PassedFilters
<1>7. TaggedBehind' /\ FaultsOnTheWay' /\ TaggedAlways' /\ FaultsInKind'
  BY <1>2 DEF TaggedBehind, FaultsOnTheWay, TaggedAlways, FaultsInKind, Done
<1>8. NoAnonymousCall' /\ DecodedAsAnswered'
  BY <1>2, <1>3 DEF NoAnonymousCall, DecodedAsAnswered, Kind
<1>9. BodyBounded'
  BY <1>2, <1>3, PipelineAssumption DEF BodyBounded
<1> QED
  BY <1>5, <1>6, <1>7, <1>8, <1>9 DEF HttpInv

(* A filter passes a request on, or turns it with an answer of its own.    *)
LEMMA FilterEither ==
  ASSUME HttpTypeOK, FilterDown
  PROVE  /\ way = "down" /\ http.app # "versions" /\ pos < Len(pipeline)
         /\ UNCHANGED <<pipeline, http, called>>
         /\ \/ /\ way' = way /\ reply' = reply /\ pos' = pos + 1
               /\ env' \in Env
               /\ env'.read = env.read
               /\ env.context => env'.context
               /\ env.limited => env'.limited
               /\ pipeline[pos + 1] = "authtoken" => http.token = "valid"
               /\ pipeline[pos + 1] = "keystonecontext" => env'.context
               /\ pipeline[pos + 1] = "sizelimit" =>
                    IF http.sized THEN http.length <= BodyLimit ELSE env'.limited
               /\ env'.limited => env.limited \/ pipeline[pos + 1] = "sizelimit"
            \/ /\ way' = "up" /\ UNCHANGED <<pos, env>>
               /\ \/ reply' = Plain(413) /\ http.sized
                  \/ reply' = Plain(401) /\ (http.token # "valid" \/ ~http.user)
                  \/ reply' = Plain(400) /\ http.blocked
<1>1. /\ way = "down" /\ http.app # "versions" /\ pos < Len(pipeline)
      /\ UNCHANGED <<pipeline, http, called>>
  BY DEF FilterDown
<1>2. env \in Env /\ http \in Http
  BY DEF HttpTypeOK
<1>3. http.length \in Nat
  BY <1>2, PipelineAssumption DEF Http
<1>4. CASE Here = "sizelimit"
  <2>1. SizeLimit
    BY <1>4 DEF FilterDown
  <2>2. pipeline[pos + 1] = "sizelimit"
    BY <1>4 DEF Here
  <2>3. CASE http.sized /\ http.length > BodyLimit
    BY <1>1, <2>1, <2>3 DEF SizeLimit, Turn
  <2>4. CASE http.sized /\ ~(http.length > BodyLimit)
    <3>1. Pass /\ UNCHANGED env
      BY <2>1, <2>4 DEF SizeLimit
    <3> QED
      BY <1>1, <1>2, <1>3, <2>2, <2>4, <3>1, PipelineAssumption DEF Pass
  <2>5. CASE ~http.sized
    <3>1. Pass /\ env' = [env EXCEPT !.limited = TRUE]
      BY <2>1, <2>5 DEF SizeLimit
    <3> QED
      BY <1>1, <1>2, <2>2, <2>5, <3>1 DEF Pass, Env
  <2> QED
    BY <2>3, <2>4, <2>5
<1>5. CASE Here = "keystonecontext"
  <2>1. KeystoneContext
    BY <1>5 DEF FilterDown
  <2>2. pipeline[pos + 1] = "keystonecontext"
    BY <1>5 DEF Here
  <2>3. CASE http.user
    <3>1. Pass /\ env' = [env EXCEPT !.context = TRUE]
      BY <2>1, <2>3 DEF KeystoneContext
    <3> QED
      BY <1>1, <1>2, <2>2, <3>1 DEF Pass, Env
  <2>4. CASE ~http.user
    BY <1>1, <2>1, <2>4 DEF KeystoneContext, Turn
  <2> QED
    BY <2>3, <2>4
<1>6. CASE Here = "authtoken"
  <2>1. AuthToken /\ pipeline[pos + 1] = "authtoken"
    BY <1>6 DEF FilterDown, Here
  <2>2. CASE http.token = "valid"
    BY <1>1, <1>2, <2>1, <2>2 DEF AuthToken, Pass
  <2>3. CASE http.token # "valid"
    BY <1>1, <2>1, <2>3 DEF AuthToken, Turn
  <2> QED
    BY <2>2, <2>3
<1>7. CASE Here = "middleware"
  <2>1. Middleware /\ pipeline[pos + 1] = "middleware"
    BY <1>7 DEF FilterDown, Here
  <2>2. CASE ~http.blocked
    BY <1>1, <1>2, <2>1, <2>2 DEF Middleware, Pass
  <2>3. CASE http.blocked
    BY <1>1, <2>1, <2>3 DEF Middleware, Turn
  <2> QED
    BY <2>2, <2>3
<1>8. CASE Here \notin {"sizelimit", "keystonecontext", "authtoken", "middleware"}
  <2>1. Pass /\ UNCHANGED env
    BY <1>8 DEF FilterDown
  <2> QED
    BY <1>1, <1>2, <1>8, <2>1 DEF Here, Pass
<1> QED
  BY <1>4, <1>5, <1>6, <1>7, <1>8

LEMMA PlainIs ==
  ASSUME NEW status
  PROVE  Plain(status) = [status |-> status, type |-> "text", shape |-> "plain", id |-> FALSE]
  BY DEF Plain, Response

LEMMA ResponseIs ==
  ASSUME NEW status, NEW type, NEW shape
  PROVE  Response(status, type, shape) = [status |-> status, type |-> type, shape |-> shape, id |-> FALSE]
  BY DEF Response

(* What the invariants say of a request on its way down.                   *)
LEMMA DownHas ==
  ASSUME HttpInv, way = "down"
  PROVE  /\ pipeline \in Pipelines /\ pipeline \in Seq(Filter)
         /\ Len(pipeline) \in Nat /\ DOMAIN pipeline = 1 .. Len(pipeline) /\ Len(pipeline) >= 1
         /\ pipeline[1] = "request_id"
         /\ pos \in 0 .. Len(pipeline) /\ env \in Env /\ env.read \in Nat
         /\ http \in Http /\ http.length \in Nat
         /\ called = "no" /\ reply = NoReply
<1>1. HttpTypeOK /\ PassedFilters
  BY DEF HttpInv
<1>2. /\ pipeline \in Pipelines /\ pos \in 0 .. Len(pipeline) /\ env \in Env /\ http \in Http
  BY <1>1 DEF HttpTypeOK
<1>3. http.length \in Nat /\ env.read \in Nat
  BY <1>2, PipelineAssumption DEF Http, Env
<1>4. called = "no" /\ reply = NoReply
  BY <1>1 DEF PassedFilters
<1> QED
  BY <1>2, <1>3, <1>4, PipelineHas

(* An answer on its way up: no exception but behind the filter that        *)
(* catches it, and no method called but behind those that vouch for it.    *)
LEMMA AnswerKept ==
  ASSUME HttpInv, way = "down", way' = "up", UNCHANGED <<pipeline, http, pos, env>>,
         reply' \in Reply, reply'.shape = "fault" => reply'.type \in Kind,
         called' \in Kind \cup {"no", "bodiless"},
         http.app # "versions" => pos >= 1,
         reply'.shape = "raised" \/ called' # "no" => pos = Len(pipeline),
         FaultsOnTheWay', DecodedAsAnswered'
  PROVE  HttpInv'
<1>1. HttpTypeOK /\ PassedFilters /\ BodyBounded
  BY DEF HttpInv
<1>2. /\ pipeline \in Pipelines /\ Len(pipeline) \in Nat /\ DOMAIN pipeline = 1 .. Len(pipeline)
      /\ pos \in 0 .. Len(pipeline)
  BY DownHas
<1>3. HttpTypeOK'
  BY <1>1 DEF HttpTypeOK
<1>4. PassedFilters'
  BY <1>1 DEF PassedFilters
<1>5. TaggedBehind'
  <2>1. ASSUME reply'.shape = "raised" PROVE \E k \in 1 .. pos : pipeline[k] = "catch_errors"
    BY <1>2, <2>1, PipelineHas
  <2>2. pos = 0 => http.app = "versions"
    OBVIOUS
  <2>3. (\E k \in 1 .. pos : pipeline[k] = "catch_errors")' <=> \E k \in 1 .. pos : pipeline[k] = "catch_errors"
    OBVIOUS
  <2> QED
    BY <2>1, <2>2, <2>3 DEF TaggedBehind
<1>6. TaggedAlways' /\ FaultsInKind'
  BY DEF TaggedAlways, FaultsInKind, Done
<1>7. NoAnonymousCall'
  <2>1. ASSUME called' # "no" PROVE http.token = "valid" /\ env.context
    <3>1. pos = Len(pipeline)
      BY <2>1
    <3>2. PICK k \in 1 .. pos : pipeline[k] = "authtoken"
      BY <1>2, <3>1, PipelineHas
    <3>3. PICK j \in 1 .. pos : pipeline[j] = "keystonecontext"
      BY <1>2, <3>1, PipelineHas
    <3> QED
      BY <1>1, <3>2, <3>3 DEF PassedFilters
  <2> QED
    BY <2>1 DEF NoAnonymousCall
<1>8. BodyBounded'
  BY <1>1 DEF BodyBounded
<1> QED
  BY <1>3, <1>4, <1>5, <1>6, <1>7, <1>8 DEF HttpInv

LEMMA FilterDownKept == HttpInv /\ FilterDown => HttpInv'
<1> SUFFICES ASSUME HttpInv, FilterDown PROVE HttpInv'
  OBVIOUS
<1>1. /\ HttpTypeOK /\ PassedFilters /\ BodyBounded
  BY DEF HttpInv
<1>2. /\ way = "down" /\ http.app # "versions" /\ pos < Len(pipeline)
      /\ UNCHANGED <<pipeline, http, called>>
  BY <1>1, FilterEither
<1>3. called = "no" /\ reply = NoReply
  BY <1>2, DownHas
<1>4. /\ Len(pipeline) \in Nat /\ DOMAIN pipeline = 1 .. Len(pipeline) /\ pos \in 0 .. Len(pipeline)
      /\ pipeline[1] = "request_id" /\ env \in Env /\ http.length \in Nat
  BY <1>2, DownHas
<1>5. CASE /\ way' = way /\ reply' = reply /\ pos' = pos + 1
           /\ env' \in Env
           /\ env'.read = env.read
           /\ env.context => env'.context
           /\ env.limited => env'.limited
           /\ pipeline[pos + 1] = "authtoken" => http.token = "valid"
           /\ pipeline[pos + 1] = "keystonecontext" => env'.context
           /\ pipeline[pos + 1] = "sizelimit" =>
                IF http.sized THEN http.length <= BodyLimit ELSE env'.limited
           /\ env'.limited => env.limited \/ pipeline[pos + 1] = "sizelimit"
  <2>1. HttpTypeOK'
    <3>1. pos' \in 0 .. Len(pipeline) /\ env' \in Env /\ way' = "down"
      BY <1>2, <1>4, <1>5
    <3> QED
      BY <1>1, <1>2, <1>5, <3>1 DEF HttpTypeOK
  <2>2. env.read = 0 /\ env'.read = 0 /\ env' \in Env
    BY <1>1, <1>2, <1>5 DEF PassedFilters
  <2>3. PassedFilters'
    <3>1. ASSUME NEW k \in 1 .. pos'
          PROVE  /\ pipeline[k] = "authtoken" => http.token = "valid"
                 /\ pipeline[k] = "keystonecontext" => env'.context
                 /\ pipeline[k] = "sizelimit" =>
                      IF http.sized THEN http.length <= BodyLimit ELSE env'.limited
      <4>1. CASE k \in 1 .. pos
        <5>1. /\ pipeline[k] = "authtoken" => http.token = "valid"
              /\ pipeline[k] = "keystonecontext" => env.context
              /\ pipeline[k] = "sizelimit" =>
                   IF http.sized THEN http.length <= BodyLimit ELSE env.limited
          BY <1>1, <4>1 DEF PassedFilters
        <5> QED
          BY <1>5, <5>1
      <4>2. CASE k = pos + 1
        BY <1>5, <4>2
      <4> QED
        BY <1>4, <1>5, <4>1, <4>2
    <3>2. env'.read <= http.length /\ (env'.limited => env'.read <= BodyLimit)
      BY <1>4, <2>2, PipelineAssumption
    <3> QED
      BY <1>2, <1>3, <1>5, <2>2, <3>1, <3>2 DEF PassedFilters
  <2>4. TaggedBehind' /\ FaultsOnTheWay' /\ TaggedAlways' /\ FaultsInKind'
    BY <1>2, <1>5 DEF TaggedBehind, FaultsOnTheWay, TaggedAlways, FaultsInKind, Done
  <2>5. NoAnonymousCall' /\ DecodedAsAnswered'
    BY <1>2, <1>3 DEF NoAnonymousCall, DecodedAsAnswered, Kind
  <2>6. BodyBounded'
    BY <2>2, PipelineAssumption DEF BodyBounded
  <2> QED
    BY <2>1, <2>3, <2>4, <2>5, <2>6 DEF HttpInv
<1>6. CASE /\ way' = "up" /\ UNCHANGED <<pos, env>>
           /\ \/ reply' = Plain(413) /\ http.sized
              \/ reply' = Plain(401) /\ (http.token # "valid" \/ ~http.user)
              \/ reply' = Plain(400) /\ http.blocked
  <2>1. PICK n \in {400, 401, 413} :
          /\ reply' = [status |-> n, type |-> "text", shape |-> "plain", id |-> FALSE]
          /\ \/ n = 413 /\ http.sized
             \/ http.token # "valid" \/ ~http.user \/ http.blocked
    BY <1>6, PlainIs
  <2>2. reply' \in Reply /\ reply'.shape = "plain" /\ reply'.status = n
    BY <2>1 DEF Reply, Status, Shape
  <2>3. pos >= 1
    <3>1. pos = 0 => pipeline[pos + 1] = "request_id"
      BY <1>4
    <3>2. ASSUME pos = 0 PROVE FALSE
      BY <1>2, <1>4, <1>6, <3>1, <3>2 DEF FilterDown, Here, Pass
    <3> QED
      BY <1>4, <3>2
  <2>4. FaultsOnTheWay'
    BY <1>2, <1>3, <1>6, <2>1, <2>2 DEF FaultsOnTheWay
  <2>5. DecodedAsAnswered'
    BY <1>2, <1>3 DEF DecodedAsAnswered, Kind
  <2> QED
    BY <1>2, <1>3, <1>6, <2>2, <2>3, <2>4, <2>5, AnswerKept
<1> QED
  BY <1>1, <1>5, <1>6, FilterEither

(* What an application answers, in the type asked for.                     *)
LEMMA KindAsked ==
  BestMatch \in Kind
  BY DEF BestMatch, Kind

LEMMA Statuses ==
  /\ 0 \in Status /\ 200 \in Status /\ 201 \in Status /\ 204 \in Status /\ 400 \in Status
  /\ 401 \in Status /\ 404 \in Status /\ 413 \in Status /\ 500 \in Status /\ 501 \in Status
  BY DEF Status

LEMMA Shapes ==
  /\ "none" \in Shape /\ "plain" \in Shape /\ "result" \in Shape /\ "fault" \in Shape
  /\ "raised" \in Shape
  /\ "text" \in Kind \cup {"", "text"} /\ "" \in Kind \cup {"", "text"}
  /\ \A k \in Kind : k \in Kind \cup {"", "text"}
  BY DEF Shape

LEMMA PlainReplies ==
  ASSUME NEW n \in Status
  PROVE  Plain(n) \in Reply /\ Plain(n).status = n /\ Plain(n).shape = "plain"
  BY Shapes DEF Plain, Response, Reply

LEMMA ResultReplies ==
  ASSUME NEW n \in Status
  PROVE  /\ Response(n, BestMatch, "result") \in Reply
         /\ Response(n, BestMatch, "result").status = n
         /\ Response(n, BestMatch, "result").type = BestMatch
         /\ Response(n, BestMatch, "result").shape = "result"
  BY Shapes, KindAsked DEF Response, Reply

LEMMA FaultReplies ==
  ASSUME NEW n \in Status
  PROVE  /\ Fault(n) \in Reply /\ Fault(n).status = n /\ Fault(n).type = BestMatch
         /\ Fault(n).shape = "fault"
  BY Shapes, KindAsked DEF Fault, Response, Reply

LEMMA RaisedReply == Raised \in Reply /\ Raised.shape = "raised" /\ Raised.status = 0
  BY Shapes, Statuses DEF Raised, Response, Reply

LEMMA VersionsKept == HttpInv /\ Versions => HttpInv'
<1> SUFFICES ASSUME HttpInv, Versions PROVE HttpInv'
  OBVIOUS
<1>1. /\ way = "down" /\ http.app = "versions" /\ way' = "up"
      /\ UNCHANGED <<pipeline, http, pos, env, called>>
      /\ reply' = IF http.ext # "none" THEN Plain(404) ELSE Response(200, BestMatch, "result")
  BY DEF Versions, Answers
<1>2. reply' \in Reply /\ reply'.shape \in {"plain", "result"}
  BY <1>1, ResultReplies, PlainReplies, Statuses
<1>3. called = "no"
  BY <1>1, DownHas
<1>4. FaultsOnTheWay' /\ DecodedAsAnswered'
  BY <1>1, <1>3 DEF FaultsOnTheWay, DecodedAsAnswered, Kind
<1> QED
  BY <1>1, <1>2, <1>3, <1>4, AnswerKept

LEMMA DispatchKept == HttpInv /\ RouterDispatch => HttpInv'
<1> SUFFICES ASSUME HttpInv, RouterDispatch PROVE HttpInv'
  OBVIOUS
<1>1. /\ way = "down" /\ http.app # "versions" /\ pos = Len(pipeline)
      /\ http.app = "index" \/ ~Routed
      /\ UNCHANGED <<pipeline, http, pos, env, called>> /\ way' = "up"
      /\ reply' = IF Routed THEN Response(200, BestMatch, "result") ELSE Plain(404)
  BY DEF RouterDispatch, AtRouter, Answers
<1>2. reply' \in Reply /\ reply'.shape \in {"plain", "result"}
  BY <1>1, ResultReplies, PlainReplies, Statuses
<1>3. called = "no" /\ pos >= 1
  BY <1>1, DownHas
<1>4. FaultsOnTheWay' /\ DecodedAsAnswered'
  BY <1>1, <1>3 DEF FaultsOnTheWay, DecodedAsAnswered, Kind, Routed
<1> QED
  BY <1>1, <1>2, <1>3, <1>4, AnswerKept

LEMMA ReadKept == HttpInv /\ ReadBody => HttpInv'
<1> SUFFICES ASSUME HttpInv, ReadBody PROVE HttpInv'
  OBVIOUS
<1>1. PICK n \in 1 .. http.length - env.read :
        IF TooLarge(n)
          THEN Answers(TooLargeAnswer)
          ELSE /\ env' = [env EXCEPT !.read = @ + n]
               /\ UNCHANGED <<pipeline, http, pos, way, reply>>
  BY DEF ReadBody
<1>2. /\ way = "down" /\ http.app # "versions" /\ pos = Len(pipeline)
      /\ http.app \in {"resource", "extension"} /\ called' = called /\ Routed
  BY DEF ReadBody, Calls, AtRouter
<1>3. /\ called = "no" /\ pos >= 1 /\ Len(pipeline) \in Nat /\ env \in Env /\ http \in Http
      /\ env.read \in Nat /\ http.length \in Nat /\ DOMAIN pipeline = 1 .. Len(pipeline)
  BY <1>2, DownHas
<1>4. HttpTypeOK /\ PassedFilters /\ BodyBounded
  BY DEF HttpInv
<1>5. CASE TooLarge(n)
  <2>1. /\ way' = "up" /\ UNCHANGED <<pipeline, http, pos, env>> /\ reply' = TooLargeAnswer
    BY <1>1, <1>5 DEF Answers
  <2>2. /\ reply' \in Reply
        /\ \/ reply'.shape = "fault" /\ reply'.type = BestMatch /\ BestMatch' = BestMatch
           \/ reply'.shape = "plain" /\ http.app # "resource"
    BY <2>1, FaultReplies, PlainReplies, Statuses DEF TooLargeAnswer, BestMatch
  <2>3. FaultsOnTheWay' /\ DecodedAsAnswered'
    BY <1>2, <1>3, <2>1, <2>2 DEF FaultsOnTheWay, DecodedAsAnswered, Kind
  <2> QED
    BY <1>2, <1>3, <2>1, <2>2, <2>3, KindAsked, AnswerKept
<1>6. CASE ~TooLarge(n)
  <2>1. env' = [env EXCEPT !.read = @ + n] /\ UNCHANGED <<pipeline, http, pos, way, reply>>
    BY <1>1, <1>6
  <2>2. /\ env' \in Env /\ env'.read = env.read + n /\ env'.limited = env.limited
        /\ env'.context = env.context
    BY <1>3, <2>1 DEF Env
  <2>3. env'.read <= http.length /\ (env.limited => env'.read <= BodyLimit)
    BY <1>3, <1>6, <2>2, PipelineAssumption DEF TooLarge
  <2>4. HttpTypeOK'
    BY <1>2, <1>4, <2>1, <2>2 DEF HttpTypeOK
  <2>5. PassedFilters'
    BY <1>2, <1>3, <1>4, <2>1, <2>2, <2>3 DEF PassedFilters
  <2>6. TaggedBehind' /\ FaultsOnTheWay' /\ TaggedAlways' /\ FaultsInKind'
    BY <1>2, <2>1 DEF TaggedBehind, FaultsOnTheWay, TaggedAlways, FaultsInKind, Done
  <2>7. NoAnonymousCall' /\ DecodedAsAnswered'
    BY <1>2, <1>3 DEF NoAnonymousCall, DecodedAsAnswered, Kind
  <2>8. BodyBounded'
    <3>1. ASSUME NEW k \in 1 .. Len(pipeline), pipeline[k] = "sizelimit"
          PROVE  env'.read <= BodyLimit
      <4>1. IF http.sized THEN http.length <= BodyLimit ELSE env.limited
        BY <1>2, <1>4, <3>1 DEF PassedFilters
      <4> QED
        BY <1>3, <2>2, <2>3, <4>1, PipelineAssumption
    <3> QED
      BY <1>3, <2>1, <3>1 DEF BodyBounded
  <2> QED
    BY <2>4, <2>5, <2>6, <2>7, <2>8 DEF HttpInv
<1> QED
  BY <1>5, <1>6
(* The answers of a resource, and those of an extended one.                *)
ResourceReplied(r) ==
  /\ r \in Reply /\ (r.shape = "fault" => r.type = BestMatch)
  /\ r.shape = "result" => r.type \in {BestMatch, ""} /\ r.status < 400
  /\ r.shape \in {"fault", "result"} \/ (r = Raised /\ http.outcome = "badresult")
ExtensionReplied(r) ==
  /\ r \in Reply /\ (r.shape = "fault" => r.type = BestMatch)
  /\ r.shape = "result" => r.type = BestMatch

LEMMA FaultReplied == \A n \in Status : ResourceReplied(Fault(n)) /\ ExtensionReplied(Fault(n))
<1> SUFFICES ASSUME NEW n \in Status
             PROVE  ResourceReplied(Fault(n)) /\ ExtensionReplied(Fault(n))
  OBVIOUS
<1>1. PICK r : r = Fault(n)
  OBVIOUS
<1>2. r \in Reply /\ r.type = BestMatch /\ r.shape = "fault"
  BY <1>1, FaultReplies
<1>3. ResourceReplied(r) /\ ExtensionReplied(r)
  BY <1>2 DEF ResourceReplied, ExtensionReplied
<1> QED
  BY <1>1, <1>3

LEMMA RaisedReplied ==
  /\ http.outcome = "badresult" => ResourceReplied(Raised)
  /\ ExtensionReplied(Raised)
<1>1. PICK r : r = Raised
  OBVIOUS
<1>2. r \in Reply /\ r.shape = "raised"
  BY <1>1, RaisedReply
<1>3. ExtensionReplied(r) /\ (http.outcome = "badresult" => ResourceReplied(r))
  BY <1>1, <1>2 DEF ResourceReplied, ExtensionReplied
<1> QED
  BY <1>1, <1>3

LEMMA CallKept == HttpInv /\ CallResource => HttpInv'
<1> SUFFICES ASSUME HttpInv, CallResource PROVE HttpInv'
  OBVIOUS
<1>1. /\ way = "down" /\ http.app # "versions" /\ pos = Len(pipeline)
      /\ http.app \in {"resource", "extension"} /\ Routed
      /\ UNCHANGED <<pipeline, http, pos, env>> /\ way' = "up"
      /\ reply' = IF http.app = "resource" THEN ResourceReply ELSE ExtensionReply
      /\ called' = IF Decoded \in {"malformed", "error"} THEN "no" ELSE Decoded
  BY DEF CallResource, Calls, AtRouter, Answers
<1>2. http \in Http /\ pos >= 1 /\ http.outcome \in Outcome /\ http.body \in Kind \cup {"none", "dtd"}
  BY <1>1, DownHas DEF Http
<1>3. Decoded \in Kind \cup {"bodiless", "malformed", "error"} /\ (Decoded \in Kind => http.body = Decoded /\ Decoded = BestMatch)
  BY KindAsked DEF Decoded, DecodeType, Kind
<1>4. ASSUME http.app = "resource"
      PROVE  ResourceReplied(reply')
  <2>1. reply' = ResourceReply
    BY <1>1, <1>4
  <2>2. CASE Decoded \in {"malformed", "error"}
    <3>1. PICK n \in {400, 500} : reply' = Fault(n)
      BY <2>1, <2>2 DEF ResourceReply
    <3>2. n \in Status
      BY Statuses
    <3> QED
      BY <3>1, <3>2, FaultReplied
  <2>3. CASE Decoded \notin {"malformed", "error"} /\ http.outcome \in {"notfound", "http", "notimpl", "unmapped", "crash", "badargs"}
    <3>1. PICK n \in {400, 404, 500, 501} : reply' = Fault(n)
      <4>1. reply' = MethodReply
        BY <2>1, <2>3 DEF ResourceReply
      <4>2. CASE http.outcome = "notfound"
        BY <4>1, <4>2 DEF MethodReply
      <4>3. CASE http.outcome = "http"
        BY <4>1, <4>3 DEF MethodReply
      <4>4. CASE http.outcome = "notimpl"
        BY <4>1, <4>4 DEF MethodReply
      <4>5. CASE http.outcome \in {"unmapped", "crash", "badargs"}
        <5>1. reply' = Fault(500)
          BY <4>1, <4>5 DEF MethodReply
        <5> QED
          BY <5>1
      <4> QED
        BY <2>3, <4>2, <4>3, <4>4, <4>5
    <3>2. n \in Status
      BY Statuses
    <3> QED
      BY <3>1, <3>2, FaultReplied
  <2>4. CASE Decoded \notin {"malformed", "error"} /\ http.outcome \in {"ok", "none", "path"}
    <3>1. PICK n \in {200, 201, 204} :
            reply' \in {Response(n, BestMatch, "result"), Response(200, "", "result")}
      <4>1. Success \in {200, 201, 204}
        BY DEF Success
      <4>2. reply' = MethodReply
        BY <2>1, <2>4 DEF ResourceReply
      <4>3. reply' \in {Response(Success, BestMatch, "result"), Response(200, "", "result")}
        BY <2>4, <4>2 DEF MethodReply
      <4> QED
        BY <4>1, <4>3
    <3>3. n \in Status /\ n < 400 /\ 200 < 400
      BY Statuses
    <3>2. Response(200, "", "result") \in Reply /\ Response(200, "", "result").type = ""
          /\ Response(200, "", "result").shape = "result" /\ Response(200, "", "result").status = 200
      BY Shapes, Statuses DEF Response, Reply
    <3>4. reply' = Response(n, BestMatch, "result") \/ reply' = Response(200, "", "result")
      BY <3>1
    <3>5. CASE reply' = Response(n, BestMatch, "result")
      <4>1. /\ reply' \in Reply /\ reply'.type = BestMatch /\ reply'.shape = "result"
            /\ reply'.status = n
        BY <3>3, <3>5, ResultReplies
      <4> QED
        BY <3>3, <4>1 DEF ResourceReplied
    <3>6. CASE reply' = Response(200, "", "result")
      <4>1. /\ reply' \in Reply /\ reply'.type = "" /\ reply'.shape = "result"
            /\ reply'.status = 200
        BY <3>2, <3>6
      <4> QED
        BY <3>3, <4>1 DEF ResourceReplied
    <3> QED
      BY <3>4, <3>5, <3>6
  <2>5. CASE Decoded \notin {"malformed", "error"} /\ http.outcome = "badresult"
    <3>1. reply' = Raised
      BY <2>1, <2>5 DEF ResourceReply, MethodReply
    <3> QED
      BY <2>5, <3>1, RaisedReplied
  <2> QED
    BY <1>2, <2>2, <2>3, <2>4, <2>5 DEF Outcome
<1>5. ASSUME http.app = "extension"
      PROVE  ExtensionReplied(reply')
  <2>1. reply' = ExtensionReply
    BY <1>1, <1>5
  <2>2. CASE \/ Decoded = "malformed"
             \/ Decoded \notin {"malformed", "error"} /\ http.outcome \in {"http", "badargs", "notfound", "unmapped",
                                                                           "notimpl", "crash"}
    <3>1. PICK n \in {400, 404, 500, 501} : reply' = Fault(n)
      BY <2>1, <2>2 DEF ExtensionReply
    <3>2. n \in Status
      BY Statuses
    <3> QED
      BY <3>1, <3>2, FaultReplied
  <2>3. CASE \/ Decoded = "error"
             \/ Decoded \notin {"malformed", "error"} /\ http.outcome = "badresult"
    <3>1. reply' = Raised
      BY <2>1, <2>3 DEF ExtensionReply
    <3> QED
      BY <3>1, RaisedReplied
  <2>4. CASE Decoded \notin {"malformed", "error"} /\ http.outcome \in {"ok", "path"}
    <3>1. PICK n \in Status : reply' = Response(n, BestMatch, "result")
      BY <2>1, <2>4, Statuses DEF ExtensionReply
    <3> QED
      BY <3>1, ResultReplies DEF ExtensionReplied
  <2>5. CASE Decoded \notin {"malformed", "error"} /\ http.outcome = "none"
    <3>1. reply' = Response(200, BestMatch, "none")
      BY <2>1, <2>5 DEF ExtensionReply
    <3>2. Response(200, BestMatch, "none") \in Reply /\ Response(200, BestMatch, "none").shape = "none"
      BY Shapes, Statuses, KindAsked DEF Response, Reply
    <3> QED
      BY <3>1, <3>2 DEF ExtensionReplied
  <2>6. http.outcome \in {"ok", "path", "none", "notfound", "unmapped", "http", "notimpl",
                           "badargs", "crash", "badresult"}
    BY <1>2 DEF Outcome
  <2> QED
    BY <1>2, <2>2, <2>3, <2>4, <2>5, <2>6
<1>6. BestMatch' = BestMatch /\ called' \in Kind \cup {"no", "bodiless"}
  BY <1>1, <1>3 DEF BestMatch
<1>7. reply' \in Reply /\ (reply'.shape = "fault" => reply'.type \in Kind)
  <2>1. CASE http.app = "resource"
    BY <1>4, <2>1, KindAsked DEF ResourceReplied
  <2>2. CASE http.app = "extension"
    BY <1>5, <2>2, KindAsked DEF ExtensionReplied
  <2> QED
    BY <1>1, <2>1, <2>2
<1>8. FaultsOnTheWay'
  <2>1. ASSUME http.app = "resource", reply'.status >= 400 \/ reply'.shape = "raised"
        PROVE  \/ reply'.shape = "fault" /\ reply'.type = BestMatch
               \/ http.outcome = "badresult"
    <3>1. CASE reply'.shape = "result"
      <4>1. reply'.status \in Status /\ reply'.status < 400
        BY <1>4, <1>7, <2>1, <3>1 DEF Reply, ResourceReplied
      <4>2. ~(reply'.status >= 400)
        BY <4>1 DEF Status
      <4> QED
        BY <2>1, <3>1, <4>2
    <3>2. CASE reply'.shape # "result"
      BY <1>4, <2>1, <3>2 DEF ResourceReplied
    <3> QED
      BY <3>1, <3>2
  <2> QED
    BY <1>1, <1>6, <2>1 DEF FaultsOnTheWay
<1>9. DecodedAsAnswered'
  BY <1>1, <1>3, <1>4, <1>5 DEF DecodedAsAnswered, Kind, ResourceReplied, ExtensionReplied
<1> QED
  BY <1>1, <1>2, <1>6, <1>7, <1>8, <1>9, AnswerKept

LEMMA ControllerKept == HttpInv /\ CallController => HttpInv'
<1> SUFFICES ASSUME HttpInv, CallController PROVE HttpInv'
  OBVIOUS
<1>1. /\ way = "down" /\ http.app = "controller" /\ pos = Len(pipeline)
      /\ UNCHANGED <<pipeline, http, pos, env>> /\ way' = "up" /\ called' = "bodiless"
      /\ reply' = CASE http.outcome \in {"ok", "path"} -> Response(200, BestMatch, "result")
                    [] http.outcome = "none" -> Response(204, "", "none")
                    [] http.outcome = "http" -> Plain(400)
                    [] OTHER -> Raised
  BY DEF CallController, Calls, AtRouter, Answers
<1>2. pos >= 1
  BY <1>1, DownHas
<1>3. \/ reply' = Response(200, BestMatch, "result") \/ reply' = Response(204, "", "none")
      \/ reply' = Plain(400) \/ reply' = Raised
  BY <1>1
<1>4. Response(204, "", "none") \in Reply /\ Response(204, "", "none").shape = "none"
  BY Shapes, Statuses DEF Response, Reply
<1>5. reply' \in Reply /\ reply'.shape # "fault"
  <2>1. Response(200, BestMatch, "result") \in Reply /\ Response(200, BestMatch, "result").shape = "result"
    BY ResultReplies, Statuses
  <2>2. Plain(400) \in Reply /\ Plain(400).shape = "plain"
    BY PlainReplies, Statuses
  <2>3. CASE reply' = Response(200, BestMatch, "result")
    BY <2>1, <2>3
  <2>4. CASE reply' = Response(204, "", "none")
    BY <1>4, <2>4
  <2>5. CASE reply' = Plain(400)
    BY <2>2, <2>5
  <2>6. CASE reply' = Raised
    BY <2>6, RaisedReply
  <2> QED
    BY <1>3, <2>3, <2>4, <2>5, <2>6
<1>6. FaultsOnTheWay' /\ DecodedAsAnswered'
  BY <1>1 DEF FaultsOnTheWay, DecodedAsAnswered, Kind
<1> QED
  BY <1>1, <1>2, <1>5, <1>6, AnswerKept

LEMMA UpKept == HttpInv /\ FilterUp => HttpInv'
<1> SUFFICES ASSUME HttpInv, FilterUp PROVE HttpInv'
  OBVIOUS
<1>1. /\ way = "up" /\ way' = "up" /\ http.app # "versions" /\ pos > 0 /\ pos' = pos - 1
      /\ UNCHANGED <<pipeline, http, env, called>>
      /\ reply' = CASE pipeline[pos] = "catch_errors" -> CatchErrors(reply)
                    [] pipeline[pos] = "request_id" /\ reply.shape # "raised" ->
                         [reply EXCEPT !.id = TRUE]
                    [] OTHER -> reply
  BY DEF FilterUp
<1>2. /\ HttpTypeOK /\ PassedFilters /\ TaggedBehind /\ FaultsOnTheWay /\ NoAnonymousCall
      /\ BodyBounded /\ DecodedAsAnswered
  BY DEF HttpInv
<1>3. /\ pipeline \in Pipelines /\ pos \in 0 .. Len(pipeline) /\ reply \in Reply
  BY <1>2 DEF HttpTypeOK
<1>4. /\ Len(pipeline) \in Nat /\ DOMAIN pipeline = 1 .. Len(pipeline) /\ pipeline[1] = "request_id"
  BY <1>3, PipelineHas
<1>5. \/ pipeline[pos] = "catch_errors" /\ reply.shape = "raised" /\ reply' = Plain(500)
      \/ reply' \in {reply, [reply EXCEPT !.id = TRUE]}
         /\ (pipeline[pos] = "catch_errors" => reply.shape # "raised")
         /\ (pipeline[pos] = "request_id" /\ reply.shape # "raised" => reply' = [reply EXCEPT !.id = TRUE])
  BY <1>1 DEF CatchErrors
<1>6. \/ /\ pipeline[pos] = "catch_errors" /\ reply.shape = "raised"
         /\ reply' \in Reply /\ reply'.shape = "plain"
      \/ /\ reply' \in Reply /\ reply'.shape = reply.shape /\ reply'.type = reply.type
         /\ reply'.status = reply.status
         /\ pipeline[pos] = "catch_errors" => reply.shape # "raised"
         /\ pipeline[pos] = "request_id" /\ reply.shape # "raised" => reply'.id
  <2>1. CASE pipeline[pos] = "catch_errors" /\ reply.shape = "raised" /\ reply' = Plain(500)
    BY <2>1, PlainReplies, Statuses
  <2>2. CASE /\ reply' \in {reply, [reply EXCEPT !.id = TRUE]}
             /\ (pipeline[pos] = "catch_errors" => reply.shape # "raised")
             /\ (pipeline[pos] = "request_id" /\ reply.shape # "raised" => reply' = [reply EXCEPT !.id = TRUE])
    <3>1. [reply EXCEPT !.id = TRUE] \in Reply /\ [reply EXCEPT !.id = TRUE].id = TRUE
          /\ [reply EXCEPT !.id = TRUE].shape = reply.shape /\ [reply EXCEPT !.id = TRUE].type = reply.type
          /\ [reply EXCEPT !.id = TRUE].status = reply.status
      BY <1>3 DEF Reply
    <3> QED
      BY <1>3, <2>2, <3>1
  <2> QED
    BY <1>5, <2>1, <2>2
<1>7. HttpTypeOK'
  <2>1. pos' \in 0 .. Len(pipeline) /\ (reply'.shape = "fault" => reply'.type \in Kind)
    BY <1>1, <1>2, <1>3, <1>4, <1>6 DEF HttpTypeOK
  <2>2. reply' \in Reply
    BY <1>6
  <2> QED
    BY <1>1, <1>2, <2>1, <2>2 DEF HttpTypeOK
<1>8. PassedFilters'
  <2>1. \A k \in 1 .. pos' : k \in 1 .. pos
    BY <1>1, <1>3, <1>4
  <2> QED
    BY <1>1, <1>2, <2>1 DEF PassedFilters
<1>9. TaggedBehind'
  <2>1. ASSUME reply'.shape = "raised" PROVE \E k \in 1 .. pos' : pipeline[k] = "catch_errors"
    <3>1. reply.shape = "raised" /\ pipeline[pos] # "catch_errors"
      BY <1>6, <2>1
    <3>2. PICK k \in 1 .. pos : pipeline[k] = "catch_errors"
      BY <1>1, <1>2, <3>1 DEF TaggedBehind
    <3>3. k \in 1 .. pos'
      BY <1>1, <1>3, <1>4, <3>1, <3>2
    <3> QED
      BY <3>2, <3>3
  <2>2. ASSUME pos' = 0 PROVE reply'.id /\ reply'.shape # "raised"
    <3>1. pos = 1 /\ pipeline[pos] = "request_id"
      BY <1>1, <1>3, <1>4, <2>2
    <3>2. reply'.shape # "raised"
      BY <1>1, <1>4, <2>1, <2>2
    <3> QED
      BY <1>6, <3>1, <3>2
  <2>3. (\E k \in 1 .. pos : pipeline[k] = "catch_errors")' <=> \E k \in 1 .. pos' : pipeline[k] = "catch_errors"
    BY <1>1
  <2> QED
    BY <1>1, <2>1, <2>2, <2>3 DEF TaggedBehind
<1>10. FaultsOnTheWay'
  <2>1. reply'.status >= 400 \/ reply'.shape = "raised" => reply.status >= 400 \/ reply.shape = "raised"
    BY <1>6
  <2>2. BestMatch' = BestMatch /\ (Routed' <=> Routed)
    BY <1>1 DEF BestMatch, Routed
  <2>3. ASSUME reply.shape = "raised", http.app = "resource"
        PROVE  \/ called = "no" /\ (http.token # "valid" \/ ~http.user \/ http.blocked)
               \/ http.outcome = "badresult" \/ ~Routed
    BY <1>1, <1>2, <2>3 DEF FaultsOnTheWay
  <2>4. CASE reply.shape = "raised" /\ pipeline[pos] = "catch_errors"
    BY <1>1, <2>2, <2>3, <2>4 DEF FaultsOnTheWay
  <2>5. CASE reply'.shape = reply.shape /\ reply'.type = reply.type /\ reply'.status = reply.status
    BY <1>1, <1>2, <2>1, <2>2, <2>5 DEF FaultsOnTheWay
  <2> QED
    BY <1>6, <2>4, <2>5
<1>11. TaggedAlways' /\ FaultsInKind' /\ NoAnonymousCall'
  BY <1>1, <1>2 DEF TaggedAlways, FaultsInKind, Done, NoAnonymousCall
<1>12. BodyBounded'
  BY <1>1, <1>2, <1>3, <1>4 DEF BodyBounded
<1>13. DecodedAsAnswered'
  BY <1>1, <1>2, <1>6 DEF DecodedAsAnswered
<1> QED
  BY <1>7, <1>8, <1>9, <1>10, <1>11, <1>12, <1>13 DEF HttpInv

LEMMA AnsweredKept == HttpInv /\ Answered => HttpInv'
<1> SUFFICES ASSUME HttpInv, Answered PROVE HttpInv'
  OBVIOUS
<1>1. /\ way = "up" /\ way' = "answered" /\ (pos = 0 \/ http.app = "versions")
      /\ UNCHANGED <<pipeline, http, pos, env, reply, called>>
  BY DEF Answered
<1>2. /\ HttpTypeOK /\ PassedFilters /\ TaggedBehind /\ FaultsOnTheWay /\ NoAnonymousCall
      /\ BodyBounded /\ DecodedAsAnswered
  BY DEF HttpInv
<1>3. HttpTypeOK' /\ PassedFilters'
  BY <1>1, <1>2 DEF HttpTypeOK, PassedFilters
<1>4. TaggedBehind' /\ TaggedAlways'
  BY <1>1, <1>2 DEF TaggedBehind, TaggedAlways
<1>5. FaultsOnTheWay' /\ FaultsInKind'
  BY <1>1, <1>2 DEF FaultsOnTheWay, FaultsInKind, Done, BestMatch, Routed
<1>6. NoAnonymousCall' /\ BodyBounded' /\ DecodedAsAnswered'
  BY <1>1, <1>2 DEF NoAnonymousCall, BodyBounded, DecodedAsAnswered
<1> QED
  BY <1>3, <1>4, <1>5, <1>6 DEF HttpInv

(* A request keeps what it owes to the filters, and its answer what the    *)
(* client can rely on, at every step through the pipeline.                 *)
LEMMA HttpKept == HttpInv /\ [HttpNext]_httpVars => HttpInv'
<1>1. HttpInv /\ UNCHANGED httpVars => HttpInv'
  <2> SUFFICES ASSUME HttpInv, UNCHANGED httpVars PROVE HttpInv'
    OBVIOUS
  <2>1. UNCHANGED <<pipeline, http, pos, way, env, reply, called>>
    BY DEF httpVars
  <2>2. /\ HttpTypeOK /\ PassedFilters /\ TaggedBehind /\ FaultsOnTheWay /\ NoAnonymousCall
        /\ TaggedAlways /\ FaultsInKind /\ BodyBounded /\ DecodedAsAnswered
    BY DEF HttpInv
  <2>3. HttpTypeOK' /\ PassedFilters'
    BY <2>1, <2>2 DEF HttpTypeOK, PassedFilters
  <2>4. TaggedBehind' /\ TaggedAlways' /\ FaultsOnTheWay' /\ FaultsInKind'
    BY <2>1, <2>2 DEF TaggedBehind, TaggedAlways, FaultsOnTheWay, FaultsInKind, Done, BestMatch, Routed
  <2>5. NoAnonymousCall' /\ BodyBounded' /\ DecodedAsAnswered'
    BY <2>1, <2>2 DEF NoAnonymousCall, BodyBounded, DecodedAsAnswered
  <2> QED
    BY <2>3, <2>4, <2>5 DEF HttpInv
<1> QED
  BY <1>1, ArriveKept, FilterDownKept, VersionsKept, DispatchKept, ReadKept, CallKept, ControllerKept,
     UpKept, AnsweredKept DEF HttpNext

(***************************************************************************)
(* AttributeRules                                                          *)
(***************************************************************************)

(* A conversion makes one value of another, or raises.                     *)
LEMMA ConvertedOne ==
  ASSUME NEW how \in How, NEW v, NEW x \in Converted(how, v), NEW y \in Converted(how, v)
  PROVE  x = y
<1>1. \A m, n \in Number(v) : m = n
  BY DEF Number
<1>2. \A b, c \in BooleanOf(v) : b = c
  <2>1. CASE v.type = "bool"
    BY <2>1 DEF BooleanOf
  <2>2. CASE v.type = "int"
    <3>1. BooleanOf(v) = IF v.n \in 0 .. 1 THEN {v.n = 1} ELSE {}
      BY <2>2 DEF BooleanOf
    <3> QED
      BY <3>1
  <2>3. CASE v.type \notin {"bool", "int"}
    <3>1. BooleanOf(v) \in {{TRUE}, {FALSE}, {}}
      BY <2>3 DEF BooleanOf
    <3> QED
      BY <3>1
  <2> QED
    BY <2>1, <2>2, <2>3
<1>3. CASE how = "int"
  BY <1>1, <1>3 DEF Converted
<1>4. CASE how = "boolean"
  BY <1>2, <1>4 DEF Converted
<1>5. CASE how = "boolean if not none"
  <2>1. CASE v.type = "none"
    BY <1>5, <2>1 DEF Converted
  <2>2. CASE v.type # "none"
    <3>1. Converted(how, v) = {ABool(b) : b \in BooleanOf(v)}
      BY <1>5, <2>2 DEF Converted
    <3> QED
      BY <1>2, <3>1
  <2> QED
    BY <2>1, <2>2
<1>6. CASE how \in {"none", "list", "none to list"}
  <2>1. \E z : Converted(how, v) = {z}
    BY <1>6 DEF Converted
  <2> QED
    BY <2>1
<1> QED
  BY <1>3, <1>4, <1>5, <1>6 DEF How

(* A value that was converted is of the type it was converted to, and      *)
(* converting it again changes nothing.                                    *)
LEMMA ConvertedTwice ==
  ASSUME NEW how \in How, NEW v, NEW x \in Converted(how, v)
  PROVE  /\ Converted(how, x) = {x}
         /\ how = "int" => x.type = "int"
         /\ how = "boolean" => x.type = "bool"
         /\ how = "list" => x.type = "list"
<1>1. CASE how = "none"
  BY <1>1 DEF Converted
<1>2. CASE how = "int"
  <2>1. PICK n \in Number(v) : x = AnInt(n)
    BY <1>2 DEF Converted
  <2>2. x.type = "int" /\ x.n = n
    BY <2>1 DEF AnInt
  <2>3. Number(x) = {n}
    BY <2>2 DEF Number
  <2> QED
    BY <1>2, <2>1, <2>2, <2>3 DEF Converted
<1>3. ASSUME NEW b, x = ABool(b)
      PROVE  x.type = "bool" /\ {ABool(c) : c \in BooleanOf(x)} = {x}
  <2>1. x.type = "bool" /\ x.b = b
    BY <1>3 DEF ABool
  <2>2. BooleanOf(x) = {b}
    BY <2>1 DEF BooleanOf
  <2> QED
    BY <1>3, <2>1, <2>2
<1>4. CASE how = "boolean"
  <2>1. PICK b \in BooleanOf(v) : x = ABool(b)
    BY <1>4 DEF Converted
  <2>2. x.type = "bool" /\ {ABool(c) : c \in BooleanOf(x)} = {x}
    BY <1>3, <2>1
  <2> QED
    BY <1>4, <2>2 DEF Converted
<1>5. CASE how = "boolean if not none"
  <2>1. CASE v.type = "none"
    BY <1>5, <2>1 DEF Converted
  <2>2. CASE v.type # "none"
    <3>1. PICK b \in BooleanOf(v) : x = ABool(b)
      BY <1>5, <2>2 DEF Converted
    <3>2. x.type = "bool" /\ {ABool(c) : c \in BooleanOf(x)} = {x}
      BY <1>3, <3>1
    <3> QED
      BY <1>5, <3>2 DEF Converted
  <2> QED
    BY <2>1, <2>2
<1>6. CASE how = "list"
  <2>1. x = AsList(v)
    BY <1>6 DEF Converted
  <2>2. x.type = "list"
    BY <2>1 DEF AsList, AList
  <2>3. AsList(x) = x
    BY <2>2 DEF AsList
  <2> QED
    BY <1>6, <2>2, <2>3 DEF Converted
<1>7. CASE how = "none to list"
  <2>1. x = IF v.type = "none" THEN AList(<< >>) ELSE v
    BY <1>7 DEF Converted
  <2>2. x.type # "none"
    BY <2>1 DEF AList
  <2> QED
    BY <1>7, <2>2 DEF Converted
<1> QED
  BY <1>1, <1>2, <1>4, <1>5, <1>6, <1>7 DEF How

LEMMA RuleStarts == RuleInit => RuleInv
<1> SUFFICES ASSUME RuleInit PROVE RuleInv
  OBVIOUS
<1>1. /\ spec \in RuleSpecs /\ data = before /\ rulePc = "keys" /\ toCheck = {} /\ round = 1
      /\ pairs \in Lists /\ kvp = [pc |-> "making", at |-> 0, map |-> << >>]
  BY DEF RuleInit
<1>2. kvp.pc = "making" /\ kvp.at = 0 /\ kvp.map = << >> /\ DOMAIN kvp.map = {}
  BY <1>1
<1>3. Len(pairs) \in Nat
  BY <1>1, RuleAssumption
<1>4. RuleTypeOK
  BY <1>1, <1>2 DEF RuleTypeOK
<1>5. CheckedSoFar /\ VerdictFixed /\ TakenAsRuled /\ TakenAgain
  BY <1>1 DEF CheckedSoFar, FoundGood, VerdictFixed, TakenAsRuled, TakenAgain
<1>6. CollectedSoFar /\ PairsKept
  BY <1>1, <1>2, <1>3 DEF CollectedSoFar, PairsKept
<1> QED
  BY <1>4, <1>5, <1>6 DEF RuleInv

(* What was found good is as ruled, and is found good again.               *)
LEMMA GoodIsRuled ==
  ASSUME RuleTypeOK, CheckedSoFar, NEW k \in DOMAIN spec \cap DOMAIN data, FoundGood(k)
  PROVE  /\ Passes(spec[k], data[k]) /\ MayPass(k)
         /\ Converted(spec[k].convert, data[k]) = {data[k]}
         /\ spec[k].convert = "int" => data[k].type = "int"
         /\ spec[k].convert = "boolean" => data[k].type = "bool"
         /\ spec[k].convert = "list" => data[k].type = "list"
<1>1. spec[k].convert \in How
  BY RuleAssumption DEF RuleTypeOK
<1>2. data[k] \in Converted(spec[k].convert, before[k]) /\ Passes(spec[k], data[k])
  BY DEF CheckedSoFar
<1>3. MayPass(k)
  BY <1>2 DEF MayPass
<1> QED
  BY <1>1, <1>2, <1>3, ConvertedTwice

(* A number that passes its range is within its limits.                    *)
LEMMA RangeIsKept ==
  ASSUME NEW r, NEW v, Passes(r, v), r.rule = "range", v.type = "int"
  PROVE  (r.lo # NoLimit => v.n >= r.lo) /\ (r.hi # NoLimit => v.n <= r.hi)
<1>1. Satisfies(r, v)
  BY DEF Passes
<1>2. PICK n \in Number(v) : Within(n, r.lo, r.hi)
  BY <1>1 DEF Satisfies
<1>3. n = v.n
  BY <1>2 DEF Number
<1> QED
  BY <1>2, <1>3 DEF Within

(* So the rest of the invariant follows once the verdict is "accepted".    *)
LEMMA TakenFollows ==
  ASSUME RuleTypeOK, CheckedSoFar
  PROVE  /\ rulePc = "accepted" => VerdictFixed
         /\ TakenAsRuled
         /\ round = 2 => \A k \in DOMAIN spec \cap DOMAIN data :
                           Converted(spec[k].convert, data[k]) = {data[k]}
<1>1. ASSUME rulePc = "accepted" PROVE VerdictFixed
  <2>1. ASSUME NEW k \in DOMAIN spec
        PROVE  IF k \in DOMAIN before THEN MayPass(k) ELSE ~spec[k].required
    <3>1. FoundGood(k)
      BY <1>1 DEF FoundGood, CheckedSoFar
    <3>2. CASE k \in DOMAIN before
      <4>1. k \in DOMAIN spec \cap DOMAIN data
        BY <3>2 DEF RuleTypeOK
      <4> QED
        BY <3>1, <3>2, <4>1, GoodIsRuled
    <3>3. CASE k \notin DOMAIN before
      BY <1>1, <3>3 DEF CheckedSoFar, RuleTypeOK
    <3> QED
      BY <3>2, <3>3
  <2> QED
    BY <1>1, <2>1 DEF VerdictFixed
<1>2. TakenAsRuled
  <2> SUFFICES ASSUME rulePc = "accepted", NEW k \in DOMAIN spec \cap DOMAIN data
               PROVE  /\ spec[k].convert = "int" => data[k].type = "int"
                      /\ spec[k].convert = "boolean" => data[k].type = "bool"
                      /\ spec[k].convert = "list" => data[k].type = "list"
                      /\ spec[k].rule = "range" /\ data[k].type = "int" =>
                           /\ spec[k].lo # NoLimit => data[k].n >= spec[k].lo
                           /\ spec[k].hi # NoLimit => data[k].n <= spec[k].hi
    BY DEF TakenAsRuled
  <2>1. FoundGood(k)
    BY DEF FoundGood, CheckedSoFar
  <2> QED
    BY <2>1, GoodIsRuled, RangeIsKept
<1>3. ASSUME round = 2, NEW k \in DOMAIN spec \cap DOMAIN data
      PROVE  Converted(spec[k].convert, data[k]) = {data[k]}
  BY <1>3, GoodIsRuled DEF FoundGood
<1> QED
  BY <1>1, <1>2, <1>3

LEMMA TakenThen ==
  RuleTypeOK' /\ CheckedSoFar' =>
    /\ (rulePc = "accepted" => VerdictFixed)' /\ TakenAsRuled'
    /\ (round = 2 => \A k \in DOMAIN spec \cap DOMAIN data :
                       Converted(spec[k].convert, data[k]) = {data[k]})'
  BY TakenFollows, PTL

LEMMA KeysKept == RuleInv /\ VerifyDictKeys => RuleInv'
<1> SUFFICES ASSUME RuleInv, VerifyDictKeys PROVE RuleInv'
  OBVIOUS
<1>1. /\ RuleTypeOK /\ CheckedSoFar /\ CollectedSoFar /\ TakenAgain /\ PairsKept
  BY DEF RuleInv
<1>2. /\ rulePc = "keys" /\ UNCHANGED <<spec, data, before, round, pairs, kvp>>
      /\ rulePc' = IF \A k \in DOMAIN spec : spec[k].required => k \in DOMAIN data
                   THEN "checking" ELSE "refused"
      /\ toCheck' = IF rulePc' = "checking" THEN DOMAIN spec \cap DOMAIN data ELSE {}
  BY DEF VerifyDictKeys
<1>3. round = 2 => rulePc' = "checking"
  BY <1>1, <1>2 DEF CheckedSoFar
<1>4. RuleTypeOK'
  BY <1>1, <1>2 DEF RuleTypeOK
<1>5. CheckedSoFar'
  <2>1. ASSUME NEW k \in DOMAIN spec \cap DOMAIN data
        PROVE  IF FoundGood(k)'
                 THEN data[k] \in Converted(spec[k].convert, before[k]) /\ Passes(spec[k], data[k])
                 ELSE rulePc' \in {"keys", "checking"} => data[k] = before[k]
    <3>1. FoundGood(k)' <=> round = 2
      BY <1>2 DEF FoundGood
    <3>2. FoundGood(k) <=> round = 2
      BY <1>2 DEF FoundGood
    <3> QED
      BY <1>1, <1>2, <3>1, <3>2 DEF CheckedSoFar
  <2>2. round = 2 \/ rulePc' \in {"checking", "accepted"} =>
          \A k \in DOMAIN spec : spec[k].required => k \in DOMAIN data
    BY <1>1, <1>2, <1>3
  <2> QED
    BY <1>2, <2>1, <2>2 DEF CheckedSoFar
<1>6. CollectedSoFar' /\ PairsKept'
  BY <1>1, <1>2 DEF CollectedSoFar, PairsKept
<1>7. VerdictFixed'
  <2>1. CASE rulePc' = "refused"
    <3>1. PICK k \in DOMAIN spec : spec[k].required /\ k \notin DOMAIN before
      BY <1>1, <1>2, <2>1 DEF RuleTypeOK
    <3> QED
      BY <1>2, <2>1, <3>1 DEF VerdictFixed, MayPass
  <2>2. CASE rulePc' = "checking"
    BY <2>2 DEF VerdictFixed
  <2> QED
    BY <1>2, <2>1, <2>2
<1>8. TakenAsRuled' /\ TakenAgain'
  <2>1. TakenAsRuled' /\ (round = 2 => \A k \in DOMAIN spec \cap DOMAIN data :
                           Converted(spec[k].convert, data[k]) = {data[k]})'
    BY <1>4, <1>5, TakenThen
  <2> QED
    BY <1>2, <1>3, <2>1 DEF TakenAgain
<1> QED
  BY <1>4, <1>5, <1>6, <1>7, <1>8 DEF RuleInv

LEMMA ItemKept == ASSUME NEW c PROVE RuleInv /\ DictItem(c) => RuleInv'
<1> SUFFICES ASSUME RuleInv, DictItem(c) PROVE RuleInv'
  OBVIOUS
<1>1. /\ RuleTypeOK /\ CheckedSoFar /\ CollectedSoFar /\ TakenAgain /\ PairsKept
  BY DEF RuleInv
<1>2. PICK results : results = Converted(spec[c].convert, data[c])
  OBVIOUS
<1>3. /\ rulePc = "checking" /\ c \in toCheck /\ toCheck' = toCheck \ {c}
      /\ data' = [data EXCEPT ![c] = IF results = {} THEN @ ELSE CHOOSE v \in results : TRUE]
      /\ rulePc' = IF results = {} THEN "raised"
                   ELSE IF Passes(spec[c], data'[c]) THEN "checking" ELSE "refused"
      /\ UNCHANGED <<spec, before, round, pairs, kvp>>
  BY <1>2 DEF DictItem
<1>4. /\ c \in DOMAIN spec \cap DOMAIN data /\ DOMAIN data' = DOMAIN data
      /\ \A k \in DOMAIN data \ {c} : data'[k] = data[k]
      /\ data'[c] = IF results = {} THEN data[c] ELSE CHOOSE v \in results : TRUE
  BY <1>1, <1>3 DEF RuleTypeOK
<1>5. spec[c].convert \in How
  BY <1>1, <1>4, RuleAssumption DEF RuleTypeOK
<1>6. round = 2 => results = {data[c]} /\ data'[c] = data[c] /\ Passes(spec[c], data[c])
  BY <1>1, <1>2, <1>4, GoodIsRuled DEF FoundGood
<1>7. round = 1 => data[c] = before[c]
  BY <1>1, <1>3, <1>4 DEF CheckedSoFar, FoundGood
<1>8. round \in 1 .. 2
  BY <1>1 DEF RuleTypeOK
<1>9. rulePc' = "checking" =>
        data'[c] \in Converted(spec[c].convert, before[c]) /\ Passes(spec[c], data'[c])
  <2>1. CASE round = 2
    BY <1>1, <1>4, <1>6, <2>1 DEF CheckedSoFar, FoundGood
  <2>2. CASE round = 1
    BY <1>2, <1>3, <1>4, <1>7, <2>2
  <2> QED
    BY <1>8, <2>1, <2>2
<1>10. round = 2 => rulePc' = "checking"
  BY <1>3, <1>6
<1>11. RuleTypeOK'
  BY <1>1, <1>3, <1>4 DEF RuleTypeOK
<1>12. CheckedSoFar'
  <2>1. ASSUME NEW k \in DOMAIN spec \cap DOMAIN data
        PROVE  IF FoundGood(k)'
                 THEN data'[k] \in Converted(spec[k].convert, before[k]) /\ Passes(spec[k], data'[k])
                 ELSE rulePc' \in {"keys", "checking"} => data'[k] = before[k]
    <3>1. CASE k = c
      <4>1. FoundGood(c)' <=> rulePc' = "checking"
        BY <1>3, <1>10 DEF FoundGood
      <4> QED
        BY <1>3, <1>9, <3>1, <4>1
    <3>2. CASE k # c
      <4>1. FoundGood(k)' => FoundGood(k)
        BY <1>3, <3>2 DEF FoundGood
      <4>2. FoundGood(k) /\ rulePc' = "checking" => FoundGood(k)'
        BY <1>3 DEF FoundGood
      <4> QED
        BY <1>1, <1>3, <1>4, <3>2, <4>1, <4>2 DEF CheckedSoFar
    <3> QED
      BY <3>1, <3>2
  <2> QED
    BY <1>1, <1>3, <1>4, <2>1 DEF CheckedSoFar
<1>13. CollectedSoFar' /\ PairsKept'
  BY <1>1, <1>3 DEF CollectedSoFar, PairsKept
<1>14. VerdictFixed'
  <2>1. CASE rulePc' # "checking"
    <3>1. round = 1 /\ data[c] = before[c]
      BY <1>7, <1>8, <1>10, <2>1
    <3>2. ~MayPass(c)
      <4>1. CASE results = {}
        BY <1>2, <3>1, <4>1 DEF MayPass
      <4>2. CASE results # {}
        <5>1. data'[c] \in results /\ ~Passes(spec[c], data'[c])
          BY <1>3, <1>4, <2>1, <4>2
        <5>2. \A v \in results : v = data'[c]
          BY <1>2, <1>5, <5>1, ConvertedOne
        <5> QED
          BY <1>2, <3>1, <5>1, <5>2 DEF MayPass
      <4> QED
        BY <4>1, <4>2
    <3>3. MayPass(c)' <=> MayPass(c)
      BY <1>3 DEF MayPass
    <3>4. c \in DOMAIN spec /\ c \in DOMAIN before /\ rulePc' \in {"refused", "raised"}
      BY <1>1, <1>3, <1>4, <2>1 DEF RuleTypeOK
    <3> QED
      BY <1>3, <3>2, <3>3, <3>4 DEF VerdictFixed
  <2>2. CASE rulePc' = "checking"
    BY <2>2 DEF VerdictFixed
  <2> QED
    BY <2>1, <2>2
<1>15. TakenAsRuled' /\ TakenAgain'
  <2>1. TakenAsRuled' /\ (round = 2 => \A k \in DOMAIN spec \cap DOMAIN data :
                           Converted(spec[k].convert, data[k]) = {data[k]})'
    BY <1>11, <1>12, TakenThen
  <2> QED
    BY <1>3, <1>10, <2>1 DEF TakenAgain
<1> QED
  BY <1>11, <1>12, <1>13, <1>14, <1>15 DEF RuleInv

(* The check ends, or begins anew.                                         *)
LEMMA RoundKept == RuleInv /\ (Accepted \/ CheckAgain) => RuleInv'
<1> SUFFICES ASSUME RuleInv, Accepted \/ CheckAgain PROVE RuleInv'
  OBVIOUS
<1>1. /\ RuleTypeOK /\ CheckedSoFar /\ CollectedSoFar /\ TakenAgain /\ PairsKept
  BY DEF RuleInv
<1>2. /\ UNCHANGED <<spec, data, before, toCheck, pairs, kvp>> /\ toCheck = {}
      /\ \/ rulePc = "checking" /\ rulePc' = "accepted" /\ round' = round
         \/ rulePc = "accepted" /\ rulePc' = "keys" /\ round = 1 /\ round' = 2
  BY <1>1 DEF Accepted, CheckAgain, CheckedSoFar
<1>3. RuleTypeOK'
  BY <1>1, <1>2 DEF RuleTypeOK
<1>4. CheckedSoFar'
  <2>1. ASSUME NEW k \in DOMAIN spec \cap DOMAIN data
        PROVE  data[k] \in Converted(spec[k].convert, before[k]) /\ Passes(spec[k], data[k]) /\ FoundGood(k)'
    BY <1>1, <1>2 DEF CheckedSoFar, FoundGood
  <2> QED
    BY <1>1, <1>2, <2>1 DEF CheckedSoFar
<1>5. CollectedSoFar' /\ PairsKept'
  BY <1>1, <1>2 DEF CollectedSoFar, PairsKept
<1>6. /\ (rulePc = "accepted" => VerdictFixed)' /\ TakenAsRuled'
      /\ (round = 2 => \A k \in DOMAIN spec \cap DOMAIN data :
                           Converted(spec[k].convert, data[k]) = {data[k]})'
  BY <1>3, <1>4, TakenThen
<1>7. VerdictFixed'
  BY <1>2, <1>6 DEF VerdictFixed
<1>8. TakenAgain'
  BY <1>2, <1>6 DEF TakenAgain
<1> QED
  BY <1>3, <1>4, <1>5, <1>6, <1>7, <1>8 DEF RuleInv

LEMMA PairKept == RuleInv /\ KvpPair => RuleInv'
<1> SUFFICES ASSUME RuleInv, KvpPair PROVE RuleInv'
  OBVIOUS
<1>1. /\ RuleTypeOK /\ CheckedSoFar /\ CollectedSoFar /\ VerdictFixed /\ TakenAsRuled /\ TakenAgain
  BY DEF RuleInv
<1>2. PICK pair : pair = pairs[kvp.at + 1]
  OBVIOUS
<1>3. /\ kvp.pc = "making" /\ kvp.at < Len(pairs) /\ pairs # JustFlag
      /\ kvp' = IF Len(pair) # 2 THEN [pc |-> "raised", at |-> kvp.at, map |-> kvp.map]
                ELSE [pc |-> "making", at |-> kvp.at + 1, map |-> Collect(kvp.map, pair)]
      /\ UNCHANGED <<spec, data, before, rulePc, toCheck, round, pairs>>
  BY <1>2 DEF KvpPair
<1>4. CheckedSoFar' /\ VerdictFixed' /\ TakenAsRuled' /\ TakenAgain'
  <2>1. CheckedSoFar'
    BY <1>1, <1>3 DEF CheckedSoFar, FoundGood
  <2>2. VerdictFixed'
    <3>1. \A k : MayPass(k)' <=> MayPass(k)
      BY <1>3 DEF MayPass
    <3> QED
      BY <1>1, <1>3, <3>1 DEF VerdictFixed
  <2>3. TakenAsRuled' /\ TakenAgain'
    BY <1>1, <1>3 DEF TakenAsRuled, TakenAgain
  <2> QED
    BY <2>1, <2>2, <2>3
<1>5. Len(pairs) \in Nat /\ DOMAIN pairs = 1 .. Len(pairs) /\ kvp.at \in 0 .. Len(pairs)
  BY <1>1, RuleAssumption DEF CollectedSoFar
<1>6. kvp'.pc \in {"making", "raised"} /\ PairsKept'
  BY <1>3 DEF PairsKept
<1>7. /\ DOMAIN kvp.map = {pairs[i][1] : i \in 1 .. kvp.at}
      /\ \A k \in DOMAIN kvp.map :
           kvp.map[k] = {pairs[i][2] : i \in {j \in 1 .. kvp.at : pairs[j][1] = k}}
  BY <1>1 DEF CollectedSoFar
<1>8. CASE Len(pair) # 2
  <2>1. kvp'.at = kvp.at /\ kvp'.map = kvp.map /\ kvp'.pc = "raised"
    BY <1>3, <1>8
  <2>2. RuleTypeOK' /\ CollectedSoFar'
    BY <1>1, <1>3, <2>1 DEF RuleTypeOK, CollectedSoFar
  <2> QED
    BY <1>4, <1>6, <2>2 DEF RuleInv
<1>9. CASE ~(Len(pair) # 2)
  <2>1. PICK n \in 1 .. Len(pairs) : n = kvp.at + 1
    BY <1>3, <1>5
  <2>2. kvp'.at = n /\ kvp'.pc = "making" /\ kvp'.map = Collect(kvp.map, pair) /\ pair = pairs[n]
    BY <1>2, <1>3, <1>9, <2>1
  <2>3. 1 .. n = 1 .. kvp.at \cup {n} /\ n \notin 1 .. kvp.at
    BY <1>5, <2>1
  <2>4. DOMAIN kvp'.map = {pairs[i][1] : i \in 1 .. n}
    <3>1. DOMAIN kvp'.map = {pair[1]} \cup DOMAIN kvp.map
      BY <2>2 DEF Collect
    <3> QED
      BY <1>7, <2>2, <2>3, <3>1
  <2>5. ASSUME NEW k \in DOMAIN kvp'.map
        PROVE  kvp'.map[k] = {pairs[i][2] : i \in {j \in 1 .. n : pairs[j][1] = k}}
    <3>1. kvp'.map[k] = (IF k = pair[1] THEN {pair[2]} ELSE {})
                          \cup (IF k \in DOMAIN kvp.map THEN kvp.map[k] ELSE {})
      BY <2>2, <2>5 DEF Collect
    <3>2. (IF k \in DOMAIN kvp.map THEN kvp.map[k] ELSE {})
            = {pairs[i][2] : i \in {j \in 1 .. kvp.at : pairs[j][1] = k}}
      <4>1. CASE k \in DOMAIN kvp.map
        BY <1>7, <4>1
      <4>2. CASE k \notin DOMAIN kvp.map
        <5>1. {j \in 1 .. kvp.at : pairs[j][1] = k} = {}
          BY <1>7, <4>2
        <5> QED
          BY <4>2, <5>1
      <4> QED
        BY <4>1, <4>2
    <3>3. CASE k = pair[1]
      <4>1. {j \in 1 .. n : pairs[j][1] = k} = {j \in 1 .. kvp.at : pairs[j][1] = k} \cup {n}
        BY <2>2, <2>3, <3>3
      <4>2. \A S : {pairs[i][2] : i \in S \cup {n}} = {pairs[i][2] : i \in S} \cup {pairs[n][2]}
        OBVIOUS
      <4>3. {pairs[i][2] : i \in {j \in 1 .. n : pairs[j][1] = k}}
              = {pairs[i][2] : i \in {j \in 1 .. kvp.at : pairs[j][1] = k}} \cup {pair[2]}
        BY <2>2, <4>1, <4>2
      <4> QED
        BY <3>1, <3>2, <3>3, <4>3
    <3>4. CASE k # pair[1]
      <4>1. {j \in 1 .. n : pairs[j][1] = k} = {j \in 1 .. kvp.at : pairs[j][1] = k}
        BY <2>2, <2>3, <3>4
      <4> QED
        BY <3>1, <3>2, <3>4, <4>1
    <3> QED
      BY <3>3, <3>4
  <2>6. CollectedSoFar'
    <3>1. pairs' = pairs /\ pairs \in Lists /\ n \in 0 .. Len(pairs)
      BY <1>1, <1>3, <1>5, <2>1 DEF CollectedSoFar
    <3>2. kvp'.pc = "making" /\ kvp'.at = n
      BY <2>2
    <3>3. \A k \in DOMAIN kvp'.map :
            kvp'.map[k] = {pairs[i][2] : i \in {j \in 1 .. n : pairs[j][1] = k}}
      BY <2>5
    <3>4. DOMAIN kvp'.map = {pairs'[i][1] : i \in 1 .. kvp'.at}
      BY <2>4, <3>1, <3>2
    <3>5. ASSUME NEW k \in DOMAIN kvp'.map
          PROVE  kvp'.map[k] = {pairs'[i][2] : i \in {j \in 1 .. kvp'.at : pairs'[j][1] = k}}
      <4>1. kvp'.map[k] = {pairs[i][2] : i \in {j \in 1 .. n : pairs[j][1] = k}}
        BY <3>3, <3>5
      <4>2. {j \in 1 .. kvp'.at : pairs'[j][1] = k} = {j \in 1 .. n : pairs[j][1] = k}
        BY <3>1, <3>2
      <4> QED
        BY <3>1, <4>1, <4>2
    <3>6. /\ pairs' \in Lists /\ kvp'.at \in 0 .. Len(pairs')
          /\ pairs' # JustFlag /\ kvp'.pc # "made"
      BY <1>3, <3>1, <3>2
    <3> QED
      BY <3>4, <3>5, <3>6, Zenon DEF CollectedSoFar
  <2>7. \A k \in DOMAIN kvp'.map : kvp'.map[k] # {}
    <3>1. ASSUME NEW k \in DOMAIN kvp'.map PROVE kvp'.map[k] # {}
      <4>1. kvp'.map[k] = (IF k = pair[1] THEN {pair[2]} ELSE {})
                            \cup (IF k \in DOMAIN kvp.map THEN kvp.map[k] ELSE {})
            /\ k \in {pair[1]} \cup DOMAIN kvp.map
        BY <2>2, <3>1 DEF Collect
      <4>2. CASE k = pair[1]
        <5>1. pair[2] \in kvp'.map[k]
          BY <4>1, <4>2
        <5> QED
          BY <5>1
      <4>3. CASE k # pair[1]
        <5>1. kvp'.map[k] = kvp.map[k] /\ k \in DOMAIN kvp.map
          BY <4>1, <4>3
        <5> QED
          BY <1>1, <5>1 DEF RuleTypeOK
      <4> QED
        BY <4>2, <4>3
    <3> QED
      BY <3>1
  <2>8. RuleTypeOK'
    BY <1>1, <1>3, <2>2, <2>7 DEF RuleTypeOK
  <2> QED
    BY <1>4, <1>6, <2>6, <2>8 DEF RuleInv
<1> QED
  BY <1>8, <1>9

LEMMA FlagKept == RuleInv /\ KvpFlag => RuleInv'
<1> SUFFICES ASSUME RuleInv, KvpFlag PROVE RuleInv'
  OBVIOUS
<1>1. /\ RuleTypeOK /\ CheckedSoFar /\ CollectedSoFar /\ VerdictFixed /\ TakenAsRuled /\ TakenAgain
  BY DEF RuleInv
<1>2. /\ pairs = JustFlag
      /\ kvp'.pc = "made" /\ kvp'.at = kvp.at /\ kvp'.map = << >>
      /\ UNCHANGED <<spec, data, before, rulePc, toCheck, round, pairs>>
  BY DEF KvpFlag
<1>3. kvp.at = 0 /\ pairs \in Lists /\ 0 \in 0 .. Len(pairs)
  BY <1>1, <1>2 DEF CollectedSoFar
<1>4. DOMAIN kvp'.map = {}
  BY <1>2
<1>5. RuleTypeOK' /\ CheckedSoFar' /\ PairsKept'
  BY <1>1, <1>2, <1>4 DEF RuleTypeOK, CheckedSoFar, FoundGood, PairsKept
<1>6. CollectedSoFar'
  BY <1>2, <1>3, <1>4 DEF CollectedSoFar
<1>7. VerdictFixed'
  <2>1. \A k : MayPass(k)' <=> MayPass(k)
    BY <1>2 DEF MayPass
  <2> QED
    BY <1>1, <1>2, <2>1 DEF VerdictFixed
<1>8. TakenAsRuled' /\ TakenAgain'
  BY <1>1, <1>2 DEF TakenAsRuled, TakenAgain
<1> QED
  BY <1>5, <1>6, <1>7, <1>8 DEF RuleInv

LEMMA MadeKept == RuleInv /\ KvpMade => RuleInv'
<1> SUFFICES ASSUME RuleInv, KvpMade PROVE RuleInv'
  OBVIOUS
<1>1. /\ RuleTypeOK /\ CheckedSoFar /\ CollectedSoFar /\ VerdictFixed /\ TakenAsRuled /\ TakenAgain
  BY DEF RuleInv
<1>2. /\ kvp.at = Len(pairs) /\ kvp'.pc = "made" /\ kvp'.at = kvp.at /\ kvp'.map = kvp.map
      /\ UNCHANGED <<spec, data, before, rulePc, toCheck, round, pairs>>
  BY DEF KvpMade
<1>3. RuleTypeOK' /\ CheckedSoFar' /\ CollectedSoFar'
  BY <1>1, <1>2 DEF RuleTypeOK, CheckedSoFar, FoundGood, CollectedSoFar
<1>4. VerdictFixed'
  <2>1. \A k : MayPass(k)' <=> MayPass(k)
    BY <1>2 DEF MayPass
  <2> QED
    BY <1>1, <1>2, <2>1 DEF VerdictFixed
<1>5. TakenAsRuled' /\ TakenAgain'
  BY <1>1, <1>2 DEF TakenAsRuled, TakenAgain
<1>6. PairsKept'
  <2>1. DOMAIN pairs = 1 .. Len(pairs)
    BY <1>1, RuleAssumption DEF CollectedSoFar
  <2> QED
    BY <1>1, <1>2, <2>1 DEF PairsKept, CollectedSoFar
<1> QED
  BY <1>3, <1>4, <1>5, <1>6 DEF RuleInv

(* Every step of a check, and of the making of a dictionary, keeps what    *)
(* the verdict rests on.                                                   *)
LEMMA RuleKept == RuleInv /\ [RuleNext]_ruleVars => RuleInv'
<1>1. RuleInv /\ UNCHANGED ruleVars => RuleInv'
  <2> SUFFICES ASSUME RuleInv, UNCHANGED ruleVars PROVE RuleInv'
    OBVIOUS
  <2>1. UNCHANGED <<spec, data, before, rulePc, toCheck, round, pairs, kvp>>
    BY DEF ruleVars
  <2>2. RuleTypeOK' /\ CheckedSoFar' /\ CollectedSoFar'
    BY <2>1 DEF RuleInv, RuleTypeOK, CheckedSoFar, FoundGood, CollectedSoFar
  <2>3. VerdictFixed'
    <3>1. \A k : MayPass(k)' <=> MayPass(k)
      BY <2>1 DEF MayPass
    <3> QED
      BY <2>1, <3>1 DEF RuleInv, VerdictFixed
  <2>4. TakenAsRuled' /\ TakenAgain' /\ PairsKept'
    BY <2>1 DEF RuleInv, TakenAsRuled, TakenAgain, PairsKept
  <2> QED
    BY <2>2, <2>3, <2>4 DEF RuleInv
<1> QED
  BY <1>1, KeysKept, ItemKept, RoundKept, FlagKept, PairKept, MadeKept DEF RuleNext

(***************************************************************************)
(* RestListing: the pages of a walk                                        *)
(***************************************************************************)

(* An order by which any two members of a set come one before the other.   *)
StrictTotal(S, R) ==
  /\ \A x \in S : <<x, x>> \notin R
  /\ \A x, y \in S : x # y => <<x, y>> \in R \/ <<y, x>> \in R
  /\ \A x, y, z \in S : <<x, y>> \in R /\ <<y, z>> \in R => <<x, z>> \in R

Below(S, R, r) == {x \in S : <<x, r>> \in R}
Rank(S, R, r) == Cardinality(Below(S, R, r))

(* How many members come before one grows with the order, and is one of the*)
(* places of a list.                                                       *)
LEMMA RankGrows ==
  ASSUME NEW S, NEW R, IsFiniteSet(S), StrictTotal(S, R)
  PROVE  /\ Cardinality(S) \in Nat
         /\ \A r \in S : Rank(S, R, r) \in 0 .. Cardinality(S) - 1
         /\ \A x, y \in S : <<x, y>> \in R => Rank(S, R, x) < Rank(S, R, y)
<1>1. Cardinality(S) \in Nat
  BY FS_CardinalityType
<1>2. \A r \in S : /\ IsFiniteSet(Below(S, R, r)) /\ Rank(S, R, r) \in Nat
                   /\ Rank(S, R, r) <= Cardinality(S)
  <2>1. SUFFICES ASSUME NEW r \in S
                 PROVE  /\ IsFiniteSet(Below(S, R, r)) /\ Rank(S, R, r) \in Nat
                        /\ Rank(S, R, r) <= Cardinality(S)
    OBVIOUS
  <2>2. Below(S, R, r) \in SUBSET S
    BY DEF Below
  <2> QED
    BY <2>2, FS_Subset, FS_CardinalityType DEF Rank
<1>3. ASSUME NEW r \in S PROVE Rank(S, R, r) # Cardinality(S)
  <2>1. Below(S, R, r) \in SUBSET S /\ r \notin Below(S, R, r)
    BY DEF Below, StrictTotal
  <2> QED
    BY <2>1, FS_Subset DEF Rank
<1>4. ASSUME NEW x \in S, NEW y \in S, <<x, y>> \in R PROVE Rank(S, R, x) < Rank(S, R, y)
  <2>1. Below(S, R, x) \in SUBSET Below(S, R, y)
    BY <1>4 DEF Below, StrictTotal
  <2>2. x \in Below(S, R, y) /\ x \notin Below(S, R, x)
    BY <1>4 DEF Below, StrictTotal
  <2>3. IsFiniteSet(Below(S, R, y)) /\ Rank(S, R, x) \in Nat /\ Rank(S, R, y) \in Nat
    BY <1>2
  <2>4. Rank(S, R, x) <= Rank(S, R, y) /\ Rank(S, R, x) # Rank(S, R, y)
    BY <2>1, <2>2, <2>3, FS_Subset DEF Rank
  <2> QED
    BY <2>3, <2>4
<1> QED
  BY <1>1, <1>2, <1>3, <1>4

(* Each place of the list has its member, and one only.                    *)
LEMMA RankOnto ==
  ASSUME NEW S, NEW R, IsFiniteSet(S), StrictTotal(S, R)
  PROVE  /\ \A x, y \in S : Rank(S, R, x) = Rank(S, R, y) => x = y
         /\ \A k \in 1 .. Cardinality(S) : \E r \in S : Rank(S, R, r) = k - 1
<1>1. \A x, y \in S : Rank(S, R, x) = Rank(S, R, y) => x = y
  <2>1. SUFFICES ASSUME NEW x \in S, NEW y \in S, Rank(S, R, x) = Rank(S, R, y), x # y PROVE FALSE
    OBVIOUS
  <2>2. Rank(S, R, x) \in Nat /\ Rank(S, R, y) \in Nat
    BY RankGrows
  <2>3. <<x, y>> \in R \/ <<y, x>> \in R
    BY <2>1 DEF StrictTotal
  <2> QED
    BY <2>1, <2>2, <2>3, RankGrows
<1>2. PICK n : n = Cardinality(S)
  OBVIOUS
<1>3. n \in Nat
  BY <1>2, RankGrows
<1>4. PICK f : f = [r \in S |-> Rank(S, R, r)]
  OBVIOUS
<1>5. f \in [S -> 0 .. n - 1] /\ \A r \in S : f[r] = Rank(S, R, r)
  BY <1>2, <1>4, RankGrows
<1>6. f \in Injection(S, 0 .. n - 1)
  BY <1>1, <1>5 DEF Injection, IsInjective
<1>7. IsFiniteSet(0 .. n - 1) /\ Cardinality(0 .. n - 1) = n
  <2>1. 0 \in Int /\ n - 1 \in Int /\ (IF 0 > n - 1 THEN 0 ELSE n - 1 - 0 + 1) = n
    BY <1>3
  <2> QED
    BY <2>1, FS_Interval
<1>8. f \in Surjection(S, 0 .. n - 1)
  BY <1>2, <1>6, <1>7, FS_Injection
<1>9. \A k \in 0 .. n - 1 : \E r \in S : f[r] = k
  BY <1>8 DEF Surjection
<1>10. ASSUME NEW k \in 1 .. n PROVE \E r \in S : Rank(S, R, r) = k - 1
  <2>1. k - 1 \in 0 .. n - 1
    BY <1>3
  <2> QED
    BY <1>5, <1>9, <2>1
<1> QED
  BY <1>1, <1>2, <1>10

(* The list of a set in an order has each member at its place.             *)
LEMMA OrderedIs ==
  ASSUME NEW S, NEW R, IsFiniteSet(S), StrictTotal(S, R)
  PROVE  /\ Ordered(S, R) \in Seq(S) /\ Len(Ordered(S, R)) = Cardinality(S)
         /\ Cardinality(S) \in Nat
         /\ \A k \in 1 .. Cardinality(S) :
              Ordered(S, R)[k] \in S /\ Rank(S, R, Ordered(S, R)[k]) = k - 1
         /\ \A r \in S : /\ Rank(S, R, r) + 1 \in 1 .. Cardinality(S)
                         /\ Ordered(S, R)[Rank(S, R, r) + 1] = r
<1>1. PICK n : n = Cardinality(S)
  OBVIOUS
<1>2. n \in Nat
  BY <1>1, RankGrows
<1>3. PICK s : s = Ordered(S, R)
  OBVIOUS
<1>4. s = [k \in 1 .. n |-> CHOOSE r \in S : Rank(S, R, r) = k - 1]
  BY <1>1, <1>3 DEF Ordered, Rank, Below
<1>5. \A k \in 1 .. n : s[k] \in S /\ Rank(S, R, s[k]) = k - 1
  <2>1. SUFFICES ASSUME NEW k \in 1 .. n PROVE s[k] \in S /\ Rank(S, R, s[k]) = k - 1
    OBVIOUS
  <2>2. \E r \in S : Rank(S, R, r) = k - 1
    BY <1>1, RankOnto
  <2> QED
    BY <1>4, <2>2
<1>6. s \in [1 .. n -> S]
  BY <1>4, <1>5
<1>7. s \in Seq(S)
  BY <1>2, <1>6
<1>8. Len(s) = n
  BY <1>2, <1>6, <1>7, LenProperties
<1>9. ASSUME NEW r \in S PROVE Rank(S, R, r) + 1 \in 1 .. n /\ s[Rank(S, R, r) + 1] = r
  <2>1. Rank(S, R, r) \in 0 .. n - 1
    BY <1>1, RankGrows
  <2>2. PICK k : k = Rank(S, R, r) + 1
    OBVIOUS
  <2>3. k \in 1 .. n /\ k - 1 = Rank(S, R, r)
    BY <1>2, <2>1, <2>2
  <2>4. s[k] \in S /\ Rank(S, R, s[k]) = k - 1
    BY <1>5, <2>3
  <2>5. s[k] = r
    BY <2>3, <2>4, RankOnto
  <2> QED
    BY <2>2, <2>3, <2>5
<1> QED
  BY <1>1, <1>2, <1>3, <1>5, <1>7, <1>8, <1>9

LEMMA OrderedInOrder ==
  ASSUME NEW S, NEW R, IsFiniteSet(S), StrictTotal(S, R)
  PROVE  \A i, j \in 1 .. Cardinality(S) :
           i < j <=> <<Ordered(S, R)[i], Ordered(S, R)[j]>> \in R
<1> SUFFICES ASSUME NEW i \in 1 .. Cardinality(S), NEW j \in 1 .. Cardinality(S)
             PROVE  i < j <=> <<Ordered(S, R)[i], Ordered(S, R)[j]>> \in R
  OBVIOUS
<1>1. PICK x, y : x = Ordered(S, R)[i] /\ y = Ordered(S, R)[j]
  OBVIOUS
<1>2. x \in S /\ y \in S /\ Rank(S, R, x) = i - 1 /\ Rank(S, R, y) = j - 1
  BY <1>1, OrderedIs
<1>3. i \in Int /\ j \in Int
  BY RankGrows
<1>4. <<x, y>> \in R => i < j
  <2>1. <<x, y>> \in R => Rank(S, R, x) < Rank(S, R, y)
    BY <1>2, RankGrows
  <2> QED
    BY <1>2, <1>3, <2>1
<1>5. <<y, x>> \in R => j < i
  <2>1. <<y, x>> \in R => Rank(S, R, y) < Rank(S, R, x)
    BY <1>2, RankGrows
  <2> QED
    BY <1>2, <1>3, <2>1
<1>6. i # j => x # y
  BY <1>2, <1>3
<1>7. i < j => <<x, y>> \in R
  BY <1>2, <1>3, <1>5, <1>6 DEF StrictTotal
<1> QED
  BY <1>1, <1>4, <1>7

(* Of a list, what follows a member of it is the list of those after it.   *)
LEMMA RestOfOrder ==
  ASSUME NEW S, NEW R, IsFiniteSet(S), StrictTotal(S, R), NEW m \in S,
         NEW T, \A r : r \in T <=> r \in S /\ <<m, r>> \in R
  PROVE  /\ Ordered(T, R) \in Seq(S)
         /\ Len(Ordered(T, R)) = Cardinality(S) - Rank(S, R, m) - 1
         /\ \A k \in 1 .. Len(Ordered(T, R)) :
              Ordered(T, R)[k] = Ordered(S, R)[Rank(S, R, m) + 1 + k]
<1>1. T \in SUBSET S /\ m \notin T
  BY DEF StrictTotal
<1>2. IsFiniteSet(T) /\ StrictTotal(T, R)
  <2>1. IsFiniteSet(T)
    BY <1>1, FS_Subset
  <2> QED
    BY <1>1, <2>1 DEF StrictTotal
<1>3. PICK p, n, l : p = Rank(S, R, m) /\ n = Cardinality(S) /\ l = Cardinality(T)
  OBVIOUS
<1>4. p \in 0 .. n - 1 /\ n \in Nat /\ p \in Nat
  BY <1>3, RankGrows
<1>5. IsFiniteSet(Below(S, R, m)) /\ m \notin Below(S, R, m) /\ Below(S, R, m) \in SUBSET S
  <2>1. Below(S, R, m) \in SUBSET S /\ m \notin Below(S, R, m)
    BY DEF Below, StrictTotal
  <2> QED
    BY <2>1, FS_Subset
<1>6. PICK B : B = Below(S, R, m) \cup {m}
  OBVIOUS
<1>7. IsFiniteSet(B) /\ Cardinality(B) = p + 1
  BY <1>3, <1>5, <1>6, FS_AddElement DEF Rank
(* Those up to m and others of T that come before a row are apart. *)
<1>8. ASSUME NEW U, U \in SUBSET T PROVE Cardinality(B \cup U) = p + 1 + Cardinality(U)
  <2>1. B \cap U = {}
    <3>1. \A r \in Below(S, R, m) : r \notin T
      BY DEF Below, StrictTotal
    <3> QED
      BY <1>1, <1>6, <1>8, <3>1
  <2>2. IsFiniteSet(U) /\ Cardinality(U) \in Nat
    BY <1>2, <1>8, FS_Subset, FS_CardinalityType
  <2>3. Cardinality(B \cup U) = Cardinality(B) + Cardinality(U) - Cardinality(B \cap U)
    BY <1>7, <2>2, FS_Union
  <2>4. Cardinality(B \cap U) = 0
    BY <2>1, FS_EmptySet
  <2> QED
    BY <1>4, <1>7, <2>2, <2>3, <2>4
<1>9. l \in Nat /\ n = p + 1 + l
  <2>1. S = B \cup T
    BY <1>1, <1>5, <1>6 DEF Below, StrictTotal
  <2> QED
    BY <1>2, <1>3, <1>8, <2>1, FS_CardinalityType
<1>10. ASSUME NEW r \in T PROVE Rank(S, R, r) = p + 1 + Rank(T, R, r)
  <2>1. Below(S, R, r) = B \cup Below(T, R, r)
    <3>1. ASSUME NEW x \in Below(S, R, r) PROVE x \in B \cup Below(T, R, r)
      BY <3>1, <1>6 DEF Below, StrictTotal
    <3>2. ASSUME NEW x \in B PROVE x \in Below(S, R, r)
      BY <3>2, <1>1, <1>6 DEF Below, StrictTotal
    <3>3. ASSUME NEW x \in Below(T, R, r) PROVE x \in Below(S, R, r)
      BY <3>3, <1>1 DEF Below
    <3> QED
      BY <3>1, <3>2, <3>3
  <2>2. Below(T, R, r) \in SUBSET T
    BY DEF Below
  <2> QED
    BY <1>8, <2>1, <2>2 DEF Rank
<1>11. PICK s, t : s = Ordered(S, R) /\ t = Ordered(T, R)
  OBVIOUS
<1>12. t \in Seq(S) /\ Len(t) = l
  <2>1. t \in Seq(T) /\ Len(t) = l
    BY <1>2, <1>3, <1>11, OrderedIs
  <2> QED
    BY <1>1, <2>1, SeqMonotonic
<1>13. ASSUME NEW k \in 1 .. l PROVE t[k] = s[p + 1 + k]
  <2>1. PICK r : r = t[k]
    OBVIOUS
  <2>2. r \in T /\ Rank(T, R, r) = k - 1
    <3>1. k \in 1 .. Cardinality(T)
      BY <1>3, <1>13
    <3>2. \A j \in 1 .. Cardinality(T) :
            Ordered(T, R)[j] \in T /\ Rank(T, R, Ordered(T, R)[j]) = j - 1
      BY <1>2, OrderedIs
    <3>3. Ordered(T, R)[k] \in T /\ Rank(T, R, Ordered(T, R)[k]) = k - 1
      BY <3>1, <3>2
    <3> QED
      BY <1>11, <2>1, <3>3
  <2>3. Rank(S, R, r) = p + 1 + (k - 1)
    BY <1>10, <2>2
  <2>4. Rank(S, R, r) + 1 = p + 1 + k
    BY <1>4, <1>9, <2>3
  <2>5. r \in S
    BY <1>1, <2>2
  <2>6. s[Rank(S, R, r) + 1] = r
    BY <1>11, <2>5, OrderedIs
  <2> QED
    BY <2>1, <2>4, <2>6
<1>14. l = n - p - 1
  BY <1>4, <1>9
<1> QED
  BY <1>3, <1>11, <1>12, <1>13, <1>14

(* Those before it, the other way round, are what precedes it backwards.   *)
LEMMA StartOfOrder ==
  ASSUME NEW S \in SUBSET RowId, NEW R, IsFiniteSet(S), StrictTotal(S, R), NEW m \in S,
         NEW T, \A r : r \in T <=> r \in S /\ <<r, m>> \in R
  PROVE  /\ Ordered(T, Turned(R)) \in Seq(S)
         /\ Len(Ordered(T, Turned(R))) = Rank(S, R, m)
         /\ \A k \in 1 .. Len(Ordered(T, Turned(R))) :
              Ordered(T, Turned(R))[k] = Ordered(S, R)[Rank(S, R, m) + 1 - k]
<1>1. T \in SUBSET S /\ T = Below(S, R, m)
  BY DEF Below
<1>2. PICK Q : Q = Turned(R)
  OBVIOUS
<1>3. \A x, y \in S : <<x, y>> \in Q <=> <<y, x>> \in R
  BY <1>2 DEF Turned
<1>4. IsFiniteSet(T) /\ StrictTotal(T, Q)
  <2>1. IsFiniteSet(T)
    BY <1>1, FS_Subset
  <2>2. \A x \in T : <<x, x>> \notin Q
    BY <1>1, <1>3 DEF StrictTotal
  <2>3. \A x, y \in T : x # y => <<x, y>> \in Q \/ <<y, x>> \in Q
    BY <1>1, <1>3 DEF StrictTotal
  <2>4. \A x, y, z \in T : <<x, y>> \in Q /\ <<y, z>> \in Q => <<x, z>> \in Q
    <3>1. SUFFICES ASSUME NEW x \in T, NEW y \in T, NEW z \in T, <<x, y>> \in Q, <<y, z>> \in Q
                   PROVE  <<x, z>> \in Q
      OBVIOUS
    <3>2. x \in S /\ y \in S /\ z \in S
      BY <1>1
    <3>3. <<y, x>> \in R /\ <<z, y>> \in R
      BY <1>3, <3>1, <3>2
    <3>4. <<z, x>> \in R
      BY <3>2, <3>3 DEF StrictTotal
    <3> QED
      BY <1>3, <3>2, <3>4
  <2> QED
    BY <2>1, <2>2, <2>3, <2>4 DEF StrictTotal
<1>5. PICK p, n : p = Rank(S, R, m) /\ n = Cardinality(S)
  OBVIOUS
<1>6. p \in 0 .. n - 1 /\ n \in Nat /\ p \in Nat /\ Cardinality(T) = p
  <2>1. p \in 0 .. n - 1 /\ n \in Nat
    BY <1>5, RankGrows
  <2>2. Cardinality(T) = p
    BY <1>1, <1>5 DEF Rank
  <2> QED
    BY <2>1, <2>2
<1>7. ASSUME NEW r \in T
      PROVE  /\ Rank(S, R, r) \in Nat /\ Rank(T, Q, r) \in Nat
             /\ p = Rank(S, R, r) + 1 + Rank(T, Q, r)
  <2>1. r \in S /\ <<r, m>> \in R
    OBVIOUS
  <2>2. PICK A, B, C : A = Below(S, R, r) /\ B = Below(T, Q, r) /\ C = A \cup {r}
    OBVIOUS
  <2>3. IsFiniteSet(A) /\ IsFiniteSet(B) /\ IsFiniteSet(T)
    <3>1. A \in SUBSET S /\ B \in SUBSET S
      BY <1>1, <2>2 DEF Below
    <3> QED
      BY <1>4, <3>1, FS_Subset
  <2>4. Cardinality(A) \in Nat /\ Cardinality(B) \in Nat
    BY <2>3, FS_CardinalityType
  <2>5. r \notin A
    BY <2>2 DEF Below, StrictTotal
  <2>6. IsFiniteSet(C) /\ Cardinality(C) = Cardinality(A) + 1
    BY <2>2, <2>3, <2>5, FS_AddElement
  <2>7. C \cap B = {}
    <3>1. \A x \in B : x \in S /\ <<r, x>> \in R
      BY <1>1, <1>3, <2>1, <2>2 DEF Below
    <3>2. \A x \in C : x \in S /\ <<r, x>> \notin R
      BY <2>1, <2>2 DEF Below, StrictTotal
    <3> QED
      BY <3>1, <3>2
  <2>8. T = C \cup B
    <3>1. ASSUME NEW x \in T PROVE x \in C \cup B
      BY <1>1, <1>3, <2>1, <2>2, <3>1 DEF Below, StrictTotal
    <3>2. ASSUME NEW x \in C PROVE x \in T
      <4>1. x \in S /\ (x = r \/ <<x, r>> \in R)
        BY <2>1, <2>2, <3>2 DEF Below
      <4> QED
        BY <2>1, <4>1 DEF StrictTotal
    <3>3. ASSUME NEW x \in B PROVE x \in T
      BY <2>2, <3>3 DEF Below
    <3> QED
      BY <3>1, <3>2, <3>3
  <2>9. Cardinality(C \cup B) = Cardinality(C) + Cardinality(B) - Cardinality(C \cap B)
    BY <2>3, <2>6, FS_Union
  <2>10. Cardinality(C \cap B) = 0
    BY <2>7, FS_EmptySet
  <2>11. Cardinality(T) = Cardinality(A) + 1 + Cardinality(B)
    <3>1. Cardinality(T) = Cardinality(C \cup B)
      BY <2>8
    <3>2. PICK a, b : a = Cardinality(A) /\ b = Cardinality(B)
      OBVIOUS
    <3>3. Cardinality(C) + Cardinality(B) - Cardinality(C \cap B) = a + 1 + b
      BY <2>4, <2>6, <2>10, <3>2
    <3> QED
      BY <2>9, <3>1, <3>2, <3>3
  <2> QED
    BY <1>6, <2>2, <2>4, <2>11 DEF Rank
<1>8. PICK s, t : s = Ordered(S, R) /\ t = Ordered(T, Q)
  OBVIOUS
<1>9. t \in Seq(S) /\ Len(t) = p
  <2>1. t \in Seq(T) /\ Len(t) = p
    BY <1>4, <1>6, <1>8, OrderedIs
  <2> QED
    BY <1>1, <2>1, SeqMonotonic
<1>10. ASSUME NEW k \in 1 .. p PROVE t[k] = s[p + 1 - k]
  <2>1. PICK r : r = t[k]
    OBVIOUS
  <2>2. r \in T /\ Rank(T, Q, r) = k - 1
    <3>1. k \in 1 .. Cardinality(T)
      BY <1>6
    <3>2. \A j \in 1 .. Cardinality(T) :
            Ordered(T, Q)[j] \in T /\ Rank(T, Q, Ordered(T, Q)[j]) = j - 1
      BY <1>4, OrderedIs
    <3>3. Ordered(T, Q)[k] \in T /\ Rank(T, Q, Ordered(T, Q)[k]) = k - 1
      BY <3>1, <3>2
    <3> QED
      BY <1>8, <2>1, <3>3
  <2>3. Rank(S, R, r) + 1 = p + 1 - k
    BY <1>6, <1>7, <2>2
  <2>4. r \in S
    BY <1>1, <2>2
  <2>5. s[Rank(S, R, r) + 1] = r
    BY <1>8, <2>4, OrderedIs
  <2> QED
    BY <2>1, <2>3, <2>5
<1> QED
  BY <1>2, <1>5, <1>8, <1>9, <1>10

(* The sorts that may be asked for, and the order each of them makes.      *)
LEMMA SortsAre ==
  ASSUME NEW sorts \in Sorts, \A i \in DOMAIN sorts : sorts[i][1] \in DOMAIN Column
  PROVE  \/ sorts = << >>
         \/ \E k \in DOMAIN Column, asc \in BOOLEAN : sorts = <<<<k, asc>>>>
         \/ \E k, l \in DOMAIN Column : sorts = <<<<k, TRUE>>, <<l, FALSE>>>>
<1> DEFINE Nought == sorts = << >>
           One == \E k \in DOMAIN Column, asc \in BOOLEAN : sorts = <<<<k, asc>>>>
           Two == \E k, l \in DOMAIN Column : sorts = <<<<k, TRUE>>, <<l, FALSE>>>>
<1>1. ASSUME NEW k, NEW asc \in BOOLEAN, sorts = <<<<k, asc>>>> PROVE One
  <2>1. 1 \in DOMAIN sorts /\ sorts[1][1] = k
    BY <1>1
  <2> QED
    BY <1>1, <2>1
<1> DEFINE ByOne == {<<by>> : by \in Sortable \X BOOLEAN}
           ByTwo == {<<<<by[1], TRUE>>, <<by[2], FALSE>>>> :
                       by \in (Sortable \cap DOMAIN Column) \X (Sortable \cap DOMAIN Column)}
<1>2. sorts = << >> \/ sorts = <<<<"absent", TRUE>>>> \/ sorts \in ByOne \/ sorts \in ByTwo
  BY Zenon DEF Sorts
<1>3. sorts = <<<<"absent", TRUE>>>> => One
  <2> HIDE DEF One
  <2> QED
    BY <1>1, Zenon
<1>4. sorts \in ByOne => One
  <2>1. ASSUME NEW by \in Sortable \X BOOLEAN, sorts = <<by>> PROVE One
    <3>1. PICK k, asc : by = <<k, asc>> /\ asc \in BOOLEAN
      OBVIOUS
    <3>2. sorts = <<<<k, asc>>>>
      BY <2>1, <3>1
    <3> HIDE DEF One
    <3> QED
      BY <1>1, <3>1, <3>2, Zenon
  <2> HIDE DEF One
  <2> QED
    BY <2>1, Zenon
<1>5. sorts \in ByTwo => Two
  <2>1. ASSUME NEW by \in (Sortable \cap DOMAIN Column) \X (Sortable \cap DOMAIN Column),
               sorts = <<<<by[1], TRUE>>, <<by[2], FALSE>>>>
        PROVE  Two
    <3>1. by[1] \in DOMAIN Column /\ by[2] \in DOMAIN Column
      OBVIOUS
    <3> QED
      BY <2>1, <3>1, Zenon
  <2> HIDE DEF Two
  <2> QED
    BY <2>1, Zenon
<1> HIDE DEF Nought, One, Two, ByOne, ByTwo
<1>6. Nought \/ One \/ Two
  BY <1>2, <1>3, <1>4, <1>5, Zenon DEF Nought
<1> QED
  BY <1>6 DEF Nought, One, Two

LEMMA ColumnsNumber ==
  ASSUME NEW k \in DOMAIN Column, NEW r \in RowId
  PROVE  Column[k][r] \in Nat /\ r \in Nat
  BY ListingAssumption

LEMMA BeforeByOne ==
  ASSUME NEW k \in DOMAIN Column, NEW asc \in BOOLEAN, NEW x, NEW y
  PROVE  Before(<<<<k, asc>>>>, x, y) <=>
           \/ IF asc THEN Column[k][x] < Column[k][y] ELSE Column[k][x] > Column[k][y]
           \/ Column[k][x] = Column[k][y] /\ x < y
<1>1. PICK sorts : sorts = <<<<k, asc>>>>
  OBVIOUS
<1>2. DOMAIN sorts = {1} /\ sorts[1][1] = k /\ sorts[1][2] = asc
  BY <1>1
<1>3. 1 .. 1 - 1 = {}
  OBVIOUS
<1> QED
  BY <1>1, <1>2, <1>3 DEF Before

LEMMA BeforeByTwo ==
  ASSUME NEW k \in DOMAIN Column, NEW l \in DOMAIN Column, NEW x, NEW y
  PROVE  Before(<<<<k, TRUE>>, <<l, FALSE>>>>, x, y) <=>
           \/ Column[k][x] < Column[k][y]
           \/ Column[k][x] = Column[k][y] /\ Column[l][x] > Column[l][y]
           \/ Column[k][x] = Column[k][y] /\ Column[l][x] = Column[l][y] /\ x < y
<1>1. PICK sorts : sorts = <<<<k, TRUE>>, <<l, FALSE>>>>
  OBVIOUS
<1>2. /\ DOMAIN sorts = {1, 2} /\ sorts[1][1] = k /\ sorts[1][2] = TRUE
      /\ sorts[2][1] = l /\ sorts[2][2] = FALSE
  BY <1>1
<1>3. 1 .. 1 - 1 = {} /\ 1 .. 2 - 1 = {1}
  OBVIOUS
<1> DEFINE AtPlace(i) ==
        /\ IF sorts[i][2] THEN Column[sorts[i][1]][x] < Column[sorts[i][1]][y]
                          ELSE Column[sorts[i][1]][x] > Column[sorts[i][1]][y]
        /\ \A j \in 1 .. i - 1 : Column[sorts[j][1]][x] = Column[sorts[j][1]][y]
<1>5. Before(sorts, x, y) <=>
        \/ \E i \in {1, 2} : AtPlace(i)
        \/ (\A i \in {1, 2} : Column[sorts[i][1]][x] = Column[sorts[i][1]][y]) /\ x < y
  BY <1>2 DEF Before
<1>6. AtPlace(1) <=> Column[k][x] < Column[k][y]
  BY <1>2, <1>3
<1>7. AtPlace(2) <=> Column[k][x] = Column[k][y] /\ Column[l][x] > Column[l][y]
  <2>1. \A j \in {1} : sorts[j][1] = k
    BY <1>2
  <2> QED
    BY <1>2, <1>3, <2>1
<1>8. (\E i \in {1, 2} : AtPlace(i)) <=> AtPlace(1) \/ AtPlace(2)
  <2> HIDE DEF AtPlace
  <2> QED
    OBVIOUS
<1>9. (\A i \in {1, 2} : Column[sorts[i][1]][x] = Column[sorts[i][1]][y]) <=>
        Column[k][x] = Column[k][y] /\ Column[l][x] = Column[l][y]
  BY <1>2
<1> HIDE DEF AtPlace
<1> QED
  BY <1>1, <1>5, <1>6, <1>7, <1>8, <1>9

LEMMA BeforeById ==
  ASSUME NEW x, NEW y
  PROVE  Before(<< >>, x, y) <=> x < y
  BY DEF Before

LEMMA BeforeStrict ==
  ASSUME NEW sorts \in Sorts, \A i \in DOMAIN sorts : sorts[i][1] \in DOMAIN Column
  PROVE  /\ \A x \in RowId : ~ Before(sorts, x, x)
         /\ \A x, y \in RowId : x # y => Before(sorts, x, y) \/ Before(sorts, y, x)
         /\ \A x, y, z \in RowId : Before(sorts, x, y) /\ Before(sorts, y, z) => Before(sorts, x, z)
<1>1. \A r \in RowId : r \in Nat
  BY ListingAssumption
<1>2. CASE sorts = << >>
  BY <1>1, <1>2, BeforeById
<1>3. ASSUME NEW k \in DOMAIN Column, NEW asc \in BOOLEAN, sorts = <<<<k, asc>>>>
      PROVE  /\ \A x \in RowId : ~ Before(sorts, x, x)
             /\ \A x, y \in RowId : x # y => Before(sorts, x, y) \/ Before(sorts, y, x)
             /\ \A x, y, z \in RowId :
                  Before(sorts, x, y) /\ Before(sorts, y, z) => Before(sorts, x, z)
  <2>1. \A r \in RowId : Column[k][r] \in Nat
    BY ColumnsNumber
  <2>2. \A x, y \in RowId : Before(sorts, x, y) <=>
           \/ IF asc THEN Column[k][x] < Column[k][y] ELSE Column[k][x] > Column[k][y]
           \/ Column[k][x] = Column[k][y] /\ x < y
    BY <1>3, BeforeByOne
  <2> QED
    BY <1>1, <2>1, <2>2
<1>4. ASSUME NEW k \in DOMAIN Column, NEW l \in DOMAIN Column, sorts = <<<<k, TRUE>>, <<l, FALSE>>>>
      PROVE  /\ \A x \in RowId : ~ Before(sorts, x, x)
             /\ \A x, y \in RowId : x # y => Before(sorts, x, y) \/ Before(sorts, y, x)
             /\ \A x, y, z \in RowId :
                  Before(sorts, x, y) /\ Before(sorts, y, z) => Before(sorts, x, z)
  <2>1. \A r \in RowId : Column[k][r] \in Nat /\ Column[l][r] \in Nat
    BY ColumnsNumber
  <2>2. \A x, y \in RowId : Before(sorts, x, y) <=>
           \/ Column[k][x] < Column[k][y]
           \/ Column[k][x] = Column[k][y] /\ Column[l][x] > Column[l][y]
           \/ Column[k][x] = Column[k][y] /\ Column[l][x] = Column[l][y] /\ x < y
    BY <1>4, BeforeByTwo
  <2> QED
    BY <1>1, <2>1, <2>2
<1> QED
  BY <1>2, <1>3, <1>4, SortsAre

LEMMA OrderOfRows ==
  ASSUME ListTypeOK
  PROVE  /\ RowOrder \subseteq RowId \X RowId
         /\ \A x, y \in RowId : ~Hidden => (<<x, y>> \in RowOrder <=> Before(query.sorts, x, y))
         /\ \A x \in RowId : <<x, x>> \notin RowOrder
         /\ \A x, y, z \in RowId : <<x, y>> \in RowOrder /\ <<y, z>> \in RowOrder => <<x, z>> \in RowOrder
         /\ Hidden => RowOrder = {}
         /\ ~Hidden => StrictTotal(RowId, RowOrder)
<1>1. CASE Hidden
  BY <1>1 DEF RowOrder
<1>2. CASE ~Hidden
  <2>1. query.sorts \in Sorts
    BY DEF ListTypeOK
  <2>2. \A i \in DOMAIN query.sorts : query.sorts[i][1] \in DOMAIN Column
    BY <1>2 DEF Hidden
  <2>3. RowOrder = {p \in RowId \X RowId : Before(query.sorts, p[1], p[2])}
    BY <1>2 DEF RowOrder
  <2>4. \A x, y \in RowId : <<x, y>> \in RowOrder <=> Before(query.sorts, x, y)
    BY <2>3
  <2>5. PICK sorts : sorts = query.sorts
    OBVIOUS
  <2>6. /\ \A x \in RowId : ~ Before(sorts, x, x)
        /\ \A x, y \in RowId : x # y => Before(sorts, x, y) \/ Before(sorts, y, x)
        /\ \A x, y, z \in RowId : Before(sorts, x, y) /\ Before(sorts, y, z) => Before(sorts, x, z)
    BY <2>1, <2>2, <2>5, BeforeStrict
  <2>7. /\ \A x \in RowId : <<x, x>> \notin RowOrder
        /\ \A x, y \in RowId : x # y => <<x, y>> \in RowOrder \/ <<y, x>> \in RowOrder
        /\ \A x, y, z \in RowId : <<x, y>> \in RowOrder /\ <<y, z>> \in RowOrder => <<x, z>> \in RowOrder
    BY <2>4, <2>5, <2>6
  <2> QED
    BY <1>2, <2>3, <2>4, <2>7 DEF StrictTotal
<1> QED
  BY <1>1, <1>2

LEMMA WantedRows ==
  ASSUME ListTypeOK
  PROVE  /\ Wanted(table) \in SUBSET RowId /\ IsFiniteSet(Wanted(table))
         /\ Hidden /\ Cardinality(Wanted(table)) <= 1 => StrictTotal(Wanted(table), RowOrder)
         /\ ~Hidden => StrictTotal(Wanted(table), RowOrder)
<1>1. Wanted(table) \in SUBSET RowId
  BY DEF Wanted, ListTypeOK
<1>2. IsFiniteSet(Wanted(table))
  BY <1>1, ListingAssumption, FS_Subset
<1>3. ~Hidden => StrictTotal(Wanted(table), RowOrder)
  BY <1>1, OrderOfRows DEF StrictTotal
<1>4. ASSUME Hidden, Cardinality(Wanted(table)) <= 1 PROVE StrictTotal(Wanted(table), RowOrder)
  <2>1. \A x, y \in Wanted(table) : x = y
    <3>1. Cardinality(Wanted(table)) \in Nat
      BY <1>2, FS_CardinalityType
    <3>2. CASE Cardinality(Wanted(table)) = 0
      BY <1>2, <3>2, FS_EmptySet
    <3>3. CASE Cardinality(Wanted(table)) = 1
      BY <1>2, <3>3, FS_Singleton
    <3> QED
      BY <1>4, <3>1, <3>2, <3>3
  <2>2. RowOrder = {}
    BY <1>4, OrderOfRows
  <2> QED
    BY <2>1, <2>2 DEF StrictTotal
<1> QED
  BY <1>1, <1>2, <1>3, <1>4

(* A part of a list, and the places of its rows in the list.               *)
LEMMA PartOf ==
  ASSUME NEW s \in Seq(RowId), NEW a \in Nat, NEW b \in Nat, b <= Len(s)
  PROVE  /\ SubSeq(s, a + 1, b) \in Seq(RowId)
         /\ Len(SubSeq(s, a + 1, b)) = IF a < b THEN b - a ELSE 0
         /\ \A i \in 1 .. b - a : SubSeq(s, a + 1, b)[i] = s[a + i]
<1>1. \A i \in a + 1 .. b : s[i] \in RowId
  BY LenProperties, ElementOfSeq
<1>2. a + 1 \in Int /\ b \in Int
  OBVIOUS
<1>3. PICK m, t : m = a + 1 /\ t = SubSeq(s, a + 1, b)
  OBVIOUS
<1>4. /\ t \in Seq(RowId)
      /\ Len(t) = IF m <= b THEN b - m + 1 ELSE 0
      /\ \A i \in 1 .. b - m + 1 : t[i] = s[m + i - 1]
  BY <1>1, <1>2, <1>3, SubSeqProperties
<1>5. Len(t) = IF a < b THEN b - a ELSE 0
  BY <1>2, <1>3, <1>4
<1>6. ASSUME NEW i \in 1 .. b - a PROVE t[i] = s[a + i]
  <2>1. i \in 1 .. b - m + 1 /\ m + i - 1 = a + i
    BY <1>3
  <2> QED
    BY <1>4, <2>1
<1> QED
  BY <1>3, <1>4, <1>5, <1>6

(* The place of a marker in a list of rows in order.                       *)
LEMMA PlaceIs ==
  ASSUME NEW S \in SUBSET RowId, NEW R, IsFiniteSet(S), StrictTotal(S, R), NEW marker
  PROVE  /\ marker = None => Place(Ordered(S, R), marker) = -1
         /\ marker \in S => Place(Ordered(S, R), marker) = Rank(S, R, marker)
         /\ marker \notin S /\ marker # None =>
              Place(Ordered(S, R), marker) = Cardinality(S) - 1
         /\ ToSet(Ordered(S, R)) = S
<1>1. PICK s, n : s = Ordered(S, R) /\ n = Cardinality(S)
  OBVIOUS
<1>2. /\ s \in Seq(S) /\ Len(s) = n /\ n \in Nat
      /\ \A k \in 1 .. n : s[k] \in S /\ Rank(S, R, s[k]) = k - 1
      /\ \A r \in S : Rank(S, R, r) + 1 \in 1 .. n /\ s[Rank(S, R, r) + 1] = r
  BY <1>1, OrderedIs
<1>3. DOMAIN s = 1 .. n
  BY <1>2, LenProperties
<1>4. ToSet(s) = S
  <2>1. \A r \in S : r \in ToSet(s)
    BY <1>2, <1>3 DEF ToSet
  <2>2. \A r \in ToSet(s) : r \in S
    BY <1>2, <1>3 DEF ToSet
  <2> QED
    BY <2>1, <2>2
<1>5. None \notin S
  BY ListingAssumption DEF None
<1>6. ASSUME marker \in S PROVE Place(s, marker) = Rank(S, R, marker)
  <2>1. PICK p : p = Rank(S, R, marker)
    OBVIOUS
  <2>2. p \in Nat /\ p + 1 \in DOMAIN s /\ s[p + 1] = marker
    BY <1>2, <1>3, <1>6, <2>1, RankGrows
  <2>3. \A k \in DOMAIN s : s[k] = marker => k = p + 1
    BY <1>2, <1>3, <2>1, <2>2
  <2>4. (CHOOSE k \in DOMAIN s : s[k] = marker) = p + 1
    BY <2>2, <2>3
  <2>5. Place(s, marker) = (p + 1) - 1
    BY <1>4, <1>5, <1>6, <2>4 DEF Place
  <2> QED
    BY <2>1, <2>2, <2>5
<1>7. marker = None => Place(s, marker) = -1
  BY DEF Place
<1>8. marker \notin S /\ marker # None => Place(s, marker) = n - 1
  BY <1>2, <1>4 DEF Place
<1> QED
  BY <1>1, <1>4, <1>6, <1>7, <1>8

LEMMA PageIs ==
  ASSUME NEW items \in Seq(RowId), NEW limit \in Nat \ {0}, NEW marker,
         NEW q \in 0 .. Len(items), Place(items, marker) = q - 1
  PROVE  Page(items, limit, marker) =
           SubSeq(items, q + 1, IF q + limit <= Len(items) THEN q + limit ELSE Len(items))
<1>1. PICK n : n = Len(items)
  OBVIOUS
<1>2. n \in Nat /\ q \in 0 .. n
  BY <1>1, LenProperties
<1>3. Page(items, limit, marker) = Slice(items, (q - 1) + 1, (q - 1) + limit + 1)
  BY DEF Page
<1>4. (q - 1) + 1 = q /\ (q - 1) + limit + 1 = q + limit
  BY <1>2
<1>5. Slice(items, q, q + limit) = SubSeq(items, Bound(q, n) + 1, Bound(q + limit, n))
  BY <1>1 DEF Slice
<1>6. Bound(q, n) = q /\ Bound(q + limit, n) = IF q + limit <= n THEN q + limit ELSE n
  BY <1>2 DEF Bound
<1> QED
  BY <1>1, <1>3, <1>4, <1>5, <1>6

LEMMA PageBackIs ==
  ASSUME NEW items \in Seq(RowId), NEW limit \in Nat \ {0}, NEW marker,
         NEW p \in 0 .. Len(items), Place(items, marker) = p
  PROVE  \E b \in Nat : /\ PageBack(items, limit, marker) = SubSeq(items, b + 1, p)
                        /\ limit <= p => b = p - limit
<1>1. PICK n : n = Len(items)
  OBVIOUS
<1>2. n \in Nat /\ p \in 0 .. n /\ p \in Nat
  BY <1>1, LenProperties
<1>3. PageBack(items, limit, marker) = SubSeq(items, Bound(p - limit, n) + 1, Bound(p, n))
  BY <1>1 DEF Slice, PageBack
<1>4. Bound(p, n) = p
  BY <1>2 DEF Bound
<1>5. Bound(p - limit, n) \in Nat /\ (limit <= p => Bound(p - limit, n) = p - limit)
  BY <1>2 DEF Bound
<1> QED
  BY <1>3, <1>4, <1>5

(* The first of what follows a row are the page after it.                  *)
LEMMA FirstAfter ==
  ASSUME NEW s \in Seq(RowId), NEW t \in Seq(RowId), NEW p \in Nat, NEW limit \in Nat \ {0},
         p + 1 <= Len(s), Len(t) = Len(s) - p - 1,
         \A k \in 1 .. Len(t) : t[k] = s[p + 1 + k]
  PROVE  SubSeq(s, p + 2, IF p + 1 + limit <= Len(s) THEN p + 1 + limit ELSE Len(s)) =
           FirstRows(limit, t)
<1>1. PICK a, e, n : /\ a = p + 1 /\ n = Len(s)
                     /\ e = IF p + 1 + limit <= Len(s) THEN p + 1 + limit ELSE Len(s)
  OBVIOUS
<1>2. n \in Nat /\ a \in Nat /\ e \in Nat /\ a <= e /\ e <= n /\ a + 1 = p + 2
  BY <1>1, LenProperties
<1>3. PICK x : x = SubSeq(s, a + 1, e)
  OBVIOUS
<1>4. x \in Seq(RowId) /\ Len(x) = e - a /\ \A i \in 1 .. e - a : x[i] = s[a + i]
  <2>1. /\ x \in Seq(RowId) /\ Len(x) = IF a < e THEN e - a ELSE 0
        /\ \A i \in 1 .. e - a : x[i] = s[a + i]
    BY <1>1, <1>2, <1>3, PartOf
  <2> QED
    BY <1>2, <2>1
<1>5. PICK l : l = IF limit < Len(t) THEN limit ELSE Len(t)
  OBVIOUS
<1>6. l = e - a /\ l \in Nat /\ l <= Len(t)
  <2>1. PICK m : m = Len(t)
    OBVIOUS
  <2>2. m \in Nat /\ m = n - a
    BY <1>1, <1>2, <2>1, LenProperties
  <2>3. CASE limit < m
    <3>1. a + limit <= n /\ l = limit
      BY <1>2, <1>5, <2>1, <2>2, <2>3
    <3>2. e = p + 1 + limit
      BY <1>1, <1>2, <3>1
    <3>3. a = p + 1
      BY <1>1
    <3> QED
      BY <1>2, <2>1, <2>2, <2>3, <3>1, <3>2, <3>3
  <2>4. CASE ~ limit < m
    <3>1. l = m
      BY <1>5, <2>1, <2>2, <2>4
    <3>3. a + limit >= n
      BY <1>2, <2>2, <2>4
    <3>2. e = n
      <4>1. e = IF a + limit <= n THEN a + limit ELSE n
        BY <1>1
      <4> QED
        BY <1>2, <3>3, <4>1
    <3> QED
      BY <1>2, <2>1, <2>2, <3>1, <3>2
  <2> QED
    BY <2>3, <2>4
<1>7. PICK y : y = SubSeq(t, 1, l)
  OBVIOUS
<1>8. y \in Seq(RowId) /\ Len(y) = l /\ \A i \in 1 .. l : y[i] = t[i]
  <2>1. y = SubSeq(t, 0 + 1, l) /\ 0 \in Nat
    BY <1>7
  <2>2. /\ y \in Seq(RowId) /\ Len(y) = IF 0 < l THEN l - 0 ELSE 0
        /\ \A i \in 1 .. l - 0 : y[i] = t[0 + i]
    BY <1>6, <2>1, PartOf
  <2> QED
    BY <1>6, <2>2
<1>9. ASSUME NEW i \in 1 .. l PROVE x[i] = y[i]
  <2>1. i \in 1 .. Len(t) /\ p + 1 + i = a + i
    BY <1>1, <1>2, <1>6, LenProperties
  <2> QED
    BY <1>4, <1>6, <1>8, <2>1
<1>10. x = y
  BY <1>4, <1>6, <1>8, <1>9, SeqEqual
<1> QED
  BY <1>1, <1>2, <1>3, <1>5, <1>7, <1>10 DEF FirstRows

(* The first of what precedes it backwards, turned round again, hold the   *)
(* page before it, and are that page when there are as many.               *)
BackAgrees(back, native, limit) ==
  /\ \E k \in 1 .. Len(native) + 1 : back = SubSeq(native, k, Len(native))
  /\ Len(native) = limit => back = native

LEMMA FirstBefore ==
  ASSUME NEW s \in Seq(RowId), NEW t \in Seq(RowId), NEW p \in Nat, NEW limit \in Nat \ {0},
         p <= Len(s), Len(t) = p, \A k \in 1 .. p : t[k] = s[p + 1 - k],
         NEW b \in Nat, limit <= p => b = p - limit
  PROVE  BackAgrees(SubSeq(s, b + 1, p), Reverse(FirstRows(limit, t)), limit)
<1>0. PICK native : native = Reverse(FirstRows(limit, t))
  OBVIOUS
<1>1. PICK l : l = IF limit < p THEN limit ELSE p
  OBVIOUS
<1>2. l \in Nat /\ l <= p /\ l <= limit /\ (l = limit \/ l = p)
  BY <1>1
<1>3. PICK y : y = SubSeq(t, 1, l)
  OBVIOUS
<1>4. y = FirstRows(limit, t)
  BY <1>1, <1>3 DEF FirstRows
<1>5. y \in Seq(RowId) /\ Len(y) = l /\ \A i \in 1 .. l : y[i] = t[i]
  <2>1. y = SubSeq(t, 0 + 1, l) /\ 0 \in Nat
    BY <1>3
  <2>2. /\ y \in Seq(RowId) /\ Len(y) = IF 0 < l THEN l - 0 ELSE 0
        /\ \A i \in 1 .. l - 0 : y[i] = t[0 + i]
    BY <1>2, <2>1, PartOf
  <2> QED
    BY <1>2, <2>2
<1>6. native = [i \in 1 .. l |-> y[(l - i) + 1]]
  BY <1>0, <1>4, <1>5 DEF Reverse
<1>7. ASSUME NEW i \in 1 .. l PROVE native[i] = s[(p - l) + i] /\ native[i] \in RowId
  <2>1. (l - i) + 1 \in 1 .. l /\ (l - i) + 1 \in 1 .. p /\ p + 1 - ((l - i) + 1) = (p - l) + i
    BY <1>2
  <2>2. native[i] = t[(l - i) + 1]
    BY <1>5, <1>6, <2>1
  <2>3. (p - l) + i \in 1 .. Len(s)
    BY <1>2, LenProperties
  <2> QED
    BY <2>1, <2>2, <2>3, ElementOfSeq
<1>8. native \in Seq(RowId)
  BY <1>2, <1>6, <1>7
<1>9. Len(native) = l
  BY <1>2, <1>6, <1>8, LenProperties
<1>10. PICK x : x = SubSeq(s, b + 1, p)
  OBVIOUS
<1>11. /\ x \in Seq(RowId) /\ Len(x) = (IF b < p THEN p - b ELSE 0)
       /\ \A i \in 1 .. p - b : x[i] = s[b + i]
  BY <1>10, PartOf
<1>12. ASSUME limit <= p PROVE BackAgrees(x, native, limit)
  <2>1. l = limit /\ b = p - l
    BY <1>1, <1>12
  <2>2. Len(x) = l
    BY <1>2, <1>11, <2>1
  <2>3. ASSUME NEW i \in 1 .. l PROVE x[i] = native[i]
    <3>1. i \in 1 .. p - b /\ b + i = (p - l) + i
      BY <1>2, <2>1
    <3> QED
      BY <1>7, <1>11, <3>1
  <2>4. x = native
    BY <1>8, <1>9, <1>11, <2>2, <2>3, SeqEqual
  <2>5. native = SubSeq(native, 1, Len(native))
    BY <1>8, SubSeqFull
  <2>6. 1 \in 1 .. Len(native) + 1
    BY <1>2, <1>9
  <2> QED
    BY <2>4, <2>5, <2>6 DEF BackAgrees
<1>13. ASSUME ~ limit <= p PROVE BackAgrees(x, native, limit)
  <2>1. l = p /\ l # limit
    BY <1>1, <1>13
  <2>2. CASE b < p
    <3>1. PICK z : z = SubSeq(native, b + 1, l)
      OBVIOUS
    <3>2. /\ z \in Seq(RowId) /\ Len(z) = (IF b < l THEN l - b ELSE 0)
          /\ \A i \in 1 .. l - b : z[i] = native[b + i]
      BY <1>2, <1>8, <1>9, <3>1, PartOf
    <3>3. Len(x) = p - b /\ Len(z) = p - b
      BY <1>11, <2>1, <2>2, <3>2
    <3>4. ASSUME NEW i \in 1 .. p - b PROVE x[i] = z[i]
      <4>1. b + i \in 1 .. l /\ (p - l) + (b + i) = b + i /\ i \in 1 .. l - b
        BY <1>2, <2>1, <2>2
      <4>2. native[b + i] = s[(p - l) + (b + i)]
        BY <1>7, <4>1
      <4> QED
        BY <1>11, <3>2, <4>1, <4>2
    <3>5. x = z
      BY <1>11, <3>2, <3>3, <3>4, SeqEqual
    <3>6. b + 1 \in 1 .. Len(native) + 1
      BY <1>2, <1>9, <2>1, <2>2
    <3> QED
      BY <1>9, <2>1, <3>1, <3>5, <3>6 DEF BackAgrees
  <2>3. CASE ~ b < p
    <3>1. x = << >>
      <4>1. p < b + 1 /\ p \in Int /\ b + 1 \in Int
        BY <2>3
      <4> QED
        BY <1>10, <4>1, SubSeqEmpty
    <3>2. SubSeq(native, l + 1, l) = << >>
      <4>1. l < l + 1 /\ l \in Int /\ l + 1 \in Int
        BY <1>2
      <4> QED
        BY <4>1, SubSeqEmpty
    <3>3. l + 1 \in 1 .. Len(native) + 1
      BY <1>2, <1>9
    <3> QED
      BY <1>9, <2>1, <3>1, <3>2, <3>3 DEF BackAgrees
  <2> QED
    BY <2>2, <2>3
<1>14. BackAgrees(x, native, limit)
  BY <1>12, <1>13
<1> QED
  BY <1>0, <1>10, <1>14

(* The pages of the API and those of the database agree.                   *)
LEMMA PagesAlike ==
  ASSUME ListTypeOK
  PROVE  PagesAgree
<1>1. SUFFICES ASSUME ~Hidden, NEW m \in Wanted(table), NEW limit \in 1 .. MaxAsked
               PROVE  /\ Page(Listed, limit, m) = NativePage(limit, m)
                      /\ LET back == PageBack(Listed, limit, m)
                             native == NativePageBack(limit, m)
                         IN /\ \E k \in 1 .. Len(native) + 1 :
                                 back = SubSeq(native, k, Len(native))
                            /\ Len(native) = limit => back = native
  BY Zenon DEF PagesAgree
<1>2. PICK S, R : S = Wanted(table) /\ R = RowOrder
  OBVIOUS
<1>3. S \in SUBSET RowId /\ IsFiniteSet(S) /\ StrictTotal(S, R) /\ m \in S
  BY <1>1, <1>2, WantedRows
<1>4. PICK s, p : s = Listed /\ p = Rank(S, R, m)
  OBVIOUS
<1>5. s = Ordered(S, R)
  BY <1>2, <1>4 DEF Listed
<1>6. /\ s \in Seq(RowId) /\ Len(s) = Cardinality(S) /\ Cardinality(S) \in Nat
      /\ p \in Nat /\ p + 1 <= Len(s)
  <2>1. s \in Seq(S) /\ Len(s) = Cardinality(S) /\ Cardinality(S) \in Nat
    BY <1>3, <1>5, OrderedIs
  <2>2. p \in 0 .. Cardinality(S) - 1
    BY <1>3, <1>4, RankGrows
  <2> QED
    BY <1>3, <2>1, <2>2, SeqMonotonic
<1>7. Place(s, m) = p
  BY <1>3, <1>4, <1>5, PlaceIs
<1>8. limit \in Nat \ {0}
  BY ListingAssumption
<1>9. Page(s, limit, m) = NativePage(limit, m)
  <2>1. PICK T : T = {r \in S : <<m, r>> \in R}
    OBVIOUS
  <2>2. \A r : r \in T <=> r \in S /\ <<m, r>> \in R
    BY <2>1
  <2>3. PICK t : t = Ordered(T, R)
    OBVIOUS
  <2>4. /\ t \in Seq(S) /\ Len(t) = Cardinality(S) - Rank(S, R, m) - 1
        /\ \A k \in 1 .. Len(t) : t[k] = Ordered(S, R)[Rank(S, R, m) + 1 + k]
    BY <1>3, <2>2, <2>3, RestOfOrder
  <2>5. t \in Seq(RowId) /\ Len(t) = Len(s) - p - 1 /\ \A k \in 1 .. Len(t) : t[k] = s[p + 1 + k]
    BY <1>3, <1>4, <1>5, <1>6, <2>4, SeqMonotonic
  <2>6. FirstRows(limit, t) =
          SubSeq(s, p + 2, IF p + 1 + limit <= Len(s) THEN p + 1 + limit ELSE Len(s))
    BY <1>6, <1>8, <2>5, FirstAfter
  <2>7. p + 1 \in 0 .. Len(s) /\ Place(s, m) = (p + 1) - 1 /\ (p + 1) + 1 = p + 2
    BY <1>6, <1>7
  <2>8. Page(s, limit, m) =
          SubSeq(s, (p + 1) + 1, IF (p + 1) + limit <= Len(s) THEN (p + 1) + limit ELSE Len(s))
    BY <1>6, <1>8, <2>7, PageIs
  <2>9. NativePage(limit, m) = FirstRows(limit, t)
    BY <1>2, <2>1, <2>3 DEF NativePage
  <2> QED
    BY <2>6, <2>7, <2>8, <2>9
<1>10. PICK T : T = {r \in S : <<r, m>> \in R}
  OBVIOUS
<1>11. \A r : r \in T <=> r \in S /\ <<r, m>> \in R
  BY <1>10
<1>12. PICK t : t = Ordered(T, Turned(R))
  OBVIOUS
<1>13. /\ t \in Seq(S) /\ Len(t) = Rank(S, R, m)
       /\ \A k \in 1 .. Len(t) : t[k] = Ordered(S, R)[Rank(S, R, m) + 1 - k]
  BY <1>3, <1>11, <1>12, StartOfOrder
<1>14. t \in Seq(RowId) /\ Len(t) = p /\ \A k \in 1 .. p : t[k] = s[p + 1 - k]
  BY <1>3, <1>4, <1>5, <1>13, SeqMonotonic
<1>15. PICK native : native = NativePageBack(limit, m)
  OBVIOUS
<1>16. native = Reverse(FirstRows(limit, t))
  BY <1>2, <1>10, <1>12, <1>15 DEF NativePageBack
<1>17. PICK b \in Nat : /\ PageBack(s, limit, m) = SubSeq(s, b + 1, p)
                        /\ limit <= p => b = p - limit
  <2>1. p \in 0 .. Len(s)
    BY <1>6
  <2> QED
    BY <1>6, <1>7, <1>8, <2>1, PageBackIs
<1>18. BackAgrees(SubSeq(s, b + 1, p), Reverse(FirstRows(limit, t)), limit)
  <2>1. s \in Seq(RowId) /\ p \in Nat /\ p <= Len(s)
    BY <1>6
  <2> QED
    BY <1>8, <1>14, <1>17, <2>1, FirstBefore
<1>19. BackAgrees(PageBack(s, limit, m), native, limit)
  BY <1>16, <1>17, <1>18
<1> QED
  BY <1>4, <1>9, <1>15, <1>19 DEF BackAgrees

(* The page that a walk asks for next: from the row after its marker on.   *)
WalkPage == Page(Listed, EffectiveLimit(query.limit), query.marker)
Walking ==
  ListTypeOK /\ WalkSound /\ listPc = "walking" /\ (Hidden => Cardinality(Wanted(table)) <= 1)

LEMMA LimitOfWalk ==
  ASSUME Walking
  PROVE  EffectiveLimit(query.limit) \in Nat
<1>1. query.limit \in {None} \cup 0 .. MaxAsked /\ query.limit # None /\ query.max \in MaxLimits
  BY DEF Walking, ListTypeOK
<1>3. MaxAsked \in Nat /\ MaxLimits \subseteq Int
  BY ListingAssumption
<1>4. \A n \in 0 .. MaxAsked : n \in Nat
  BY <1>3
<1>5. query.limit \in 0 .. MaxAsked /\ query.max \in MaxLimits
  BY <1>1
<1>2. query.limit \in Nat /\ query.max \in Int
  BY <1>3, <1>4, <1>5
<1> QED
  BY <1>2 DEF EffectiveLimit

LEMMA ListOfWalk ==
  ASSUME Walking
  PROVE  /\ Wanted(table) \in SUBSET RowId /\ IsFiniteSet(Wanted(table))
         /\ StrictTotal(Wanted(table), RowOrder)
         /\ Listed \in Seq(Wanted(table)) /\ Listed \in Seq(RowId)
         /\ Len(Listed) \in Nat /\ DOMAIN Listed = 1 .. Len(Listed)
         /\ Len(Listed) = Cardinality(Wanted(table))
<1>1. /\ Wanted(table) \in SUBSET RowId /\ IsFiniteSet(Wanted(table))
      /\ StrictTotal(Wanted(table), RowOrder)
  BY WantedRows DEF Walking
<1>2. /\ Listed \in Seq(Wanted(table)) /\ Len(Listed) = Cardinality(Wanted(table))
      /\ Cardinality(Wanted(table)) \in Nat
  BY <1>1, OrderedIs DEF Listed
<1>3. Listed \in Seq(RowId)
  BY <1>1, <1>2, SeqMonotonic
<1>4. DOMAIN Listed = 1 .. Len(Listed)
  BY <1>2, LenProperties
<1> QED
  BY <1>1, <1>2, <1>3, <1>4

LEMMA PageOfWalk ==
  ASSUME Walking
  PROVE  \E q, e \in Nat :
           /\ q <= e /\ e <= Len(Listed) /\ WalkPage = SubSeq(Listed, q + 1, e)
           /\ query.marker = None => q = 0
           /\ query.marker \in Wanted(table) =>
                q = Rank(Wanted(table), RowOrder, query.marker) + 1
           /\ query.marker \notin Wanted(table) /\ query.marker # None => q = e
           /\ (EffectiveLimit(query.limit) = 0 \/ e - q < EffectiveLimit(query.limit)) =>
                e = Len(Listed)
           /\ EffectiveLimit(query.limit) = 0 => query.marker = None
<1>1. PICK S, R, s, n, m, limit :
        /\ S = Wanted(table) /\ R = RowOrder /\ s = Listed /\ n = Len(Listed)
        /\ m = query.marker /\ limit = EffectiveLimit(query.limit)
  OBVIOUS
<1>2. /\ S \in SUBSET RowId /\ IsFiniteSet(S) /\ StrictTotal(S, R) /\ s \in Seq(RowId)
      /\ n \in Nat /\ n = Len(s) /\ n = Cardinality(S)
  BY <1>1, ListOfWalk
<1>3. limit \in Nat
  BY <1>1, LimitOfWalk
<1>4. s = Ordered(S, R)
  BY <1>1 DEF Listed
<1>5. None \notin S
  BY <1>2, ListingAssumption DEF None
<1>6. PICK q : q = IF m = None THEN 0 ELSE IF m \in S THEN Rank(S, R, m) + 1 ELSE n
  OBVIOUS
<1>7. q \in 0 .. n /\ q \in Nat
  <2>1. m \in S => Rank(S, R, m) \in 0 .. n - 1
    BY <1>2, RankGrows
  <2> QED
    BY <1>2, <1>6, <2>1
<1>8. Place(s, m) = q - 1
  <2>1. /\ m = None => Place(s, m) = -1
        /\ m \in S => Place(s, m) = Rank(S, R, m)
        /\ m \notin S /\ m # None => Place(s, m) = n - 1
    BY <1>2, <1>4, PlaceIs
  <2>2. CASE m = None
    BY <1>6, <2>1, <2>2
  <2>3. CASE m # None /\ m \in S
    <3>1. Rank(S, R, m) \in 0 .. n - 1
      BY <1>2, <2>3, RankGrows
    <3> QED
      BY <1>6, <2>1, <2>3, <3>1
  <2>4. CASE m # None /\ m \notin S
    BY <1>6, <2>1, <2>4
  <2> QED
    BY <2>2, <2>3, <2>4
<1>9. limit = 0 => m = None
  <2>1. IF seen = << >> THEN m = None ELSE m = Last(seen) /\ limit > 0
    BY <1>1 DEF Walking, WalkSound
  <2> QED
    BY <1>3, <2>1
<1>10. \E e \in Nat : /\ q <= e /\ e <= n /\ Page(s, limit, m) = SubSeq(s, q + 1, e)
                      /\ q = n => q = e
                      /\ (limit = 0 \/ e - q < limit) => e = n
  <2>1. CASE limit = 0
    <3>1. q = 0 /\ Page(s, limit, m) = s
      BY <1>6, <1>9, <2>1 DEF Page
    <3>2. SubSeq(s, 1, n) = s
      BY <1>2, SubSeqFull
    <3> QED
      BY <1>2, <1>7, <3>1, <3>2
  <2>2. CASE limit # 0
    <3>1. limit \in Nat \ {0} /\ q \in 0 .. Len(s)
      BY <1>2, <1>3, <1>7, <2>2
    <3>2. Page(s, limit, m) =
            SubSeq(s, q + 1, IF q + limit <= Len(s) THEN q + limit ELSE Len(s))
      BY <1>2, <1>8, <3>1, PageIs
    <3>3. PICK e : e = IF q + limit <= n THEN q + limit ELSE n
      OBVIOUS
    <3>4. e \in Nat /\ q <= e /\ e <= n /\ (q = n => q = e) /\ (e - q < limit => e = n)
      BY <1>2, <1>7, <3>1, <3>3
    <3>5. Page(s, limit, m) = SubSeq(s, q + 1, e)
      BY <1>2, <3>2, <3>3
    <3> QED
      BY <2>2, <3>4, <3>5
  <2> QED
    BY <2>1, <2>2
<1>11. PICK e \in Nat : /\ q <= e /\ e <= n /\ Page(s, limit, m) = SubSeq(s, q + 1, e)
                        /\ q = n => q = e
                        /\ (limit = 0 \/ e - q < limit) => e = n
  BY <1>10
<1>12. /\ m = None => q = 0
       /\ m \in S => q = Rank(S, R, m) + 1
       /\ m \notin S /\ m # None => q = n
  BY <1>5, <1>6
<1>13. WalkPage = SubSeq(s, q + 1, e)
  BY <1>1, <1>11 DEF WalkPage
<1> QED
  BY <1>1, <1>7, <1>9, <1>11, <1>12, <1>13

(* Where a wanted row is: it was seen, it comes up to the marker, it is on *)
(* the page, or it comes after the page.                                   *)
LEMMA RowsOfPage ==
  ASSUME Walking, NEW q \in Nat, NEW e \in Nat, q <= e, e <= Len(Listed),
         WalkPage = SubSeq(Listed, q + 1, e)
  PROVE  /\ WalkPage \in Seq(RowId) /\ Len(WalkPage) = e - q
         /\ \A i \in 1 .. e - q : WalkPage[i] = Listed[q + i] /\ WalkPage[i] \in Wanted(table)
         /\ \A i, j \in 1 .. e - q : i < j => <<WalkPage[i], WalkPage[j]>> \in RowOrder
         /\ \A r \in Wanted(table) :
              \/ Rank(Wanted(table), RowOrder, r) + 1 <= q
              \/ r \in ToSet(WalkPage)
              \/ e < Rank(Wanted(table), RowOrder, r) + 1
         /\ \A r \in Wanted(table) : e \in Nat \ {0} /\ e < Rank(Wanted(table), RowOrder, r) + 1 =>
              <<Listed[e], r>> \in RowOrder
<1>1. PICK S, R, s, n, page :
        /\ S = Wanted(table) /\ R = RowOrder /\ s = Listed /\ n = Len(Listed)
        /\ page = WalkPage
  OBVIOUS
<1>2. /\ S \in SUBSET RowId /\ IsFiniteSet(S) /\ StrictTotal(S, R) /\ s \in Seq(RowId)
      /\ s \in Seq(S) /\ n \in Nat /\ n = Len(s) /\ n = Cardinality(S)
  BY <1>1, ListOfWalk
<1>3. s = Ordered(S, R)
  BY <1>1 DEF Listed
<1>4. page \in Seq(RowId) /\ Len(page) = e - q /\ \A i \in 1 .. e - q : page[i] = s[q + i]
  <2>1. /\ page \in Seq(RowId) /\ Len(page) = (IF q < e THEN e - q ELSE 0)
        /\ \A i \in 1 .. e - q : page[i] = s[q + i]
    BY <1>1, <1>2, PartOf
  <2> QED
    BY <2>1
<1>5. \A i \in 1 .. e - q : q + i \in 1 .. n
  BY <1>1, <1>2
<1>6. \A i \in 1 .. e - q : page[i] \in S
  <2>1. \A k \in 1 .. n : s[k] \in S
    BY <1>2, ElementOfSeq
  <2> QED
    BY <1>4, <1>5, <2>1
<1>7. \A k, l \in 1 .. n : k < l => <<s[k], s[l]>> \in R
  BY <1>2, <1>3, OrderedInOrder
<1>8. ASSUME NEW i \in 1 .. e - q, NEW j \in 1 .. e - q, i < j PROVE <<page[i], page[j]>> \in R
  <2>1. q + i < q + j
    BY <1>8
  <2> QED
    BY <1>4, <1>5, <1>7, <2>1
<1>9. \A r \in S : Rank(S, R, r) + 1 \in 1 .. n /\ s[Rank(S, R, r) + 1] = r
  BY <1>2, <1>3, OrderedIs
<1>10. ASSUME NEW r \in S, ~ Rank(S, R, r) + 1 <= q, ~ e < Rank(S, R, r) + 1
       PROVE  r \in ToSet(page)
  <2>1. PICK k : k = Rank(S, R, r) + 1
    OBVIOUS
  <2>2. k \in 1 .. n /\ s[k] = r
    BY <1>9, <2>1
  <2>3. k - q \in 1 .. e - q /\ q + (k - q) = k
    BY <1>2, <1>10, <2>1, <2>2
  <2>4. page[k - q] = r
    BY <1>4, <2>2, <2>3
  <2>5. DOMAIN page = 1 .. e - q
    BY <1>4, LenProperties
  <2> QED
    BY <2>3, <2>4, <2>5 DEF ToSet
<1>11. ASSUME NEW r \in S, e # 0, e < Rank(S, R, r) + 1 PROVE <<s[e], r>> \in R
  <2>1. PICK k : k = Rank(S, R, r) + 1
    OBVIOUS
  <2>2. k \in 1 .. n /\ s[k] = r
    BY <1>9, <2>1
  <2>3. e \in 1 .. n /\ e < k
    BY <1>1, <1>11, <2>1
  <2> QED
    BY <1>7, <2>2, <2>3
<1>12. \A r \in S : Rank(S, R, r) + 1 <= q \/ r \in ToSet(page) \/ e < Rank(S, R, r) + 1
  BY <1>10
<1>13. \A r \in S : e \in Nat \ {0} /\ e < Rank(S, R, r) + 1 => <<s[e], r>> \in R
  BY <1>11
<1> QED
  BY <1>1, <1>4, <1>6, <1>8, <1>12, <1>13

(* The marker, once there is one, is the row seen last, and every other    *)
(* row that was seen comes before it.                                      *)
LEMMA SeenSoFar ==
  ASSUME Walking
  PROVE  /\ seen \in Seq(RowId) /\ Len(seen) \in Nat /\ DOMAIN seen = 1 .. Len(seen)
         /\ seen = << >> => query.marker = None
         /\ seen # << >> =>
              /\ query.marker = seen[Len(seen)] /\ query.marker \in RowId /\ query.marker # None
              /\ \A i \in DOMAIN seen : seen[i] = query.marker \/ <<seen[i], query.marker>> \in RowOrder
<1>1. seen \in Seq(RowId)
  BY DEF Walking, ListTypeOK
<1>2. Len(seen) \in Nat /\ DOMAIN seen = 1 .. Len(seen)
  BY <1>1, LenProperties
<1>3. /\ seen = << >> => query.marker = None
      /\ seen # << >> => query.marker = Last(seen)
      /\ \A i, j \in DOMAIN seen : i < j => <<seen[i], seen[j]>> \in RowOrder
  BY DEF Walking, WalkSound
<1>4. ASSUME seen # << >>
      PROVE  /\ query.marker = seen[Len(seen)] /\ query.marker \in RowId /\ query.marker # None
             /\ \A i \in DOMAIN seen : seen[i] = query.marker \/ <<seen[i], query.marker>> \in RowOrder
  <2>1. Len(seen) \in 1 .. Len(seen)
    BY <1>1, <1>2, <1>4, EmptySeq
  <2>2. query.marker = seen[Len(seen)]
    BY <1>3, <1>4 DEF Last
  <2>3. query.marker \in RowId
    BY <1>1, <2>1, <2>2, ElementOfSeq
  <2>4. query.marker # None
    BY <2>3, ListingAssumption DEF None
  <2>5. ASSUME NEW i \in DOMAIN seen
        PROVE  seen[i] = query.marker \/ <<seen[i], query.marker>> \in RowOrder
    <3>1. i = Len(seen) \/ i < Len(seen)
      BY <1>2
    <3> QED
      BY <1>2, <1>3, <2>1, <2>2, <3>1
  <2> QED
    BY <2>2, <2>3, <2>4, <2>5
<1> QED
  BY <1>1, <1>2, <1>3, <1>4

(* What a client then has is in order.                                     *)
LEMMA WalkOnInOrder ==
  ASSUME Walking
  PROVE  /\ seen \o WalkPage \in Seq(RowId)
         /\ \A i, j \in DOMAIN (seen \o WalkPage) :
              i < j => <<(seen \o WalkPage)[i], (seen \o WalkPage)[j]>> \in RowOrder
<1>1. PICK q \in Nat, e \in Nat :
        /\ q <= e /\ e <= Len(Listed) /\ WalkPage = SubSeq(Listed, q + 1, e)
        /\ query.marker \in Wanted(table) =>
             q = Rank(Wanted(table), RowOrder, query.marker) + 1
        /\ query.marker \notin Wanted(table) /\ query.marker # None => q = e
  BY PageOfWalk
<1>2. PICK page, more, l : page = WalkPage /\ more = seen \o WalkPage /\ l = Len(seen)
  OBVIOUS
<1>3. /\ page \in Seq(RowId) /\ Len(page) = e - q
      /\ \A i \in 1 .. e - q : page[i] = Listed[q + i] /\ page[i] \in Wanted(table)
      /\ \A i, j \in 1 .. e - q : i < j => <<page[i], page[j]>> \in RowOrder
  BY <1>1, <1>2, RowsOfPage
<1>4. /\ seen \in Seq(RowId) /\ l \in Nat /\ DOMAIN seen = 1 .. l
      /\ seen # << >> =>
           /\ query.marker = seen[l] /\ query.marker \in RowId /\ query.marker # None
           /\ \A i \in DOMAIN seen : seen[i] = query.marker \/ <<seen[i], query.marker>> \in RowOrder
  BY <1>2, SeenSoFar
<1>5. \A i, j \in 1 .. l : i < j => <<seen[i], seen[j]>> \in RowOrder
  BY <1>4 DEF Walking, WalkSound
<1>6. /\ more \in Seq(RowId) /\ Len(more) = l + (e - q)
      /\ \A i \in 1 .. l + (e - q) : more[i] = IF i <= l THEN seen[i] ELSE page[i - l]
  <2>1. seen \in Seq(RowId) /\ page \in Seq(RowId)
    BY <1>3, <1>4
  <2>2. /\ more \in Seq(RowId) /\ Len(more) = Len(seen) + Len(page)
        /\ \A i \in 1 .. Len(seen) + Len(page) :
             more[i] = IF i <= Len(seen) THEN seen[i] ELSE page[i - Len(seen)]
    BY <1>2, <2>1, ConcatProperties
  <2>3. Len(seen) = l /\ Len(page) = e - q
    BY <1>2, <1>3
  <2> QED
    BY <2>2, <2>3
<1>7. DOMAIN more = 1 .. l + (e - q)
  BY <1>6, LenProperties
<1>8. /\ Wanted(table) \in SUBSET RowId /\ IsFiniteSet(Wanted(table))
      /\ StrictTotal(Wanted(table), RowOrder) /\ Len(Listed) = Cardinality(Wanted(table))
  BY ListOfWalk
<1>9. \A x, y, z \in RowId : <<x, y>> \in RowOrder /\ <<y, z>> \in RowOrder => <<x, z>> \in RowOrder
  BY OrderOfRows DEF Walking
<1>10. ASSUME NEW i \in 1 .. l, NEW j \in 1 .. e - q PROVE <<seen[i], page[j]>> \in RowOrder
  <2>1. seen # << >>
    BY <1>4
  <2>2. q # e
    BY <1>1, <1>10
  <2>3. query.marker \in Wanted(table) /\ q = Rank(Wanted(table), RowOrder, query.marker) + 1
    BY <1>1, <1>4, <2>1, <2>2
  <2>4. <<query.marker, page[j]>> \in RowOrder
    <3>1. PICK r : r = Rank(Wanted(table), RowOrder, query.marker)
      OBVIOUS
    <3>2. /\ r + 1 \in 1 .. Cardinality(Wanted(table))
          /\ Ordered(Wanted(table), RowOrder)[r + 1] = query.marker
      BY <1>8, <2>3, <3>1, OrderedIs
    <3>3. Listed[q] = query.marker /\ q \in 1 .. Cardinality(Wanted(table))
      BY <2>3, <3>1, <3>2 DEF Listed
    <3>4. q + j \in 1 .. Cardinality(Wanted(table)) /\ q < q + j
      BY <1>1, <1>8, <3>3, ListOfWalk
    <3>5. \A k, m \in 1 .. Cardinality(Wanted(table)) : k < m => <<Listed[k], Listed[m]>> \in RowOrder
      BY <1>8, OrderedInOrder DEF Listed
    <3> QED
      BY <1>3, <3>3, <3>4, <3>5
  <2>5. seen[i] \in RowId /\ page[j] \in RowId
    BY <1>3, <1>4, <1>8, ElementOfSeq
  <2> QED
    BY <1>4, <1>9, <2>1, <2>4, <2>5
<1>11. ASSUME NEW i \in DOMAIN more, NEW j \in DOMAIN more, i < j
       PROVE  <<more[i], more[j]>> \in RowOrder
  <2>1. i \in 1 .. l + (e - q) /\ j \in 1 .. l + (e - q)
    BY <1>7
  <2>2. CASE j <= l
    <3>1. i \in 1 .. l /\ j \in 1 .. l /\ more[i] = seen[i] /\ more[j] = seen[j]
      BY <1>4, <1>6, <1>11, <2>1, <2>2
    <3> QED
      BY <1>5, <1>11, <3>1
  <2>3. CASE i <= l /\ ~ j <= l
    <3>1. i \in 1 .. l /\ j - l \in 1 .. e - q /\ more[i] = seen[i] /\ more[j] = page[j - l]
      BY <1>4, <1>6, <2>1, <2>3
    <3> QED
      BY <1>10, <3>1
  <2>4. CASE ~ i <= l /\ ~ j <= l
    <3>1. i - l \in 1 .. e - q /\ j - l \in 1 .. e - q /\ i - l < j - l
      <4>1. l \in Nat /\ i < j
        BY <1>4, <1>11
      <4> QED
        BY <2>1, <2>4, <4>1
    <3>2. more[i] = page[i - l] /\ more[j] = page[j - l]
      BY <1>6, <2>1, <2>4
    <3> QED
      BY <1>3, <3>1, <3>2
  <2>5. j <= l \/ (i <= l /\ ~ j <= l) \/ (~ i <= l /\ ~ j <= l)
    BY <1>4, <1>11, <2>1
  <2> QED
    BY <2>2, <2>3, <2>4, <2>5
<1> QED
  BY <1>2, <1>6, <1>11

(* And no row that stayed is missed.                                       *)
LEMMA WalkOnComplete ==
  ASSUME Walking
  PROVE  LET limit == EffectiveLimit(query.limit)
             ended == limit = 0 \/ Len(WalkPage) < limit
             more == seen \o WalkPage
         IN /\ ended /\ query.marker \notin moved =>
                 \A r \in Wanted(table) : r \notin moved => r \in ToSet(more)
            /\ ~ended => /\ more # << >> /\ limit > 0 /\ Last(more) = Last(WalkPage)
                         /\ Last(WalkPage) \in Wanted(table)
                         /\ \A r \in Wanted(table) : r \notin moved =>
                              r \in ToSet(more) \/ <<Last(WalkPage), r>> \in RowOrder
<1>1. PICK limit, page, more, l : /\ limit = EffectiveLimit(query.limit) /\ page = WalkPage
                                  /\ more = seen \o WalkPage /\ l = Len(seen)
  OBVIOUS
<1>2. PICK q \in Nat, e \in Nat :
        /\ q <= e /\ e <= Len(Listed) /\ WalkPage = SubSeq(Listed, q + 1, e)
        /\ query.marker = None => q = 0
        /\ query.marker \in Wanted(table) =>
             q = Rank(Wanted(table), RowOrder, query.marker) + 1
        /\ query.marker \notin Wanted(table) /\ query.marker # None => q = e
        /\ (limit = 0 \/ e - q < limit) => e = Len(Listed)
  BY <1>1, PageOfWalk
<1>3. PICK At : At = [r \in Wanted(table) |-> Rank(Wanted(table), RowOrder, r) + 1]
  OBVIOUS
<1>4. /\ page \in Seq(RowId) /\ Len(page) = e - q
      /\ \A i \in 1 .. e - q : page[i] = Listed[q + i] /\ page[i] \in Wanted(table)
      /\ \A r \in Wanted(table) : At[r] <= q \/ r \in ToSet(page) \/ e < At[r]
      /\ \A r \in Wanted(table) : e \in Nat \ {0} /\ e < At[r] => <<Listed[e], r>> \in RowOrder
  BY <1>1, <1>2, <1>3, RowsOfPage
<1>5. limit \in Nat /\ seen \in Seq(RowId) /\ l \in Nat
  BY <1>1, LimitOfWalk, SeenSoFar
<1>15. page \in Seq(RowId) /\ Len(page) = e - q /\ q <= e
  BY <1>2, <1>4
<1>6. /\ more \in Seq(RowId) /\ Len(more) = l + (e - q)
      /\ \A i \in 1 .. l + (e - q) : more[i] = IF i <= l THEN seen[i] ELSE page[i - l]
  <2>1. /\ seen \o page \in Seq(RowId) /\ Len(seen \o page) = Len(seen) + Len(page)
        /\ \A i \in 1 .. Len(seen) + Len(page) :
             (seen \o page)[i] = IF i <= Len(seen) THEN seen[i] ELSE page[i - Len(seen)]
    BY <1>5, <1>15, ConcatProperties
  <2>2. more = seen \o page /\ Len(seen) = l
    BY <1>1
  <2> QED
    BY <1>15, <2>1, <2>2
<1>7. DOMAIN more = 1 .. l + (e - q) /\ DOMAIN seen = 1 .. l /\ DOMAIN page = 1 .. e - q
  BY <1>4, <1>5, <1>6, <1>1, LenProperties
<1>8. ASSUME NEW r, r \in ToSet(seen) \/ r \in ToSet(page) PROVE r \in ToSet(more)
  <2>1. CASE r \in ToSet(seen)
    <3>1. PICK i \in 1 .. l : seen[i] = r
      BY <1>7, <2>1 DEF ToSet
    <3>2. i \in 1 .. l + (e - q) /\ more[i] = r
      BY <1>2, <1>5, <1>6, <3>1
    <3> QED
      BY <1>7, <3>2 DEF ToSet
  <2>2. CASE r \in ToSet(page)
    <3>1. PICK i \in 1 .. e - q : page[i] = r
      BY <1>7, <2>2 DEF ToSet
    <3>2. l + i \in 1 .. l + (e - q) /\ ~ l + i <= l /\ (l + i) - l = i
      BY <1>2, <1>5
    <3>3. more[l + i] = r
      BY <1>6, <3>1, <3>2
    <3> QED
      BY <1>7, <3>2, <3>3 DEF ToSet
  <2> QED
    BY <1>8, <2>1, <2>2
<1>9. /\ query.marker \in {None} \cup Wanted(table) \cup moved
      /\ query.marker # None => \A r \in Wanted(table) \ moved :
           r \in ToSet(seen) \/ <<query.marker, r>> \in RowOrder
  BY DEF Walking, WalkSound
<1>10. /\ IsFiniteSet(Wanted(table)) /\ StrictTotal(Wanted(table), RowOrder)
       /\ Len(Listed) = Cardinality(Wanted(table)) /\ Len(Listed) \in Nat
  BY ListOfWalk
<1>11. \A r \in Wanted(table) : At[r] \in 1 .. Len(Listed)
  BY <1>3, <1>10, OrderedIs
(* A row up to the marker that stayed was seen, if the marker is there.    *)
<1>12. ASSUME NEW r \in Wanted(table), r \notin moved, At[r] <= q,
              query.marker = None \/ query.marker \in Wanted(table)
       PROVE  r \in ToSet(seen)
  <2>1. query.marker # None
    BY <1>2, <1>11, <1>12
  <2>2. query.marker \in Wanted(table) /\ q = Rank(Wanted(table), RowOrder, query.marker) + 1
    BY <1>2, <1>12, <2>1
  <2>3. \A x, y \in Wanted(table) : <<x, y>> \in RowOrder =>
          Rank(Wanted(table), RowOrder, x) < Rank(Wanted(table), RowOrder, y)
    BY <1>10, RankGrows
  <2>4. \A x \in Wanted(table) : Rank(Wanted(table), RowOrder, x) \in Int
    BY <1>10, RankGrows
  <2>5. <<query.marker, r>> \notin RowOrder
    <3>1. At[r] = Rank(Wanted(table), RowOrder, r) + 1
      BY <1>3
    <3>2. ~ Rank(Wanted(table), RowOrder, query.marker) < Rank(Wanted(table), RowOrder, r)
      BY <1>12, <2>2, <2>4, <3>1
    <3> QED
      BY <2>2, <2>3, <3>2
  <2> QED
    BY <1>9, <1>12, <2>1, <2>5
<1>13. ASSUME limit = 0 \/ Len(page) < limit, query.marker \notin moved,
              NEW r \in Wanted(table), r \notin moved
       PROVE  r \in ToSet(more)
  <2>1. e = Len(Listed)
    BY <1>2, <1>4, <1>13
  <2>2. At[r] <= q \/ r \in ToSet(page)
    BY <1>4, <1>10, <1>11, <2>1
  <2>3. query.marker = None \/ query.marker \in Wanted(table)
    BY <1>9, <1>13
  <2> QED
    BY <1>8, <1>12, <1>13, <2>2, <2>3
<1>14. ASSUME ~ (limit = 0 \/ Len(page) < limit)
       PROVE  /\ more # << >> /\ limit > 0 /\ Last(more) = Last(page)
              /\ Last(page) \in Wanted(table)
              /\ \A r \in Wanted(table) : r \notin moved =>
                   r \in ToSet(more) \/ <<Last(page), r>> \in RowOrder
  <2>1. limit > 0 /\ e - q >= 1 /\ e - q \in 1 .. e - q /\ q # e /\ e \in Nat \ {0}
    BY <1>5, <1>14, <1>15
  <2>2. Last(page) = Listed[e] /\ Last(page) \in Wanted(table)
    <3>1. Last(page) = page[e - q]
      BY <1>4 DEF Last
    <3>2. q + (e - q) = e
      BY <1>2
    <3> QED
      BY <1>4, <2>1, <3>1, <3>2
  <2>3. Last(more) = Last(page)
    <3>1. l + (e - q) \in 1 .. l + (e - q) /\ ~ l + (e - q) <= l /\ (l + (e - q)) - l = e - q
      BY <1>5, <2>1
    <3>2. more[l + (e - q)] = page[e - q]
      BY <1>6, <3>1
    <3> QED
      BY <1>4, <1>6, <3>2 DEF Last
  <2>4. more # << >>
    <3>1. Len(more) # 0
      BY <1>5, <1>6, <2>1
    <3> QED
      BY <3>1, EmptySeq
  <2>5. query.marker = None \/ query.marker \in Wanted(table)
    BY <1>2, <2>1
  <2>6. ASSUME NEW r \in Wanted(table), r \notin moved
        PROVE  r \in ToSet(more) \/ <<Last(page), r>> \in RowOrder
    <3>1. CASE At[r] <= q
      BY <1>8, <1>12, <2>5, <2>6, <3>1
    <3>2. CASE r \in ToSet(page)
      BY <1>8, <3>2
    <3>3. CASE e < At[r]
      BY <1>4, <2>1, <2>2, <3>3
    <3> QED
      BY <1>4, <3>1, <3>2, <3>3
  <2> QED
    BY <2>1, <2>2, <2>3, <2>4, <2>6
<1> QED
  BY <1>1, <1>13, <1>14

(* What is seen in order is seen once.                                     *)
LEMMA OrderedOnce ==
  ASSUME ListTypeOK, WalkSound
  PROVE  WalkOrdered
<1>1. seen \in Seq(RowId)
  BY DEF ListTypeOK
<1>2. DOMAIN seen = 1 .. Len(seen) /\ Len(seen) \in Nat /\ \A i \in DOMAIN seen : seen[i] \in RowId
  BY <1>1, LenProperties, ElementOfSeq
<1>3. \A i, j \in DOMAIN seen : i < j => <<seen[i], seen[j]>> \in RowOrder
  BY DEF WalkSound
<1>4. /\ \A x \in RowId : <<x, x>> \notin RowOrder
      /\ \A x, y \in RowId : ~Hidden => (<<x, y>> \in RowOrder <=> Before(query.sorts, x, y))
  BY OrderOfRows
<1>5. ASSUME NEW i \in DOMAIN seen, NEW j \in DOMAIN seen, seen[i] = seen[j] PROVE i = j
  <2>1. i \in Int /\ j \in Int
    BY <1>2
  <2>2. ~ i < j /\ ~ j < i
    BY <1>2, <1>3, <1>4, <1>5
  <2> QED
    BY <2>1, <2>2
<1>6. ASSUME ~Hidden, NEW i \in DOMAIN seen, NEW j \in DOMAIN seen, i < j
      PROVE  Before(query.sorts, seen[i], seen[j])
  BY <1>2, <1>3, <1>4, <1>6
<1> QED
  BY <1>5, <1>6 DEF WalkOrdered

WalkInv == ListTypeOK /\ WalkSound /\ WalkComplete

LEMMA WalkThen == WalkInv => ListInv
  BY PagesAlike, OrderedOnce DEF ListInv, WalkInv

LEMMA ListStarts == ListInit => ListInv
<1> SUFFICES ASSUME ListInit PROVE WalkInv
  BY WalkThen
<1>1. /\ table \in SUBSET RowId /\ listPc = "idle" /\ seen = << >> /\ moved = {}
      /\ query = [limit |-> 0, sorts |-> << >>, marker |-> None, wanted |-> {},
                  max |-> CHOOSE m \in MaxLimits : TRUE]
  BY DEF ListInit
<1>2. ListTypeOK
  <2>1. (CHOOSE m \in MaxLimits : TRUE) \in MaxLimits
    BY ListingAssumption
  <2>2. << >> \in Sorts /\ 0 \in 0 .. MaxAsked
    BY ListingAssumption DEF Sorts
  <2>3. query \in [limit : {None} \cup 0 .. MaxAsked, sorts : Sorts, marker : {None} \cup RowId,
                   wanted : SUBSET Nat, max : MaxLimits]
    BY <1>1, <2>1, <2>2
  <2>4. seen \in Seq(RowId)
    BY <1>1
  <2> QED
    BY <1>1, <2>3, <2>4 DEF ListTypeOK
<1>3. WalkSound
  BY <1>1 DEF WalkSound
<1>4. WalkComplete
  BY <1>1 DEF WalkComplete
<1> QED
  BY <1>2, <1>3, <1>4 DEF WalkInv

LEMMA StartKept == WalkInv /\ Start => WalkInv'
<1> SUFFICES ASSUME WalkInv, Start PROVE WalkInv'
  OBVIOUS
<1>1. PICK asked \in {None} \cup 0 .. MaxAsked, sorts \in Sorts, w \in {{0}, {0, 1}},
           max \in MaxLimits :
        /\ query' = [limit |-> asked, sorts |-> sorts, marker |-> None, wanted |-> w, max |-> max]
        /\ listPc' = IF asked = None \/ \E i \in DOMAIN sorts : sorts[i][1] \notin Sortable
                       THEN "400" ELSE "walking"
  BY DEF Start
<1>2. listPc = "idle" /\ table' = table /\ seen' = seen /\ moved' = moved
  BY DEF Start
<1>3. ListTypeOK /\ WalkSound
  BY DEF WalkInv
<1>4. seen = << >>
  BY <1>2, <1>3 DEF WalkSound
<1>5. listPc' \in {"400", "walking"} /\ (listPc' = "walking" => asked # None)
  BY <1>1
<1>6. query'.marker = None /\ query'.limit = asked
  BY <1>1
<1>7. ListTypeOK'
  <2>1. w \in SUBSET Nat
    OBVIOUS
  <2>2. query' \in [limit : {None} \cup 0 .. MaxAsked, sorts : Sorts, marker : {None} \cup RowId,
                    wanted : SUBSET Nat, max : MaxLimits]
    BY <1>1, <2>1
  <2> QED
    BY <1>2, <1>3, <1>5, <1>6, <2>2 DEF ListTypeOK
<1>8. WalkSound'
  BY <1>2, <1>4, <1>5, <1>6 DEF WalkSound
<1>9. WalkComplete'
  BY <1>5 DEF WalkComplete
<1> QED
  BY <1>7, <1>8, <1>9 DEF WalkInv

LEMMA FollowFailsKept == WalkInv /\ FollowFails => WalkInv'
<1> SUFFICES ASSUME WalkInv, FollowFails PROVE WalkInv'
  OBVIOUS
<1>1. listPc' = "500" /\ table' = table /\ query' = query /\ seen' = seen /\ moved' = moved
  BY DEF FollowFails
<1>2. ListTypeOK /\ WalkSound
  BY DEF WalkInv
<1>3. RowOrder' = RowOrder
  BY <1>1 DEF RowOrder, Hidden
<1>4. ListTypeOK'
  BY <1>1, <1>2 DEF ListTypeOK
<1>5. WalkSound' /\ WalkComplete'
  BY <1>1, <1>2, <1>3 DEF WalkSound, WalkComplete
<1> QED
  BY <1>4, <1>5 DEF WalkInv

LEMMA WalkedRowsKept == WalkInv /\ (AddRow \/ RemoveRow) => WalkInv'
<1> SUFFICES ASSUME WalkInv, AddRow \/ RemoveRow PROVE WalkInv'
  OBVIOUS
<1>1. /\ listPc = "walking" /\ query' = query /\ listPc' = listPc /\ seen' = seen
      /\ table' \in SUBSET RowId /\ moved' \in SUBSET RowId /\ moved \subseteq moved'
      /\ \A r : r \notin moved' => (r \in table <=> r \in table')
  <2>1. table \in SUBSET RowId /\ moved \in SUBSET RowId
    BY DEF WalkInv, ListTypeOK
  <2>2. CASE AddRow
    <3>1. PICK r \in RowId : table' = table \cup {r} /\ moved' = moved \cup {r}
      BY <2>2 DEF AddRow
    <3> QED
      BY <2>1, <2>2, <3>1 DEF AddRow
  <2>3. CASE RemoveRow
    <3>1. PICK r \in table : table' = table \ {r} /\ moved' = moved \cup {r}
      BY <2>3 DEF RemoveRow
    <3> QED
      BY <2>1, <2>3, <3>1 DEF RemoveRow
  <2> QED
    BY <2>2, <2>3
<1>2. ListTypeOK /\ WalkSound
  BY DEF WalkInv
<1>3. RowOrder' = RowOrder /\ EffectiveLimit(query.limit)' = EffectiveLimit(query.limit)
  BY <1>1 DEF RowOrder, Hidden, EffectiveLimit
<1>4. \A r : r \notin moved' => (r \in Wanted(table) <=> r \in Wanted(table)')
  BY <1>1 DEF Wanted
<1>5. ListTypeOK'
  BY <1>1, <1>2 DEF ListTypeOK
<1>6. WalkSound'
  <2>1. IF seen' = << >> THEN query'.marker = None
                         ELSE query'.marker = Last(seen') /\ EffectiveLimit(query.limit)' > 0
    BY <1>1, <1>2, <1>3 DEF WalkSound
  <2>2. query'.marker \in {None} \cup Wanted(table)' \cup moved'
    <3>1. query.marker = None \/ query.marker \in Wanted(table) \/ query.marker \in moved
      BY <1>1, <1>2 DEF WalkSound
    <3> QED
      BY <1>1, <1>4, <3>1
  <2>3. query'.marker # None => \A r \in Wanted(table)' \ moved' :
          r \in ToSet(seen') \/ <<query'.marker, r>> \in RowOrder'
    <3>1. query.marker # None => \A r \in Wanted(table) \ moved :
            r \in ToSet(seen) \/ <<query.marker, r>> \in RowOrder
      BY <1>1, <1>2 DEF WalkSound
    <3>2. \A r \in Wanted(table)' \ moved' : r \in Wanted(table) \ moved
      BY <1>1, <1>4
    <3> QED
      BY <1>1, <1>3, <3>1, <3>2
  <2>4. \A i, j \in DOMAIN seen' : i < j => <<seen'[i], seen'[j]>> \in RowOrder'
    BY <1>1, <1>2, <1>3 DEF WalkSound
  <2> QED
    BY <1>1, <2>1, <2>2, <2>3, <2>4 DEF WalkSound
<1>7. WalkComplete'
  BY <1>1 DEF WalkComplete
<1> QED
  BY <1>5, <1>6, <1>7 DEF WalkInv

LEMMA FollowKept == WalkInv /\ Follow => WalkInv'
<1> SUFFICES ASSUME WalkInv, Follow PROVE WalkInv'
  OBVIOUS
<1>1. Walking
  BY DEF Walking, WalkInv, Follow
<1>2. PICK limit, page, more : /\ limit = EffectiveLimit(query.limit) /\ page = WalkPage
                               /\ more = seen \o WalkPage
  OBVIOUS
<1>3. /\ seen' = more /\ table' = table /\ moved' = moved
      /\ IF limit = 0 \/ Len(page) < limit
           THEN listPc' = "last" /\ query' = query
           ELSE query' = Followed(page) /\ listPc' = listPc
  BY <1>2 DEF Follow, WalkPage, Extended
<1>4. /\ more \in Seq(RowId)
      /\ \A i, j \in DOMAIN more : i < j => <<more[i], more[j]>> \in RowOrder
  BY <1>1, <1>2, WalkOnInOrder
<1>5. /\ (limit = 0 \/ Len(page) < limit) /\ query.marker \notin moved =>
           \A r \in Wanted(table) : r \notin moved => r \in ToSet(more)
      /\ ~ (limit = 0 \/ Len(page) < limit) =>
           /\ more # << >> /\ limit > 0 /\ Last(more) = Last(page)
           /\ Last(page) \in Wanted(table)
           /\ \A r \in Wanted(table) : r \notin moved =>
                r \in ToSet(more) \/ <<Last(page), r>> \in RowOrder
  BY <1>1, <1>2, WalkOnComplete
<1>6. ListTypeOK
  BY DEF WalkInv
<1>7. CASE limit = 0 \/ Len(page) < limit
  <2>1. listPc' = "last" /\ query' = query
    BY <1>3, <1>7
  <2>2. ListTypeOK'
    BY <1>3, <1>4, <1>6, <2>1 DEF ListTypeOK
  <2>3. RowOrder' = RowOrder /\ Wanted(table)' = Wanted(table)
    BY <1>3, <2>1 DEF RowOrder, Hidden, Wanted
  <2>4. WalkSound'
    <3>1. \A i, j \in DOMAIN seen' : i < j => <<seen'[i], seen'[j]>> \in RowOrder'
      BY <1>3, <1>4, <2>3
    <3> QED
      BY <2>1, <3>1 DEF WalkSound
  <2>5. WalkComplete'
    <3>1. query.marker \notin moved => Wanted(table) \ moved \subseteq ToSet(more)
      BY <1>5, <1>7
    <3>2. query'.marker \notin moved' => Wanted(table)' \ moved' \subseteq ToSet(seen')
      BY <1>3, <2>1, <2>3, <3>1
    <3> QED
      BY <3>2 DEF WalkComplete
  <2> QED
    BY <2>2, <2>4, <2>5 DEF WalkInv
<1>8. CASE ~ (limit = 0 \/ Len(page) < limit)
  <2>1. query' = Followed(page) /\ listPc' = "walking"
    BY <1>1, <1>3, <1>8 DEF Walking
  <2>2. /\ more # << >> /\ limit > 0 /\ Last(more) = Last(page)
        /\ Last(page) \in Wanted(table) /\ Last(page) \in RowId
        /\ \A r \in Wanted(table) : r \notin moved =>
             r \in ToSet(more) \/ <<Last(page), r>> \in RowOrder
    BY <1>1, <1>5, <1>8, ListOfWalk
  <2>3. query \in [limit : {None} \cup 0 .. MaxAsked, sorts : Sorts, marker : {None} \cup RowId,
                   wanted : SUBSET Nat, max : MaxLimits]
    BY <1>6 DEF ListTypeOK
  <2>4. /\ query' \in [limit : {None} \cup 0 .. MaxAsked, sorts : Sorts, marker : {None} \cup RowId,
                       wanted : SUBSET Nat, max : MaxLimits]
        /\ query'.limit = query.limit /\ query'.sorts = query.sorts /\ query'.max = query.max
        /\ query'.wanted = query.wanted /\ query'.marker = Last(page)
    BY <2>1, <2>2, <2>3 DEF Followed
  <2>5. /\ RowOrder' = RowOrder /\ Wanted(table)' = Wanted(table)
        /\ EffectiveLimit(query.limit)' = EffectiveLimit(query.limit)
    BY <1>3, <2>4 DEF RowOrder, Hidden, Wanted, EffectiveLimit
  <2>6. ListTypeOK'
    <3>1. query'.limit # None
      BY <1>1, <1>6, <2>4 DEF ListTypeOK, Walking
    <3> QED
      BY <1>3, <1>4, <1>6, <2>1, <2>4, <3>1 DEF ListTypeOK
  <2>7. WalkSound'
    <3>1. seen' # << >> /\ query'.marker = Last(seen') /\ EffectiveLimit(query.limit)' > 0
      BY <1>2, <1>3, <2>2, <2>4, <2>5
    <3>2. query'.marker \in {None} \cup Wanted(table)' \cup moved'
      BY <2>2, <2>4, <2>5
    <3>3. \A r \in Wanted(table)' \ moved' :
            r \in ToSet(seen') \/ <<query'.marker, r>> \in RowOrder'
      BY <1>3, <2>2, <2>4, <2>5
    <3>4. \A i, j \in DOMAIN seen' : i < j => <<seen'[i], seen'[j]>> \in RowOrder'
      BY <1>3, <1>4, <2>5
    <3> QED
      BY <2>1, <3>1, <3>2, <3>3, <3>4 DEF WalkSound
  <2>8. WalkComplete'
    BY <2>1 DEF WalkComplete
  <2> QED
    BY <2>6, <2>7, <2>8 DEF WalkInv
<1> QED
  BY <1>7, <1>8

LEMMA WalkKept == WalkInv /\ [ListNext]_listVars => WalkInv'
<1>1. WalkInv /\ UNCHANGED listVars => WalkInv'
  <2> SUFFICES ASSUME WalkInv, UNCHANGED listVars PROVE WalkInv'
    OBVIOUS
  <2>1. table' = table /\ query' = query /\ listPc' = listPc /\ seen' = seen /\ moved' = moved
    BY DEF listVars
  <2>2. ListTypeOK'
    BY <2>1 DEF WalkInv, ListTypeOK
  <2>3. WalkSound' /\ WalkComplete'
    BY <2>1 DEF WalkInv, WalkSound, WalkComplete, RowOrder, Hidden, Wanted, EffectiveLimit
  <2> QED
    BY <2>2, <2>3 DEF WalkInv
<1> QED
  BY <1>1, StartKept, FollowKept, FollowFailsKept, WalkedRowsKept DEF ListNext

(* A walk keeps what it promises.                                          *)
LEMMA ListKept == ListInv /\ [ListNext]_listVars => ListInv'
<1>1. ListInv => WalkInv
  BY DEF ListInv, WalkInv
<1> QED
  BY <1>1, WalkKept, WalkThen, PTL

(***************************************************************************)
(* RestListing: the fields of an answer                                    *)
(***************************************************************************)

(* What a GET may ask of a kind of rows.                                   *)
LEMMA GetAsks ==
  ASSUME get \in Gets
  PROVE  /\ get.kind \in ViewKind /\ get.asked \subseteq Attribute /\ get.sorts \subseteq Attribute
         /\ ColumnsOf[get.kind] \subseteq Attribute /\ PolicyOf[get.kind] \subseteq Attribute
         /\ PrimaryKey \in ColumnsOf[get.kind] /\ PrimaryKey \in Attribute
         /\ get.many \in BOOLEAN /\ get.sorting \in BOOLEAN /\ get.paging \in BOOLEAN
<1>1. get.kind \in ViewKind /\ get.many \in BOOLEAN /\ get.sorting \in BOOLEAN /\ get.paging \in BOOLEAN
  BY DEF Gets
<1>2. get.asked \subseteq Attribute /\ get.sorts \subseteq Attribute
  BY DEF Gets
<1> QED
  BY <1>1, <1>2, ViewsAssumption

LEMMA ViewStarts == ViewInit => ViewInv
<1> SUFFICES ASSUME ViewInit PROVE ViewInv
  OBVIOUS
<1>1. get \in Gets /\ viewPc = "fields" /\ original = {} /\ added = {} /\ rowsGot = {} /\ shown = {}
  BY DEF ViewInit
<1>2. ViewTypeOK
  BY <1>1 DEF ViewTypeOK
<1>3. FieldsApart
  BY <1>1 DEF FieldsApart
<1>4. AskedShown /\ NothingElseShown /\ FieldsHarmless
  BY <1>1 DEF AskedShown, NothingElseShown, FieldsHarmless
<1> QED
  BY <1>2, <1>3, <1>4 DEF ViewInv

LEMMA FieldListKept == ViewInv /\ DoFieldList => ViewInv'
<1> SUFFICES ASSUME ViewInv, DoFieldList PROVE ViewInv'
  OBVIOUS
<1>1. ViewTypeOK /\ FieldsApart
  BY DEF ViewInv
<1>2. /\ viewPc = "fields" /\ UNCHANGED <<get, rowsGot, shown>>
      /\ original' = IF get.asked = {} THEN {} ELSE get.asked \cup PolicyOf[get.kind]
      /\ added' = IF get.asked = {} THEN {} ELSE PolicyOf[get.kind] \ get.asked
      /\ viewPc' = IF get.many THEN "sorting" ELSE "asking"
  BY DEF DoFieldList, ManyRows
<1>3. get.asked \subseteq Attribute /\ PolicyOf[get.kind] \subseteq Attribute
  BY <1>1, GetAsks DEF ViewTypeOK
<1>4. ViewTypeOK'
  BY <1>1, <1>2, <1>3 DEF ViewTypeOK
<1>5. FieldsApart'
  <2>1. original' = get.asked \cup added' /\ get.asked \cap added' = {} /\ (get.asked = {} => added' = {})
    BY <1>2
  <2>2. \/ viewPc' = "sorting" /\ get.many
        \/ viewPc' = "asking" /\ ~get.many
    BY <1>2
  <2> QED
    BY <1>2, <2>1, <2>2 DEF FieldsApart
<1>6. AskedShown' /\ NothingElseShown' /\ FieldsHarmless'
  BY <1>2 DEF AskedShown, NothingElseShown, FieldsHarmless
<1> QED
  BY <1>4, <1>5, <1>6 DEF ViewInv

(* A helper adds to what is asked for what it will read, and notes it.     *)
LEMMA MoreKept ==
  ASSUME ViewInv, NEW more \in SUBSET Attribute, more \cap original = {},
         get.asked = {} => more = {},
         original' = original \cup more, added' = added \cup more, UNCHANGED <<get, rowsGot, shown>>,
         \/ /\ viewPc = "sorting" /\ viewPc' = "paging"
            /\ get.asked # {} /\ get.sorting => get.sorts \subseteq original \cup more
         \/ /\ viewPc = "paging" /\ viewPc' = "asking"
            /\ get.asked # {} /\ get.paging => PrimaryKey \in original \cup more
  PROVE  ViewInv'
<1>1. ViewTypeOK /\ FieldsApart
  BY DEF ViewInv
<1>2. ViewTypeOK'
  <2>1. original' \subseteq Attribute /\ added' \subseteq Attribute
    BY <1>1 DEF ViewTypeOK
  <2>2. viewPc' \in {"paging", "asking"} /\ shown = {}
    BY <1>1 DEF ViewTypeOK
  <2> QED
    BY <1>1, <2>1, <2>2 DEF ViewTypeOK
<1>3. FieldsApart'
  <2>1. get.asked \cap added' = {} /\ original' = get.asked \cup added' /\ get.many
        /\ (get.asked = {} => added' = {})
    BY <1>1 DEF FieldsApart
  <2>2. /\ get.asked # {} /\ get.sorting => get.sorts \subseteq original'
        /\ get.asked # {} /\ get.paging /\ viewPc' # "paging" => PrimaryKey \in original'
    BY <1>1 DEF FieldsApart
  <2> QED
    BY <2>1, <2>2 DEF FieldsApart
<1>4. AskedShown' /\ NothingElseShown' /\ FieldsHarmless'
  BY DEF AskedShown, NothingElseShown, FieldsHarmless
<1> QED
  BY <1>2, <1>3, <1>4 DEF ViewInv

LEMMA SortFieldsKept == ViewInv /\ SortFields => ViewInv'
<1> SUFFICES ASSUME ViewInv, SortFields PROVE ViewInv'
  OBVIOUS
<1>1. ViewTypeOK /\ FieldsApart
  BY DEF ViewInv
<1>2. PICK more : more = IF get.sorting /\ original # {} THEN get.sorts \ original ELSE {}
  OBVIOUS
<1>3. /\ viewPc = "sorting" /\ viewPc' = "paging" /\ UNCHANGED <<get, rowsGot, shown>>
      /\ original' = original \cup more /\ added' = added \cup more
  BY <1>2 DEF SortFields, Emulated, NativeSupport
<1>4. original = get.asked \cup added /\ (get.asked = {} => original = {})
  BY <1>1, <1>3 DEF FieldsApart
<1>5. get.sorts \subseteq Attribute
  BY <1>1, GetAsks DEF ViewTypeOK
<1>6. /\ more \in SUBSET Attribute /\ more \cap original = {} /\ (get.asked = {} => more = {})
      /\ get.asked # {} /\ get.sorting => get.sorts \subseteq original \cup more
  BY <1>2, <1>4, <1>5
<1> QED
  BY <1>3, <1>6, MoreKept

LEMMA PageFieldsKept == ViewInv /\ PageFields => ViewInv'
<1> SUFFICES ASSUME ViewInv, PageFields PROVE ViewInv'
  OBVIOUS
<1>1. ViewTypeOK /\ FieldsApart
  BY DEF ViewInv
<1>2. PICK more : more = IF get.paging /\ original # {} THEN {PrimaryKey} \ original ELSE {}
  OBVIOUS
<1>3. /\ viewPc = "paging" /\ viewPc' = "asking" /\ UNCHANGED <<get, rowsGot, shown>>
      /\ original' = original \cup more /\ added' = added \cup more
  BY <1>2 DEF PageFields, Emulated, NativeSupport
<1>4. original = get.asked \cup added /\ (get.asked = {} => original = {})
  BY <1>1, <1>3 DEF FieldsApart
<1>5. PrimaryKey \in Attribute
  BY <1>1, GetAsks DEF ViewTypeOK
<1>6. /\ more \in SUBSET Attribute /\ more \cap original = {} /\ (get.asked = {} => more = {})
      /\ get.asked # {} /\ get.paging => PrimaryKey \in original \cup more
  BY <1>2, <1>4, <1>5
<1> QED
  BY <1>3, <1>6, MoreKept

LEMMA AskedKept == ViewInv /\ AskPlugin => ViewInv'
<1> SUFFICES ASSUME ViewInv, AskPlugin PROVE ViewInv'
  OBVIOUS
<1>1. ViewTypeOK /\ FieldsApart
  BY DEF ViewInv
<1>2. PICK columns : columns = ColumnsOf[get.kind]
  OBVIOUS
<1>3. /\ viewPc = "asking" /\ UNCHANGED <<get, original, added>>
      /\ rowsGot' = IF get.many /\ Trims[get.kind] THEN Trimmed(columns, original) ELSE columns
      /\ viewPc' = IF get.many THEN "arranging" ELSE "shown"
      /\ shown' = IF get.many THEN {} ELSE columns \ added
  BY <1>2 DEF AskPlugin, ManyRows
<1>4. ViewTypeOK'
  <2>1. rowsGot' \subseteq columns /\ shown' \subseteq rowsGot'
    BY <1>3 DEF Trimmed
  <2> QED
    BY <1>1, <1>2, <1>3, <2>1 DEF ViewTypeOK
<1>5. FieldsApart'
  <2>1. get.asked \cap added = {} /\ original = get.asked \cup added /\ (get.asked = {} => added = {})
    BY <1>1, <1>3 DEF FieldsApart
  <2>2. get.asked # {} /\ get.many /\ get.sorting => get.sorts \subseteq original
    BY <1>1, <1>3 DEF FieldsApart
  <2>3. get.asked # {} /\ get.many /\ get.paging => PrimaryKey \in original
    BY <1>1, <1>3 DEF FieldsApart
  <2>4. /\ viewPc' = "arranging" => get.many
        /\ viewPc' = "arranging" =>
             rowsGot' = IF Trims[get.kind] THEN Trimmed(columns, original) ELSE columns
        /\ viewPc' \in {"arranging", "shown"}
    BY <1>3
  <2>5. (Trimmed(ColumnsOf[get.kind], original))' = Trimmed(columns, original) /\ get' = get
    BY <1>2, <1>3
  <2> QED
    BY <1>2, <1>3, <2>1, <2>2, <2>3, <2>4, <2>5 DEF FieldsApart
<1>6. AskedShown'
  <2>1. ASSUME viewPc' = "shown" PROVE /\ get.asked \cap columns \subseteq shown'
                                       /\ get.asked = {} => shown' = columns
    <3>1. shown' = columns \ added
      BY <1>3, <2>1
    <3> QED
      BY <1>1, <3>1 DEF FieldsApart
  <2> QED
    BY <1>2, <1>3, <2>1 DEF AskedShown
<1>7. NothingElseShown' /\ FieldsHarmless'
  BY <1>3 DEF NothingElseShown, FieldsHarmless, ManyRows
<1> QED
  BY <1>4, <1>5, <1>6, <1>7 DEF ViewInv

LEMMA ArrangeKept == ViewInv /\ Arrange => ViewInv'
<1> SUFFICES ASSUME ViewInv, Arrange PROVE ViewInv'
  OBVIOUS
<1>1. ViewTypeOK /\ FieldsApart
  BY DEF ViewInv
<1>2. PICK columns : columns = ColumnsOf[get.kind]
  OBVIOUS
<1>3. /\ viewPc = "arranging" /\ UNCHANGED <<get, original, added, rowsGot>>
      /\ \/ Needed \subseteq rowsGot /\ viewPc' = "shown" /\ shown' = rowsGot \ added
         \/ ~(Needed \subseteq rowsGot) /\ viewPc' = "500" /\ shown' = shown
  BY DEF Arrange
<1>4. /\ get.many /\ get.asked \cap added = {} /\ original = get.asked \cup added
      /\ get.asked = {} => added = {}
      /\ rowsGot = IF Trims[get.kind] THEN Trimmed(columns, original) ELSE columns
      /\ get.asked # {} /\ get.sorting => get.sorts \subseteq original
      /\ get.asked # {} /\ get.paging => PrimaryKey \in original
  BY <1>1, <1>2, <1>3 DEF FieldsApart
<1>5. PrimaryKey \in columns
  BY <1>1, <1>2, GetAsks DEF ViewTypeOK
<1>6. ViewTypeOK'
  <2>1. shown' \subseteq rowsGot /\ (shown' # {} => viewPc' = "shown") /\ viewPc' \in {"shown", "500"}
    BY <1>1, <1>3 DEF ViewTypeOK
  <2> QED
    BY <1>1, <1>3, <2>1 DEF ViewTypeOK
<1>7. FieldsApart'
  <2>1. (Trimmed(ColumnsOf[get.kind], original))' = Trimmed(columns, original) /\ get' = get
    BY <1>2, <1>3
  <2> QED
    BY <1>2, <1>3, <1>4, <2>1 DEF FieldsApart
<1>8. AskedShown' /\ NothingElseShown'
  <2>1. CASE viewPc' = "shown"
    <3>1. shown' = rowsGot \ added
      BY <1>3, <2>1
    <3>2. get.asked \cap columns \subseteq shown' /\ (get.asked = {} => shown' = columns)
      BY <1>4, <3>1 DEF Trimmed
    <3>3. Trims[get.kind] /\ get.asked # {} => shown' \subseteq get.asked
      BY <1>4, <3>1 DEF Trimmed
    <3> QED
      BY <1>2, <1>3, <3>2, <3>3 DEF AskedShown, NothingElseShown
  <2>2. CASE viewPc' = "500"
    BY <2>2 DEF AskedShown, NothingElseShown
  <2> QED
    BY <1>3, <2>1, <2>2
<1>9. FieldsHarmless'
  <2>1. ASSUME ~(Needed \subseteq rowsGot) PROVE get.rows > 1 /\ ~(get.sorts \subseteq columns)
    <3>1. Needed = (IF get.sorting /\ get.rows > 1 THEN get.sorts ELSE {})
                     \cup (IF get.paging /\ get.rows > 0 THEN {PrimaryKey} ELSE {})
      BY DEF Needed, Emulated, NativeSupport
    <3>2. get.paging => PrimaryKey \in rowsGot
      BY <1>4, <1>5 DEF Trimmed
    <3>3. get.sorting /\ get.sorts \subseteq columns => get.sorts \subseteq rowsGot
      BY <1>4 DEF Trimmed
    <3> QED
      BY <2>1, <3>1, <3>2, <3>3
  <2> QED
    BY <1>2, <1>3, <2>1 DEF FieldsHarmless
<1> QED
  BY <1>6, <1>7, <1>8, <1>9 DEF ViewInv

(* Every step of answering a GET keeps what is shown true to what was      *)
(* asked.                                                                  *)
LEMMA ViewKept == ViewInv /\ [ViewNext]_viewVars => ViewInv'
<1>1. ViewInv /\ UNCHANGED viewVars => ViewInv'
  <2> SUFFICES ASSUME ViewInv, UNCHANGED viewVars PROVE ViewInv'
    OBVIOUS
  <2>1. UNCHANGED <<get, viewPc, original, added, rowsGot, shown>>
    BY DEF viewVars
  <2>2. ViewTypeOK' /\ FieldsApart'
    BY <2>1 DEF ViewInv, ViewTypeOK, FieldsApart, Trimmed
  <2>3. AskedShown' /\ NothingElseShown' /\ FieldsHarmless'
    BY <2>1 DEF ViewInv, AskedShown, NothingElseShown, FieldsHarmless, ManyRows
  <2> QED
    BY <2>2, <2>3 DEF ViewInv
<1> QED
  BY <1>1, FieldListKept, SortFieldsKept, PageFieldsKept, AskedKept, ArrangeKept DEF ViewNext

(***************************************************************************)
(* CommandRoutes                                                           *)
(***************************************************************************)

(* What the five tables have for a command.                                *)
Path(c) == PathOf(c.verb, c.of)
Changing(c) == c.verb \in {"create", "update"}
TypesFit(c) ==
  /\ c.verb \in {"list", "show", "create", "update", "delete"}
  /\ c.keys \cup c.may \subseteq Declared("service") \cup Declared("template")
       \cup Declared("activate") \cup Declared("diagnostic") \cup Declared("configuration")
       \cup Declared("register") \cup {"nsd_id"}
PathsFit(c) ==
  /\ Path(c) \notin RoutedNames => c.of \in {"metric", "service_driver"}
  /\ PathOf("list", c.of) \notin RoutedNames => c.of \in {"metric", "service_driver"}
  /\ c.verb \in {"show", "update", "delete"} /\ PathOf("list", c.of) \in RoutedNames =>
       PluginHas("list", PathOf("list", c.of))
  /\ Path(c) \in RoutedNames /\ ~PluginHas(c.verb, Path(c)) => c.of = "register"
  /\ c.verb \in {"update", "delete"} => PluginHas("show", c.of)
  /\ c.verb # "list" => Path(c) = c.of
  /\ TableOf(PathOf("list", c.of)) = TableOf(c.of)
KeysFit(c) ==
  /\ c.keys \subseteq Declared(c.of) \/ ~Changing(c)
  /\ \A k \in c.may : k \in Declared(c.of) \/ (c.of = "register" /\ k = "nsd_id")
  /\ c.verb = "create" => /\ "tenant_id" \in Declared(c.of)
                          /\ NoDefault(c.of) \subseteq c.keys \cup {"tenant_id", "files"}
                          /\ "files" \in NoDefault(c.of) => c.of = "template"
Fits(c) == TypesFit(c) /\ PathsFit(c) /\ KeysFit(c)

LEMMA CommandsFit == \A c \in Commands : Fits(c)
<1> USE DEF Fits, TypesFit, PathsFit, KeysFit, Path, Changing, CommandsOf, PathOf, RoutedNames,
        PluginHas, TableOf, Declared, NoDefault
<1>1. Fits(CommandsOf("create", "service", {"name", "quality_of_service", "attributes"}, {"tenant_id"}))
  OBVIOUS
<1>2. Fits(CommandsOf("delete", "service", {}, {})) /\ Fits(CommandsOf("list", "service", {}, {}))
  OBVIOUS
<1>3. Fits(CommandsOf("show", "service", {}, {}))
  OBVIOUS
<1>4. Fits(CommandsOf("update", "service", {"attributes"}, {}))
  OBVIOUS
<1>5. Fits(CommandsOf("create", "activate", {"name", "template_id", "enable"}, {"tenant_id"}))
  OBVIOUS
<1>6. Fits(CommandsOf("create", "template", {"name"}, {"files", "tenant_id"}))
  OBVIOUS
<1>7. Fits(CommandsOf("list", "template", {}, {})) /\ Fits(CommandsOf("delete", "template", {}, {}))
  OBVIOUS
<1>8. Fits(CommandsOf("show", "template", {}, {}))
  OBVIOUS
<1>9. Fits(CommandsOf("create", "register", {"user"}, {"nsd_id", "tenant_id"}))
  OBVIOUS
<1>10. Fits(CommandsOf("show", "dumpxml", {}, {})) /\ Fits(CommandsOf("show", "metric", {}, {}))
  OBVIOUS
<1>11. Fits(CommandsOf("show", "service_driver", {}, {}))
  OBVIOUS
<1>12. Fits(CommandsOf("create", "diagnostic", {"nsd_id", "vdus"}, {}))
  OBVIOUS
<1>13. Fits(CommandsOf("delete", "diagnostic", {}, {}))
  OBVIOUS
<1>14. Fits(CommandsOf("update", "configuration", {"attributes"}, {}))
  OBVIOUS
<1> QED
  <2> HIDE DEF Fits, CommandsOf
  <2> QED
    BY <1>1, <1>2, <1>3, <1>4, <1>5, <1>6, <1>7, <1>8, <1>9, <1>10, <1>11, <1>12, <1>13, <1>14
       DEF Commands

(* What the invariant of a command rests on.                               *)
RoutesCore ==
  /\ shellOrder.command \in Commands /\ shellOrder.given \subseteq shellOrder.command.may
  /\ orderAt \in {"typed", "found", "sent", "routed", "checked", "ended"}
  /\ verdict \in {"none", "no route", "no handler", "not found", "refused", "failed", "done"}
  /\ (verdict # "none") <=> (orderAt = "ended")
  /\ CommandSoFar /\ ThreeDeadEnds /\ KeysUnderstood

LEMMA TwoAndOne ==
  ASSUME NEW a, NEW b, NEW c
  PROVE  /\ <<a>> \o <<b, c>> = <<a, b, c>> /\ <<a>> \o <<b>> = <<a, b>>
         /\ << >> \o <<a>> = <<a>>
<1>1. PICK S, x, y, z : S = {a, b, c} /\ x = <<a>> /\ y = <<b, c>> /\ z = <<b>>
  OBVIOUS
<1>2. /\ x \in Seq(S) /\ Len(x) = 1 /\ x[1] = a
      /\ y \in Seq(S) /\ Len(y) = 2 /\ y[1] = b /\ y[2] = c
      /\ z \in Seq(S) /\ Len(z) = 1 /\ z[1] = b
  BY <1>1
<1>3. PICK t, u : t = <<a, b, c>> /\ u = <<a, b>>
  OBVIOUS
<1>4. /\ t \in Seq(S) /\ Len(t) = 3 /\ t[1] = a /\ t[2] = b /\ t[3] = c
      /\ u \in Seq(S) /\ Len(u) = 2 /\ u[1] = a /\ u[2] = b
  BY <1>1, <1>3
<1>5. x \o y = t
  <2>1. /\ x \o y \in Seq(S) /\ Len(x \o y) = 1 + 2
        /\ \A i \in 1 .. 1 + 2 : (x \o y)[i] = IF i <= 1 THEN x[i] ELSE y[i - 1]
    <3>1. x \in Seq(S) /\ y \in Seq(S)
      BY <1>2
    <3>2. /\ x \o y \in Seq(S) /\ Len(x \o y) = Len(x) + Len(y)
          /\ \A i \in 1 .. Len(x) + Len(y) :
               (x \o y)[i] = IF i <= Len(x) THEN x[i] ELSE y[i - Len(x)]
      BY <3>1, ConcatProperties
    <3>3. Len(x) = 1 /\ Len(y) = 2
      BY <1>2
    <3> QED
      BY <3>2, <3>3
  <2>2. \A i \in 1 .. 3 : (x \o y)[i] = t[i]
    <3>1. PICK w : w = x \o y
      OBVIOUS
    <3>2. \A i \in 1 .. 3 : w[i] = IF i <= 1 THEN x[i] ELSE y[i - 1]
      BY <2>1, <3>1
    <3>3. w[1] = a
      BY <1>2, <3>2
    <3>4. w[2] = b /\ w[3] = c
      BY <1>2, <3>2
    <3>5. \A i \in 1 .. 3 : i = 1 \/ i = 2 \/ i = 3
      OBVIOUS
    <3> QED
      BY <1>4, <3>1, <3>3, <3>4, <3>5
  <2>3. Len(x \o y) = Len(t)
    BY <1>4, <2>1
  <2>4. \A i \in 1 .. Len(x \o y) : (x \o y)[i] = t[i]
    BY <2>1, <2>2
  <2> QED
    BY <1>4, <2>1, <2>3, <2>4, SeqEqual
<1>6. x \o z = u
  <2>1. /\ x \o z \in Seq(S) /\ Len(x \o z) = 1 + 1
        /\ \A i \in 1 .. 1 + 1 : (x \o z)[i] = IF i <= 1 THEN x[i] ELSE z[i - 1]
    <3>1. x \in Seq(S) /\ z \in Seq(S)
      BY <1>2
    <3>2. /\ x \o z \in Seq(S) /\ Len(x \o z) = Len(x) + Len(z)
          /\ \A i \in 1 .. Len(x) + Len(z) :
               (x \o z)[i] = IF i <= Len(x) THEN x[i] ELSE z[i - Len(x)]
      BY <3>1, ConcatProperties
    <3>3. Len(x) = 1 /\ Len(z) = 1
      BY <1>2
    <3> QED
      BY <3>2, <3>3
  <2>2. \A i \in 1 .. 2 : (x \o z)[i] = u[i]
    BY <1>2, <1>4, <2>1
  <2>3. Len(x \o z) = Len(u)
    BY <1>4, <2>1
  <2>4. \A i \in 1 .. Len(x \o z) : (x \o z)[i] = u[i]
    BY <2>1, <2>2
  <2> QED
    BY <1>4, <2>1, <2>3, <2>4, SeqEqual
<1>7. << >> \o x = x
  BY <1>2, ConcatEmptySeq
<1> QED
  BY <1>1, <1>3, <1>5, <1>6, <1>7, Zenon

(* The handlers, one after the other.                                      *)
LEMMA RanAre ==
  ASSUME RoutesCore
  PROVE  LET l == <<"list", PathOf("list", Resource)>>
             s == <<"show", Resource>>
             h == <<Verb, Resource>>
         IN \/ ran = << >>
            \/ ByName /\ PathOf("list", Resource) \in RoutedNames /\ ran = <<l>>
            \/ /\ PluginHas(Verb, PathOf(Verb, Resource))
               /\ \/ /\ Verb \in {"update", "delete"} /\ ran = <<l, s, h>>
                     /\ PathOf("list", Resource) \in RoutedNames
                  \/ Verb = "show" /\ ran = <<l, h>> /\ PathOf("list", Resource) \in RoutedNames
                  \/ ~ByName /\ ran = <<<<Verb, PathOf(Verb, Resource)>>>>
<1>1. PICK l, s, h, p : /\ l = <<"list", PathOf("list", Resource)>> /\ s = <<"show", Resource>>
                        /\ h = <<Verb, PathOf(Verb, Resource)>> /\ p = PathOf(Verb, Resource)
  OBVIOUS
<1>2. Fits(shellOrder.command)
  BY CommandsFit DEF RoutesCore
<1>3. Verb # "list" => p = Resource
  BY <1>1, <1>2 DEF Fits, PathsFit, Path, Verb, Resource
<1>4. Looked = IF ByName THEN <<l>> ELSE << >>
  BY <1>1 DEF Looked
<1>5. HandlersRun(p) = IF Verb \in {"update", "delete"} THEN <<s, h>> ELSE <<h>>
  BY <1>1 DEF HandlersRun
<1>6. /\ ran \in {<< >>, Looked} \/ (ran = Looked \o HandlersRun(p) /\ PluginHas(Verb, p))
      /\ ran # << >> /\ ByName => PathOf("list", Resource) \in RoutedNames
  BY <1>1 DEF RoutesCore, CommandSoFar
<1>7. Looked \o HandlersRun(p) =
        IF Verb \in {"update", "delete"} THEN <<l, s, h>>
        ELSE IF Verb = "show" THEN <<l, h>> ELSE <<h>>
  <2>1. CASE Verb \in {"update", "delete"}
    <3>1. Looked = <<l>> /\ HandlersRun(p) = <<s, h>>
      BY <1>4, <1>5, <2>1 DEF ByName
    <3> QED
      BY <2>1, <3>1, TwoAndOne, Zenon
  <2>2. CASE Verb = "show"
    <3>1. Looked = <<l>> /\ HandlersRun(p) = <<h>>
      BY <1>4, <1>5, <2>2 DEF ByName
    <3>2. Verb \notin {"update", "delete"}
      BY <2>2
    <3> QED
      BY <2>2, <3>1, <3>2, TwoAndOne, Zenon
  <2>3. CASE Verb \notin {"update", "delete"} /\ Verb # "show"
    <3>1. Looked = << >> /\ HandlersRun(p) = <<h>>
      BY <1>4, <1>5, <2>3 DEF ByName
    <3> QED
      BY <2>3, <3>1, TwoAndOne, Zenon
  <2> QED
    BY <2>1, <2>2, <2>3
<1>8. CASE ran \in {<< >>, Looked}
  BY <1>1, <1>4, <1>6, <1>8
<1>9. CASE ran = Looked \o HandlersRun(p) /\ PluginHas(Verb, p)
  <2>1. CASE Verb \in {"update", "delete"}
    <3>1. ran = <<l, s, h>> /\ ran # << >> /\ p = Resource /\ ByName
      BY <1>3, <1>7, <1>9, <2>1 DEF ByName
    <3> QED
      BY <1>1, <1>6, <1>9, <2>1, <3>1
  <2>2. CASE Verb = "show"
    <3>1. ran = <<l, h>> /\ ran # << >> /\ p = Resource /\ ByName
      BY <1>3, <1>7, <1>9, <2>2 DEF ByName
    <3> QED
      BY <1>1, <1>6, <1>9, <2>2, <3>1
  <2>3. CASE Verb \notin {"update", "delete"} /\ Verb # "show"
    <3>1. ran = <<h>> /\ ~ByName
      BY <1>7, <1>9, <2>3 DEF ByName
    <3> QED
      BY <1>1, <1>9, <3>1
  <2> QED
    BY <2>1, <2>2, <2>3
<1> QED
  BY <1>6, <1>8, <1>9

(* What has run changes only what the command is for, behind what it reads.*)
LEMMA CoreThen == RoutesCore => RoutesInv
<1> SUFFICES ASSUME RoutesCore PROVE RoutesInv
  OBVIOUS
<1>1. Fits(shellOrder.command) /\ shellOrder.given \subseteq shellOrder.command.may
  BY CommandsFit DEF RoutesCore
<1>2. PICK l, s, h : /\ l = <<"list", PathOf("list", Resource)>> /\ s = <<"show", Resource>>
                     /\ h = <<Verb, Resource>>
  OBVIOUS
<1>3. \/ ran = << >>
      \/ ByName /\ PathOf("list", Resource) \in RoutedNames /\ ran = <<l>>
      \/ /\ PluginHas(Verb, PathOf(Verb, Resource))
         /\ \/ /\ Verb \in {"update", "delete"} /\ ran = <<l, s, h>>
               /\ PathOf("list", Resource) \in RoutedNames
            \/ Verb = "show" /\ ran = <<l, h>> /\ PathOf("list", Resource) \in RoutedNames
            \/ ~ByName /\ ran = <<<<Verb, PathOf(Verb, Resource)>>>>
  BY <1>2, RanAre
<1>4. /\ Verb \in {"list", "show", "create", "update", "delete"}
      /\ ByName /\ PathOf("list", Resource) \in RoutedNames => PluginHas("list", PathOf("list", Resource))
      /\ Verb \in {"update", "delete"} => PluginHas("show", Resource)
      /\ Verb # "list" => PathOf(Verb, Resource) = Resource
      /\ TableOf(PathOf("list", Resource)) = TableOf(Resource)
  BY <1>1 DEF Fits, TypesFit, PathsFit, Path, Verb, Resource, ByName
<1>5. /\ l[1] = "list" /\ l[2] = PathOf("list", Resource) /\ s[1] = "show" /\ s[2] = Resource
      /\ h[1] = Verb /\ h[2] = Resource
  BY <1>2
<1> DEFINE Had == \A i \in DOMAIN ran : PluginHas(ran[i][1], ran[i][2])
<1>6. Had /\ ChangesOnlyOwn /\ LookedUpThere
  <2>1. CASE ran = << >>
    BY <2>1 DEF ChangesOnlyOwn, LookedUpThere
  <2>2. CASE ByName /\ PathOf("list", Resource) \in RoutedNames /\ ran = <<l>>
    <3>1. DOMAIN ran = {1} /\ ran[1] = l
      BY <2>2
    <3> QED
      BY <1>4, <1>5, <2>2, <3>1 DEF ChangesOnlyOwn, LookedUpThere
  <2>3. CASE /\ PluginHas(Verb, PathOf(Verb, Resource))
             /\ Verb \in {"update", "delete"} /\ ran = <<l, s, h>>
             /\ PathOf("list", Resource) \in RoutedNames
    <3>1. DOMAIN ran = 1 .. 3 /\ Len(ran) = 3 /\ ran[1] = l /\ ran[2] = s /\ ran[3] = h
      BY <2>3
    <3>2. \A i \in DOMAIN ran : i = 1 \/ i = 2 \/ i = 3
      BY <3>1
    <3>3. /\ PluginHas(l[1], l[2]) /\ PluginHas(s[1], s[2]) /\ PluginHas(h[1], h[2])
      BY <1>4, <1>5, <2>3 DEF ByName
    <3>4. Had
      BY <3>1, <3>2, <3>3
    <3>5. ChangesOnlyOwn
      BY <1>2, <1>5, <3>1, <3>2 DEF ChangesOnlyOwn
    <3>6. LookedUpThere
      BY <1>4, <1>5, <3>1, <3>2 DEF LookedUpThere
    <3> QED
      BY <3>4, <3>5, <3>6
  <2>4. CASE /\ PluginHas(Verb, PathOf(Verb, Resource))
             /\ Verb = "show" /\ ran = <<l, h>> /\ PathOf("list", Resource) \in RoutedNames
    <3>1. DOMAIN ran = 1 .. 2 /\ Len(ran) = 2 /\ ran[1] = l /\ ran[2] = h
      BY <2>4
    <3>2. \A i \in DOMAIN ran : i = 1 \/ i = 2
      BY <3>1
    <3>3. PluginHas(l[1], l[2]) /\ PluginHas(h[1], h[2])
      BY <1>4, <1>5, <2>4 DEF ByName
    <3>4. Had
      BY <3>1, <3>2, <3>3
    <3>5. ChangesOnlyOwn
      BY <1>5, <2>4, <3>1, <3>2 DEF ChangesOnlyOwn
    <3>6. LookedUpThere
      BY <1>4, <1>5, <3>1, <3>2 DEF LookedUpThere
    <3> QED
      BY <3>4, <3>5, <3>6
  <2>5. CASE /\ PluginHas(Verb, PathOf(Verb, Resource))
             /\ ~ByName /\ ran = <<<<Verb, PathOf(Verb, Resource)>>>>
    <3>1. DOMAIN ran = {1} /\ Len(ran) = 1 /\ ran[1] = <<Verb, PathOf(Verb, Resource)>>
      BY <2>5
    <3>2. ran[1][1] = Verb /\ ran[1][2] = PathOf(Verb, Resource)
      BY <3>1
    <3>3. Verb \notin {"show", "update", "delete"}
      BY <2>5 DEF ByName
    <3>4. Verb # "list" => ran[1] = <<Verb, Resource>>
      BY <1>4, <3>1
    <3> QED
      BY <2>5, <3>1, <3>2, <3>3, <3>4 DEF ChangesOnlyOwn, LookedUpThere
  <2> QED
    BY <1>3, <2>1, <2>2, <2>3, <2>4, <2>5
<1> DEFINE U == UNION {Declared(r) : r \in RoutedNames}
<1>7. bodyKeys \subseteq U
  <2>1. \A r \in {"service", "template", "activate", "diagnostic", "configuration", "register"} :
          Declared(r) \subseteq U
    BY DEF RoutedNames
  <2> HIDE DEF U
  <2>2. Told \subseteq U
    <3>2. /\ Declared("service") \subseteq U /\ Declared("template") \subseteq U
          /\ Declared("activate") \subseteq U /\ Declared("diagnostic") \subseteq U
          /\ Declared("configuration") \subseteq U /\ Declared("register") \subseteq U
      BY <2>1
    <3>5. "nsd_id" \in U
      BY <3>2 DEF Declared
    <3>3. shellOrder.command.keys \cup shellOrder.command.may \subseteq U
      <4>1. shellOrder.command.keys \cup shellOrder.command.may \subseteq
              Declared("service") \cup Declared("template") \cup Declared("activate")
                \cup Declared("diagnostic") \cup Declared("configuration")
                \cup Declared("register") \cup {"nsd_id"}
        BY <1>1 DEF Fits, TypesFit
      <4>2. ASSUME NEW k \in shellOrder.command.keys \cup shellOrder.command.may
            PROVE  k \in U
        <5>1. \/ k \in Declared("service") \/ k \in Declared("template")
              \/ k \in Declared("activate") \/ k \in Declared("diagnostic")
              \/ k \in Declared("configuration") \/ k \in Declared("register") \/ k = "nsd_id"
          BY <4>1, Zenon
        <5> QED
          BY <3>2, <3>5, <5>1, Zenon
      <4> QED
        BY <4>2
    <3>4. Told \subseteq U
      BY <1>1, <3>3 DEF Told
    <3> QED
      BY <3>4
  <2>3. bodyKeys \in {{}, Told}
    BY DEF RoutesCore, CommandSoFar
  <2> QED
    BY <2>2, <2>3
<1>8. RoutesTypeOK
  <2>1. /\ shellOrder.command \in Commands /\ shellOrder.given \subseteq shellOrder.command.may
        /\ orderAt \in {"typed", "found", "sent", "routed", "checked", "ended"}
        /\ verdict \in {"none", "no route", "no handler", "not found", "refused", "failed", "done"}
        /\ (verdict # "none") <=> (orderAt = "ended")
    BY DEF RoutesCore
  <2> HIDE DEF U
  <2>2. \A i \in DOMAIN ran : PluginHas(ran[i][1], ran[i][2])
    BY <1>6
  <2>3. bodyKeys \subseteq UNION {Declared(r) : r \in RoutedNames}
    BY <1>7, Zenon DEF U
  <2> QED
    BY <2>1, <2>2, <2>3 DEF RoutesTypeOK
<1>9. HandedAsDeclared
  <2>1. orderAt = "checked" /\ Verb \in {"create", "update"} => BodyFits(bodyKeys)
    BY DEF RoutesCore, CommandSoFar
  <2> QED
    BY <2>1 DEF HandedAsDeclared, BodyFits
<1> QED
  BY <1>6, <1>8, <1>9 DEF RoutesInv, RoutesCore

LEMMA RoutesStart == RoutesInit => RoutesInv
<1> SUFFICES ASSUME RoutesInit PROVE RoutesCore
  BY CoreThen
<1>1. /\ shellOrder.command \in Commands /\ shellOrder.given \subseteq shellOrder.command.may
  BY DEF RoutesInit
<1> QED
  BY <1>1 DEF RoutesInit, RoutesCore, CommandSoFar, ThreeDeadEnds, KeysUnderstood

(* The command stays what was typed, and each station leaves what the last *)
(* one did.                                                                *)
LEMMA SameCommand ==
  ASSUME shellOrder' = shellOrder
  PROVE  /\ Verb' = Verb /\ Resource' = Resource /\ Looked' = Looked /\ Told' = Told
         /\ ByName' = ByName
         /\ PathOf(Verb, Resource)' = PathOf(Verb, Resource)
         /\ PathOf("list", Resource)' = PathOf("list", Resource)
         /\ HandlersRun(PathOf(Verb, Resource))' = HandlersRun(PathOf(Verb, Resource))
  BY DEF Verb, Resource, Looked, Told, ByName, HandlersRun, PathOf

LEMMA CommandFits ==
  ASSUME RoutesCore
  PROVE  /\ PathOf(Verb, Resource) \notin RoutedNames => Resource \in {"metric", "service_driver"}
         /\ PathOf("list", Resource) \notin RoutedNames => Resource \in {"metric", "service_driver"}
         /\ ByName /\ PathOf("list", Resource) \in RoutedNames =>
              PluginHas("list", PathOf("list", Resource))
         /\ PathOf(Verb, Resource) \in RoutedNames /\ ~PluginHas(Verb, PathOf(Verb, Resource)) =>
              Resource = "register"
<1>1. Fits(shellOrder.command)
  BY CommandsFit DEF RoutesCore
<1> QED
  BY <1>1 DEF Fits, PathsFit, Path, Verb, Resource, ByName

LEMMA BodyOfCommand ==
  ASSUME RoutesCore, Verb \in {"create", "update"}, ~BodyFits(Told)
  PROVE  \/ Resource = "register" /\ "nsd_id" \in shellOrder.given
         \/ Resource = "template" /\ "files" \notin shellOrder.given
         \/ ~shellOrder.tenant /\ "tenant_id" \notin shellOrder.given
<1> SUFFICES ASSUME ~ (Resource = "register" /\ "nsd_id" \in shellOrder.given),
                    ~ (Resource = "template" /\ "files" \notin shellOrder.given),
                    shellOrder.tenant \/ "tenant_id" \in shellOrder.given
             PROVE  FALSE
  OBVIOUS
<1>1. KeysFit(shellOrder.command) /\ shellOrder.given \subseteq shellOrder.command.may
  BY CommandsFit DEF RoutesCore, Fits
<1>2. PICK all : all = Told \cup (IF Verb = "create" /\ shellOrder.tenant THEN {"tenant_id"} ELSE {})
  OBVIOUS
<1>3. Told \subseteq Declared(Resource)
  <2>1. shellOrder.command.keys \subseteq Declared(Resource)
    BY <1>1 DEF KeysFit, Changing, Verb, Resource
  <2>2. \A k \in shellOrder.given : k \in Declared(Resource)
    BY <1>1 DEF KeysFit, Resource
  <2> QED
    BY <2>1, <2>2 DEF Told
<1>4. CASE Verb = "create"
  <2>1. "tenant_id" \in Declared(Resource) /\ "tenant_id" \in all
    BY <1>1, <1>2, <1>4 DEF KeysFit, Verb, Resource, Told
  <2>2. all \subseteq Declared(Resource)
    BY <1>2, <1>3, <2>1
  <2>3. NoDefault(Resource) \subseteq all
    <3>1. /\ NoDefault(Resource) \subseteq shellOrder.command.keys \cup {"tenant_id", "files"}
          /\ "files" \in NoDefault(Resource) => Resource = "template"
      BY <1>1, <1>4 DEF KeysFit, Verb, Resource
    <3>2. "files" \in NoDefault(Resource) => "files" \in all
      BY <1>2, <3>1 DEF Told
    <3>3. shellOrder.command.keys \subseteq all
      BY <1>2 DEF Told
    <3> QED
      BY <2>1, <3>1, <3>2, <3>3
  <2> QED
    BY <1>2, <2>1, <2>2, <2>3 DEF BodyFits
<1>5. CASE Verb # "create"
  BY <1>2, <1>3, <1>5 DEF BodyFits
<1> QED
  BY <1>4, <1>5

LEMMA LookupKept == RoutesCore /\ (NoLookup \/ Lookup) => RoutesCore'
<1> SUFFICES ASSUME RoutesCore, NoLookup \/ Lookup PROVE RoutesCore'
  OBVIOUS
<1>1. shellOrder' = shellOrder /\ bodyKeys' = bodyKeys /\ orderAt = "typed"
  BY DEF NoLookup, Lookup
<1>2. ran = << >> /\ bodyKeys = {} /\ verdict = "none"
  BY <1>1 DEF RoutesCore, CommandSoFar
<1>3. /\ Verb' = Verb /\ Resource' = Resource /\ Looked' = Looked /\ Told' = Told
      /\ ByName' = ByName /\ PathOf("list", Resource)' = PathOf("list", Resource)
  BY <1>1, SameCommand
<1>4. /\ PathOf("list", Resource) \notin RoutedNames => Resource \in {"metric", "service_driver"}
      /\ ByName /\ PathOf("list", Resource) \in RoutedNames =>
           PluginHas("list", PathOf("list", Resource))
  BY CommandFits
<1>5. \/ orderAt' = "found" /\ verdict' = verdict
      \/ orderAt' = "ended" /\ verdict' \in {"no route", "not found"}
  <2>1. CASE NoLookup
    BY <2>1 DEF NoLookup
  <2>2. CASE Lookup
    BY <1>4, <2>2 DEF Lookup, OrderEnds, NeedsLookup
  <2> QED
    BY <2>1, <2>2
<1>6. /\ verdict' = "no route" => Resource \in {"metric", "service_driver"}
      /\ ran' \in {<< >>, Looked} /\ (orderAt' = "found" => ran' = Looked)
      /\ ran' # << >> /\ ByName => PathOf("list", Resource) \in RoutedNames
  <2>1. CASE NoLookup
    <3>1. ran' = << >> /\ ~ByName /\ verdict' = "none"
      BY <1>2, <2>1 DEF NoLookup, NeedsLookup
    <3> QED
      BY <3>1 DEF Looked
  <2>2. CASE Lookup
    <3>1. CASE PathOf("list", Resource) \notin RoutedNames
      <4>1. ran' = << >> /\ orderAt' = "ended"
        BY <1>2, <2>2, <3>1 DEF Lookup, OrderEnds
      <4> QED
        BY <1>4, <3>1, <4>1
    <3>2. CASE PathOf("list", Resource) \in RoutedNames
      <4>1. ByName
        BY <2>2 DEF Lookup, NeedsLookup
      <4>2. ran' = Append(ran, <<"list", PathOf("list", Resource)>>)
        BY <1>4, <2>2, <3>2, <4>1 DEF Lookup
      <4>3. ran' = Looked
        BY <1>2, <4>1, <4>2 DEF Looked
      <4>4. verdict' # "no route"
        BY <1>2, <1>4, <2>2, <3>2, <4>1 DEF Lookup, OrderEnds
      <4> QED
        BY <3>2, <4>3, <4>4
    <3> QED
      BY <3>1, <3>2
  <2> QED
    BY <2>1, <2>2
<1>7. CommandSoFar'
  BY <1>1, <1>2, <1>3, <1>5, <1>6 DEF CommandSoFar
<1>8. ThreeDeadEnds' /\ KeysUnderstood'
  BY <1>2, <1>3, <1>5, <1>6 DEF ThreeDeadEnds, KeysUnderstood
<1> QED
  BY <1>1, <1>2, <1>5, <1>7, <1>8 DEF RoutesCore

LEMMA SendKept == RoutesCore /\ (Send \/ FindController) => RoutesCore'
<1> SUFFICES ASSUME RoutesCore, Send \/ FindController PROVE RoutesCore'
  OBVIOUS
<1>1. /\ shellOrder' = shellOrder /\ ran' = ran /\ orderAt \in {"found", "sent"}
  BY DEF Send, FindController
<1>2. ran = Looked /\ verdict = "none"
  BY <1>1 DEF RoutesCore, CommandSoFar
<1>3. /\ Verb' = Verb /\ Resource' = Resource /\ Looked' = Looked /\ Told' = Told
      /\ ByName' = ByName /\ PathOf("list", Resource)' = PathOf("list", Resource)
      /\ PathOf(Verb, Resource)' = PathOf(Verb, Resource)
  BY <1>1, SameCommand
<1>4. bodyKeys' = Told
  <2>1. CASE Send
    BY <2>1 DEF Send, Told
  <2>2. CASE FindController
    BY <2>2 DEF FindController, RoutesCore, CommandSoFar
  <2> QED
    BY <2>1, <2>2
<1>5. \/ orderAt' = "sent" /\ verdict' = "none"
      \/ orderAt' = "routed" /\ verdict' = "none" /\ PathOf(Verb, Resource) \in RoutedNames
      \/ orderAt' = "ended" /\ verdict' = "no route" /\ Resource \in {"metric", "service_driver"}
  BY <1>2, CommandFits DEF Send, FindController, OrderEnds
<1>6. ran # << >> /\ ByName => PathOf("list", Resource) \in RoutedNames
  BY DEF RoutesCore, CommandSoFar
<1>7. CommandSoFar'
  BY <1>1, <1>2, <1>3, <1>4, <1>5, <1>6 DEF CommandSoFar
<1>8. ThreeDeadEnds' /\ KeysUnderstood'
  BY <1>3, <1>5 DEF ThreeDeadEnds, KeysUnderstood
<1> QED
  BY <1>1, <1>5, <1>7, <1>8 DEF RoutesCore

LEMMA CheckBodyKept == RoutesCore /\ CheckBody => RoutesCore'
<1> SUFFICES ASSUME RoutesCore, CheckBody PROVE RoutesCore'
  OBVIOUS
<1>1. /\ shellOrder' = shellOrder /\ ran' = ran /\ bodyKeys' = bodyKeys /\ orderAt = "routed"
      /\ IF Verb \in {"create", "update"} /\ ~BodyFits(bodyKeys)
           THEN orderAt' = "ended" /\ verdict' = "refused"
           ELSE orderAt' = "checked" /\ verdict' = verdict
  BY DEF CheckBody, Refused400, OrderEnds
<1>2. /\ ran = Looked /\ verdict = "none" /\ bodyKeys = Told
      /\ PathOf(Verb, Resource) \in RoutedNames
      /\ ran # << >> /\ ByName => PathOf("list", Resource) \in RoutedNames
  BY <1>1 DEF RoutesCore, CommandSoFar
<1>3. /\ Verb' = Verb /\ Resource' = Resource /\ Looked' = Looked /\ Told' = Told
      /\ ByName' = ByName /\ PathOf("list", Resource)' = PathOf("list", Resource)
      /\ PathOf(Verb, Resource)' = PathOf(Verb, Resource)
  BY <1>1, SameCommand
<1>4. BodyFits(bodyKeys)' = BodyFits(bodyKeys)
  BY <1>1, <1>3 DEF BodyFits
<1>5. CASE Verb \in {"create", "update"} /\ ~BodyFits(bodyKeys)
  <2>1. orderAt' = "ended" /\ verdict' = "refused"
    BY <1>1, <1>5
  <2>2. CommandSoFar'
    BY <1>1, <1>2, <1>3, <2>1 DEF CommandSoFar
  <2>3. KeysUnderstood'
    <3>1. \/ Resource = "register" /\ "nsd_id" \in shellOrder.given
          \/ Resource = "template" /\ "files" \notin shellOrder.given
          \/ ~shellOrder.tenant /\ "tenant_id" \notin shellOrder.given
      BY <1>2, <1>5, BodyOfCommand
    <3> QED
      BY <1>1, <1>3, <3>1 DEF KeysUnderstood
  <2>4. ThreeDeadEnds'
    BY <2>1 DEF ThreeDeadEnds
  <2> QED
    BY <1>1, <2>1, <2>2, <2>3, <2>4 DEF RoutesCore
<1>6. CASE ~ (Verb \in {"create", "update"} /\ ~BodyFits(bodyKeys))
  <2>1. orderAt' = "checked" /\ verdict' = "none"
    BY <1>1, <1>2, <1>6
  <2>2. CommandSoFar'
    BY <1>1, <1>2, <1>3, <1>4, <1>6, <2>1 DEF CommandSoFar
  <2>3. KeysUnderstood' /\ ThreeDeadEnds'
    BY <2>1 DEF KeysUnderstood, ThreeDeadEnds
  <2> QED
    BY <1>1, <2>1, <2>2, <2>3 DEF RoutesCore
<1> QED
  BY <1>5, <1>6

LEMMA HandledKept == RoutesCore /\ Handle => RoutesCore'
<1> SUFFICES ASSUME RoutesCore, Handle PROVE RoutesCore'
  OBVIOUS
<1>1. shellOrder' = shellOrder /\ bodyKeys' = bodyKeys /\ orderAt = "checked"
  BY DEF Handle
<1>2. /\ ran = Looked /\ verdict = "none" /\ bodyKeys = Told
      /\ PathOf(Verb, Resource) \in RoutedNames
      /\ ran # << >> /\ ByName => PathOf("list", Resource) \in RoutedNames
  BY <1>1 DEF RoutesCore, CommandSoFar
<1>3. /\ Verb' = Verb /\ Resource' = Resource /\ Looked' = Looked /\ Told' = Told
      /\ ByName' = ByName /\ PathOf("list", Resource)' = PathOf("list", Resource)
      /\ PathOf(Verb, Resource)' = PathOf(Verb, Resource)
      /\ HandlersRun(PathOf(Verb, Resource))' = HandlersRun(PathOf(Verb, Resource))
  BY <1>1, SameCommand
<1>4. /\ orderAt' = "ended" /\ verdict' \in {"no handler", "failed", "done"}
      /\ verdict' = "no handler" => Resource = "register"
      /\ \/ ran' = ran
         \/ ran' = ran \o HandlersRun(PathOf(Verb, Resource))
            /\ PluginHas(Verb, PathOf(Verb, Resource))
  <2>1. CASE ~PluginHas(Verb, PathOf(Verb, Resource))
    BY <1>2, <2>1, CommandFits DEF Handle, OrderEnds
  <2>2. CASE PluginHas(Verb, PathOf(Verb, Resource))
    BY <2>2 DEF Handle, OrderEnds
  <2> QED
    BY <2>1, <2>2
<1>5. ByName => PathOf("list", Resource) \in RoutedNames
  <2>1. ByName => ran # << >>
    BY <1>2 DEF Looked
  <2> QED
    BY <1>2, <2>1
<1>6. CommandSoFar'
  <2>1. PluginHas(Verb, PathOf(Verb, Resource))' = PluginHas(Verb, PathOf(Verb, Resource))
    BY <1>3 DEF PluginHas
  <2> QED
    BY <1>1, <1>2, <1>3, <1>4, <1>5, <2>1 DEF CommandSoFar
<1>7. ThreeDeadEnds' /\ KeysUnderstood'
  BY <1>3, <1>4 DEF ThreeDeadEnds, KeysUnderstood
<1> QED
  BY <1>1, <1>4, <1>6, <1>7 DEF RoutesCore

LEMMA CoreKept == RoutesCore /\ [RoutesNext]_routesVars => RoutesCore'
<1>1. RoutesCore /\ UNCHANGED routesVars => RoutesCore'
  <2> SUFFICES ASSUME RoutesCore, UNCHANGED routesVars PROVE RoutesCore'
    OBVIOUS
  <2>1. /\ shellOrder' = shellOrder /\ orderAt' = orderAt /\ ran' = ran /\ bodyKeys' = bodyKeys
        /\ verdict' = verdict
    BY DEF routesVars
  <2>2. /\ Verb' = Verb /\ Resource' = Resource /\ Looked' = Looked /\ Told' = Told
        /\ ByName' = ByName /\ PathOf("list", Resource)' = PathOf("list", Resource)
        /\ PathOf(Verb, Resource)' = PathOf(Verb, Resource)
        /\ HandlersRun(PathOf(Verb, Resource))' = HandlersRun(PathOf(Verb, Resource))
    BY <2>1, SameCommand
  <2>3. BodyFits(bodyKeys)' = BodyFits(bodyKeys)
    BY <2>1, <2>2 DEF BodyFits
  <2>4. PluginHas(Verb, PathOf(Verb, Resource))' = PluginHas(Verb, PathOf(Verb, Resource))
    BY <2>2 DEF PluginHas
  <2>5. CommandSoFar'
    BY <2>1, <2>2, <2>3, <2>4 DEF RoutesCore, CommandSoFar
  <2>6. ThreeDeadEnds' /\ KeysUnderstood'
    BY <2>1, <2>2 DEF RoutesCore, ThreeDeadEnds, KeysUnderstood
  <2> QED
    BY <2>1, <2>5, <2>6 DEF RoutesCore
<1> QED
  BY <1>1, LookupKept, SendKept, CheckBodyKept, HandledKept DEF RoutesNext

LEMMA RoutesKept == RoutesInv /\ [RoutesNext]_routesVars => RoutesInv'
<1>1. RoutesInv => RoutesCore
  BY DEF RoutesInv, RoutesCore, RoutesTypeOK
<1> QED
  BY <1>1, CoreKept, CoreThen, PTL

(***************************************************************************)
(* DescriptorParsers: from descriptors to cards                            *)
(***************************************************************************)

(* The least of some numbers.                                              *)
LEMMA LeastOf ==
  ASSUME NEW T, T \subseteq Nat, T # {}
  PROVE  Min(T) \in T /\ \A k \in T : Min(T) <= k
<1>1. \E m \in T : \A k \in T : m <= k
  <2>1. PICK R : R = OpToRel(<, Nat)
    OBVIOUS
  <2>2. IsWellFoundedOn(R, Nat)
    BY <2>1, NatLessThanWellFounded
  <2>3. \A j, k \in Nat : <<j, k>> \in R <=> j < k
    BY <2>1 DEF OpToRel
  <2>4. PICK m \in T : \A k \in T : ~ (<<k, m>> \in R)
    BY <2>2, WFMin
  <2>5. ASSUME NEW k \in T PROVE m <= k
    <3>1. m \in Nat /\ k \in Nat
      OBVIOUS
    <3>2. ~ k < m
      BY <2>3, <2>4, <3>1
    <3> QED
      BY <3>1, <3>2
  <2> QED
    BY <2>5
<1> QED
  BY <1>1 DEF Min

LEMMA OrdersAre ==
  /\ Cardinality(Iface) \in Nat
  /\ \A cards : cards \in Orders <=>
       /\ cards \in [1 .. Cardinality(Iface) -> Iface]
       /\ \A j, k \in 1 .. Cardinality(Iface) : cards[j] = cards[k] => j = k
       /\ \A i \in Iface : \E k \in 1 .. Cardinality(Iface) : cards[k] = i
<1>1. Cardinality(Iface) \in Nat
  BY NetworksAssumption, FS_CardinalityType
<1>2. PICK n : n = Cardinality(Iface)
  OBVIOUS
<1>3. ASSUME NEW cards
      PROVE  cards \in Orders <=>
               /\ cards \in [1 .. n -> Iface]
               /\ \A j, k \in 1 .. n : cards[j] = cards[k] => j = k
               /\ \A i \in Iface : \E k \in 1 .. n : cards[k] = i
  <2>1. cards \in Orders <=> cards \in Injection(1 .. n, Iface) /\ cards \in Surjection(1 .. n, Iface)
    BY <1>2 DEF Orders, Bijection
  <2>2. cards \in Injection(1 .. n, Iface) <=> cards \in [1 .. n -> Iface] /\ IsInjective(cards)
    BY DEF Injection
  <2>3. cards \in Surjection(1 .. n, Iface) <=>
          cards \in [1 .. n -> Iface] /\ \A i \in Iface : \E k \in 1 .. n : cards[k] = i
    BY DEF Surjection
  <2>4. cards \in [1 .. n -> Iface] =>
          (IsInjective(cards) <=> \A j, k \in 1 .. n : cards[j] = cards[k] => j = k)
    BY DEF IsInjective
  <2> QED
    BY <2>1, <2>2, <2>3, <2>4
<1> QED
  BY <1>1, <1>2, <1>3

FrontBy(g, c, m, n) ==
  g = [k \in 1 .. n |-> IF k = 1 THEN c[m] ELSE IF k <= m THEN c[k - 1] ELSE c[k]]

InOrder(c, n, S) ==
  /\ c \in [1 .. n -> S]
  /\ \A j, k \in 1 .. n : c[j] = c[k] => j = k
  /\ \A i \in S : \E k \in 1 .. n : c[k] = i

(* Moving a card to the front loses none and doubles none.                 *)
LEMMA MovedToFront ==
  ASSUME NEW n \in Nat, NEW S, NEW c, InOrder(c, n, S), NEW m \in 1 .. n, NEW g, FrontBy(g, c, m, n)
  PROVE  InOrder(g, n, S) /\ g[1] = c[m]
<1>0. /\ c \in [1 .. n -> S]
      /\ \A j, k \in 1 .. n : c[j] = c[k] => j = k
      /\ \A i \in S : \E k \in 1 .. n : c[k] = i
  BY DEF InOrder
<1>1. PICK from : from = [k \in 1 .. n |-> IF k = 1 THEN m ELSE IF k <= m THEN k - 1 ELSE k]
  OBVIOUS
<1>2. ASSUME NEW k \in 1 .. n
      PROVE  /\ from[k] \in 1 .. n /\ g[k] = c[from[k]]
             /\ (k = 1 => from[k] = m)
             /\ (k # 1 /\ k <= m => from[k] = k - 1)
             /\ (k # 1 /\ ~ k <= m => from[k] = k)
  <2>0. g[k] = IF k = 1 THEN c[m] ELSE IF k <= m THEN c[k - 1] ELSE c[k]
    BY DEF FrontBy
  <2>1. CASE k = 1
    BY <1>1, <2>0, <2>1
  <2>2. CASE k # 1 /\ k <= m
    <3>1. k - 1 \in 1 .. n
      BY <2>2
    <3> QED
      BY <1>1, <2>0, <2>2, <3>1
  <2>3. CASE k # 1 /\ ~ k <= m
    BY <1>1, <2>0, <2>3
  <2> QED
    BY <2>1, <2>2, <2>3
<1>3. ASSUME NEW j \in 1 .. n, NEW k \in 1 .. n, from[j] = from[k] PROVE j = k
  BY <1>2, <1>3
<1>4. ASSUME NEW k \in 1 .. n PROVE \E j \in 1 .. n : from[j] = k
  <2>1. CASE k = m
    <3>1. 1 \in 1 .. n
      OBVIOUS
    <3> QED
      BY <1>2, <2>1, <3>1
  <2>2. CASE k < m
    <3>1. PICK j : j = k + 1
      OBVIOUS
    <3>2. j \in 1 .. n /\ j # 1 /\ j <= m /\ j - 1 = k
      BY <2>2, <3>1
    <3>3. from[j] = j - 1
      BY <1>2, <3>2
    <3> QED
      BY <3>2, <3>3
  <2>3. CASE k > m
    <3>1. k # 1 /\ ~ k <= m
      BY <2>3
    <3> QED
      BY <1>2, <3>1
  <2> QED
    BY <2>1, <2>2, <2>3
<1>5. \A k \in 1 .. n : g[k] \in S
  BY <1>0, <1>2
<1>6. g \in [1 .. n -> S]
  BY <1>5 DEF FrontBy
<1>7. g[1] = c[m]
  <2>1. 1 \in 1 .. n
    OBVIOUS
  <2> QED
    BY <1>2, <2>1
<1>8. ASSUME NEW j \in 1 .. n, NEW k \in 1 .. n, g[j] = g[k] PROVE j = k
  <2>1. c[from[j]] = c[from[k]] /\ from[j] \in 1 .. n /\ from[k] \in 1 .. n
    BY <1>2, <1>8
  <2>2. from[j] = from[k]
    BY <1>0, <2>1
  <2> QED
    BY <1>3, <2>2
<1>9. ASSUME NEW i \in S PROVE \E k \in 1 .. n : g[k] = i
  <2>1. PICK k \in 1 .. n : c[k] = i
    BY <1>0
  <2>2. PICK j \in 1 .. n : from[j] = k
    BY <1>4
  <2> QED
    BY <1>2, <2>1, <2>2
<1> QED
  BY <1>6, <1>7, <1>8, <1>9 DEF InOrder

(* The cards a machine gets: all of them, that for management in front.    *)
LEMMA CardsOf ==
  ASSUME NEW v, NEW cards \in Orders
  PROVE  /\ MgmtFirst(v, cards) \in Orders
         /\ (\E i \in Iface : OnMgmt(v, i)) => /\ Cardinality(Iface) >= 1
                                               /\ OnMgmt(v, MgmtFirst(v, cards)[1])
<1>1. PICK n : n = Cardinality(Iface)
  OBVIOUS
<1>2. /\ n \in Nat /\ cards \in [1 .. n -> Iface]
      /\ \A j, k \in 1 .. n : cards[j] = cards[k] => j = k
      /\ \A i \in Iface : \E k \in 1 .. n : cards[k] = i
  BY <1>1, OrdersAre
<1>3. PICK at : at = {k \in 1 .. n : OnMgmt(v, cards[k])}
  OBVIOUS
<1>4. DOMAIN cards = 1 .. n
  BY <1>2
<1>5. PICK g : g = MgmtFirst(v, cards)
  OBVIOUS
<1>6. CASE at = {}
  <2>1. g = cards
    BY <1>3, <1>4, <1>5, <1>6 DEF MgmtFirst
  <2>2. ~ \E i \in Iface : OnMgmt(v, i)
    BY <1>2, <1>3, <1>6
  <2> QED
    BY <1>5, <2>1, <2>2
<1>7. CASE at # {}
  <2>1. at \subseteq Nat
    BY <1>3
  <2>2. PICK m : m = Min(at)
    OBVIOUS
  <2>3. m \in at
    BY <1>7, <2>1, <2>2, LeastOf
  <2>4. m \in 1 .. n /\ OnMgmt(v, cards[m])
    BY <1>3, <2>3
  <2>5. FrontBy(g, cards, m, n)
    BY <1>3, <1>4, <1>5, <1>7, <2>2 DEF MgmtFirst, FrontBy
  <2>6. /\ g \in [1 .. n -> Iface] /\ g[1] = cards[m]
        /\ \A j, k \in 1 .. n : g[j] = g[k] => j = k
        /\ \A i \in Iface : \E k \in 1 .. n : g[k] = i
    <3>1. InOrder(cards, n, Iface)
      BY <1>2 DEF InOrder
    <3>2. InOrder(g, n, Iface) /\ g[1] = cards[m]
      BY <1>2, <2>4, <2>5, <3>1, MovedToFront
    <3> QED
      BY <3>2 DEF InOrder
  <2>7. g \in Orders
    BY <1>1, <2>6, OrdersAre
  <2>8. n >= 1
    BY <1>2, <2>4
  <2> QED
    BY <1>1, <1>5, <2>4, <2>6, <2>7, <2>8
<1> QED
  BY <1>6, <1>7

(* Of several cards, the first for management, the second leads on.        *)
LEMMA RouteOf ==
  ASSUME NEW v, NEW cards \in Orders, OnMgmt(v, cards[1]),
         Cardinality({i \in Iface : OnMgmt(v, i)}) = 1, Cardinality(Iface) > 1
  PROVE  DefaultRoute(v, cards) = wired[<<v, cards[2]>>]
<1>1. PICK n : n = Cardinality(Iface)
  OBVIOUS
<1>2. /\ n \in Nat /\ n > 1 /\ cards \in [1 .. n -> Iface]
      /\ \A j, k \in 1 .. n : cards[j] = cards[k] => j = k
  BY <1>1, OrdersAre
<1>3. PICK M : M = {i \in Iface : OnMgmt(v, i)}
  OBVIOUS
<1>4. IsFiniteSet(M)
  <2>1. M \subseteq Iface /\ IsFiniteSet(Iface)
    BY <1>3, NetworksAssumption
  <2> QED
    BY <2>1, FS_Subset
<1>5. PICK i : M = {i}
  BY <1>3, <1>4, FS_Singleton
<1>6. \A k \in 1 .. n : OnMgmt(v, cards[k]) <=> cards[k] = i
  BY <1>2, <1>3, <1>5
<1>7. 1 \in 1 .. n /\ 2 \in 1 .. n
  BY <1>2
<1>8. cards[1] = i
  BY <1>6, <1>7
<1>9. \A k \in 1 .. n : OnMgmt(v, cards[k]) <=> k = 1
  BY <1>2, <1>6, <1>7, <1>8
<1>10. PICK T : T = {k \in 1 .. n : ~OnMgmt(v, cards[k])}
  OBVIOUS
<1>11. \A k : k \in T <=> k \in 1 .. n /\ k # 1
  BY <1>9, <1>10
<1>12. T \subseteq Nat /\ 2 \in T
  BY <1>7, <1>11
<1>13. PICK m : m = Min(T)
  OBVIOUS
<1>14. m \in T /\ \A k \in T : m <= k
  BY <1>12, <1>13, LeastOf
<1>15. m = 2
  <2>1. m \in 1 .. n /\ m # 1 /\ m <= 2
    BY <1>11, <1>12, <1>14
  <2> QED
    BY <1>2, <2>1
<1>16. DOMAIN cards = 1 .. n
  BY <1>2
<1>17. DefaultRoute(v, cards) = wired[<<v, cards[m]>>]
  BY <1>10, <1>12, <1>13, <1>16 DEF DefaultRoute
<1> QED
  BY <1>15, <1>17

LEMMA NetworksApart == NoNetwork \notin Vld /\ \A v \in DescVdu, i \in Iface : <<v, i>> \in Pairs
BY NetworksAssumption DEF Pairs

LEMMA DescStarts == DescInit => DescInv
<1> SUFFICES ASSUME DescInit PROVE DescInv
  OBVIOUS
<1>1. /\ desc \in Descriptions /\ parsePc = "nsd" /\ left = Vld /\ toRouter = {}
      /\ joined = [v \in DescVdu |-> [p \in Point |-> NoNetwork]]
      /\ wired = [x \in Pairs |-> NoNetwork] /\ fixedPort = {}
      /\ nics = [v \in DescVdu |-> NoCards] /\ route = [v \in DescVdu |-> NoNetwork]
  BY DEF DescInit
<1>2. /\ \A v \in DescVdu : \A p \in Point : joined[v][p] = NoNetwork
      /\ \A x \in Pairs : wired[x] = NoNetwork
      /\ \A v \in DescVdu : nics[v] = NoCards
  BY <1>1
<1>3. DescTypeOK
  <2>1. joined \in [DescVdu -> [Point -> Vld \cup {NoNetwork}]]
    BY <1>1
  <2>2. wired \in [Pairs -> Vld \cup {NoNetwork}] /\ route \in [DescVdu -> Vld \cup {NoNetwork}]
    BY <1>1
  <2> QED
    BY <1>1, <1>2, <2>1, <2>2 DEF DescTypeOK
<1>4. WiredAsDescribed
  BY <1>2 DEF WiredAsDescribed
<1>5. ParsedWhenComplete /\ FixedPorts
  BY <1>1 DEF ParsedWhenComplete, FixedPorts
<1>6. CardOrder
  BY <1>2 DEF CardOrder
<1>7. ReadSoFar
  <2>1. desc.routed \subseteq Vld
    BY <1>1, DescriptorsAssumption
  <2>2. toRouter = desc.routed \ left
    BY <1>1, <2>1
  <2>3. DOMAIN nics = DescVdu
    BY <1>1
  <2> QED
    BY <1>1, <1>2, <2>2, <2>3 DEF ReadSoFar
<1> QED
  BY <1>3, <1>4, <1>5, <1>6, <1>7 DEF DescInv

(* A network that the request gives and that joins no list of points.      *)
LEMMA VldReadKept ==
  ASSUME DescInv, NEW n \in Vld, parsePc = "nsd", n \in left, n \in desc.given,
         \A v \in DescVdu : desc.member[n][v] # "list",
         left' = left \ {n}, parsePc' = parsePc, RouterEntries(n), AddNetworks(n),
         UNCHANGED <<desc, wired, fixedPort, nics, route>>
  PROVE  DescInv'
<1>1. DescTypeOK /\ ReadSoFar /\ WiredAsDescribed
  BY DEF DescInv
<1>2. desc' = desc /\ wired' = wired /\ fixedPort' = fixedPort /\ nics' = nics /\ route' = route
  OBVIOUS
<1>3. joined' = [v \in DescVdu |-> [p \in Point |-> IF desc.member[n][v] = p THEN n ELSE joined[v][p]]]
  BY DEF AddNetworks
<1>4. /\ joined \in [DescVdu -> [Point -> Vld \cup {NoNetwork}]]
      /\ \A v \in DescVdu : \A p \in Point : joined[v][p] \in Vld \cup {NoNetwork}
  BY <1>1 DEF DescTypeOK
<1>5. \A v \in DescVdu : \A p \in Point :
        joined'[v][p] = IF desc.member[n][v] = p THEN n ELSE joined[v][p]
  BY <1>3
<1>6. joined' \in [DescVdu -> [Point -> Vld \cup {NoNetwork}]]
  BY <1>3, <1>4
<1>7. /\ left \subseteq Vld /\ toRouter = desc.routed \ left /\ fixedPort = {}
      /\ \A x \in Pairs : wired[x] = NoNetwork
      /\ \A v \in DescVdu : nics[v] = NoCards
      /\ DOMAIN nics = DescVdu /\ desc \in Descriptions
  BY <1>1 DEF ReadSoFar
<1>8. desc.routed \subseteq Vld
  BY <1>7, DescriptorsAssumption
<1>9. toRouter' = desc.routed \ left' /\ left' \subseteq Vld
  <2>1. toRouter' = IF n \in desc.routed THEN toRouter \cup {n} ELSE toRouter
    BY DEF RouterEntries
  <2>2. left' = left \ {n} /\ left' \subseteq Vld
    BY <1>7
  <2>3. CASE n \in desc.routed
    BY <1>7, <2>1, <2>2, <2>3
  <2>4. CASE n \notin desc.routed
    BY <1>7, <2>1, <2>2, <2>4
  <2> QED
    BY <2>2, <2>3, <2>4
<1>10. DescTypeOK'
  <2>1. toRouter' \subseteq Vld
    BY <1>8, <1>9
  <2> QED
    BY <1>1, <1>2, <1>6, <1>9, <2>1 DEF DescTypeOK
<1>11. WiredAsDescribed'
  BY <1>1, <1>2 DEF WiredAsDescribed
<1>12. ParsedWhenComplete' /\ FixedPorts'
  BY DEF ParsedWhenComplete, FixedPorts
<1>13. CardOrder'
  BY <1>2, <1>7 DEF CardOrder
<1>14. \A v \in DescVdu : \A p \in Point :
         joined'[v][p] # NoNetwork => desc.member[joined'[v][p]][v] = p
  BY <1>1, <1>5 DEF ReadSoFar
<1>15. ASSUME NEW m \in Vld \ left'
       PROVE  VldRead(m)'
  <2>1. m = n \/ m \in Vld \ left
    OBVIOUS
  <2>2. m \in desc.given /\ \A v \in DescVdu : desc.member[m][v] # "list"
    BY <1>1, <2>1 DEF ReadSoFar, VldRead
  <2>3. ASSUME NEW v \in DescVdu, NEW p \in Point, desc.member[m][v] = p
        PROVE  joined'[v][p] # NoNetwork
    <3>1. CASE m = n
      BY <1>5, <2>3, <3>1, NetworksApart
    <3>2. CASE m \in Vld \ left
      <4>1. joined[v][p] # NoNetwork
        BY <1>1, <2>3, <3>2 DEF ReadSoFar, VldRead
      <4> QED
        BY <1>5, <4>1, NetworksApart
    <3> QED
      BY <2>1, <3>1, <3>2
  <2> QED
    BY <1>2, <2>2, <2>3 DEF VldRead
<1>16. ReadSoFar'
  BY <1>2, <1>7, <1>9, <1>14, <1>15 DEF ReadSoFar
<1> QED
  BY <1>10, <1>11, <1>12, <1>13, <1>16 DEF DescInv

LEMMA VldFailsKept ==
  ASSUME DescInv, NEW n \in Vld, parsePc = "nsd", n \in left,
         ~ (n \in desc.given /\ \A v \in DescVdu : desc.member[n][v] # "list"),
         parsePc' = "failed", UNCHANGED <<left, toRouter, joined>>,
         UNCHANGED <<desc, wired, fixedPort, nics, route>>
  PROVE  DescInv'
<1>1. DescTypeOK /\ ReadSoFar /\ WiredAsDescribed
  BY DEF DescInv
<1>2. /\ desc' = desc /\ wired' = wired /\ fixedPort' = fixedPort /\ nics' = nics /\ route' = route
      /\ left' = left /\ toRouter' = toRouter /\ joined' = joined
  OBVIOUS
<1>3. DescTypeOK'
  BY <1>1, <1>2 DEF DescTypeOK
<1>4. WiredAsDescribed'
  BY <1>1, <1>2 DEF WiredAsDescribed
<1>5. \A v \in DescVdu : nics[v] = NoCards
  BY <1>1 DEF ReadSoFar
<1>6. CardOrder'
  BY <1>2, <1>5 DEF CardOrder
<1>7. FixedPorts'
  BY DEF FixedPorts
<1>8. ParsedWhenComplete'
  <2>1. desc.given # Vld \/ \E m \in Vld, v \in DescVdu : desc.member[m][v] = "list"
    OBVIOUS
  <2> QED
    BY <1>2, <2>1 DEF ParsedWhenComplete
<1>9. ReadSoFar'
  BY <1>1, <1>2, <1>5 DEF ReadSoFar
<1> QED
  BY <1>3, <1>4, <1>6, <1>7, <1>8, <1>9 DEF DescInv

LEMMA NsdParsedKept ==
  ASSUME DescInv, NsdParsed
  PROVE  DescInv'
<1>1. DescTypeOK /\ ReadSoFar /\ WiredAsDescribed
  BY DEF DescInv
<1>2. /\ parsePc = "nsd" /\ left = {} /\ parsePc' = "vnfd" /\ left' = Pairs
      /\ desc' = desc /\ toRouter' = toRouter /\ joined' = joined /\ wired' = wired
      /\ fixedPort' = fixedPort /\ nics' = nics /\ route' = route
  BY DEF NsdParsed
<1>3. /\ toRouter = desc.routed /\ fixedPort = {} /\ \A n \in Vld : VldRead(n)
      /\ \A v \in DescVdu : nics[v] = NoCards
      /\ DOMAIN nics = DescVdu /\ desc \in Descriptions
  BY <1>1, <1>2 DEF ReadSoFar
<1>4. DescTypeOK'
  BY <1>1, <1>2 DEF DescTypeOK
<1>5. WiredAsDescribed'
  BY <1>1, <1>2 DEF WiredAsDescribed
<1>6. ParsedWhenComplete' /\ FixedPorts'
  BY <1>2, <1>3 DEF ParsedWhenComplete, FixedPorts
<1>7. CardOrder'
  BY <1>2, <1>3 DEF CardOrder
<1>8. \A n \in Vld : VldRead(n)'
  BY <1>2, <1>3 DEF VldRead
<1>9. ReadSoFar'
  <2>1. \A v \in DescVdu : \A p \in Point :
          joined'[v][p] # NoNetwork => desc'.member[joined'[v][p]][v] = p
    BY <1>1, <1>2 DEF ReadSoFar
  <2> QED
    BY <1>2, <1>3, <1>8, <2>1 DEF ReadSoFar
<1> QED
  BY <1>4, <1>5, <1>6, <1>7, <1>9 DEF DescInv

(* An interface whose connection point has a network.                      *)
LEMMA InterfaceKept ==
  ASSUME DescInv, NEW v \in DescVdu, NEW i \in Iface, parsePc = "vnfd", <<v, i>> \in left,
         NEW p, NEW n, p = desc.ref[v][i], n = joined[v][p], n # NoNetwork,
         wired' = [wired EXCEPT ![<<v, i>>] = n],
         fixedPort' = IF p \in desc.fixed THEN fixedPort \cup {<<v, i>>} ELSE fixedPort,
         left' = left \ {<<v, i>>}, parsePc' = parsePc,
         UNCHANGED <<desc, toRouter, joined, nics, route>>
  PROVE  DescInv'
<1>1. DescTypeOK /\ ReadSoFar /\ WiredAsDescribed /\ ParsedWhenComplete
  BY DEF DescInv
<1>2. /\ desc' = desc /\ toRouter' = toRouter /\ joined' = joined /\ nics' = nics /\ route' = route
  OBVIOUS
<1>3. PICK y : y = <<v, i>>
  OBVIOUS
<1>4. y \in Pairs /\ y[1] = v /\ y[2] = i /\ y \in left
  BY <1>3, NetworksApart
<1>5. p \in Point
  <2>1. desc \in Descriptions
    BY <1>1 DEF ReadSoFar
  <2>2. desc.ref \in [DescVdu -> [Iface -> Point]]
    BY <2>1, DescriptorsAssumption
  <2> QED
    BY <2>2
<1>6. n \in Vld /\ desc.member[n][v] = p
  <2>1. joined[v][p] \in Vld \cup {NoNetwork}
    BY <1>1, <1>5 DEF DescTypeOK
  <2>2. desc.member[n][v] = p
    BY <1>1, <1>5 DEF ReadSoFar
  <2> QED
    BY <2>1, <2>2
<1>7. wired \in [Pairs -> Vld \cup {NoNetwork}]
  BY <1>1 DEF DescTypeOK
<1>8. /\ wired' \in [Pairs -> Vld \cup {NoNetwork}] /\ wired'[y] = n
      /\ \A x \in Pairs : x # y => wired'[x] = wired[x]
  <2>1. wired' = [wired EXCEPT ![y] = n]
    BY <1>3
  <2> QED
    BY <1>4, <1>6, <1>7, <2>1
<1>9. left' = left \ {y} /\ fixedPort' = IF p \in desc.fixed THEN fixedPort \cup {y} ELSE fixedPort
  BY <1>3
<1>10. left \subseteq Pairs /\ \A x \in Pairs : x \in fixedPort <=> x \notin left /\ NeedsPort(x)
  BY <1>1 DEF ReadSoFar
<1>11. NeedsPort(y) <=> p \in desc.fixed
  BY <1>4 DEF NeedsPort
<1>12. /\ left' \subseteq Pairs
       /\ \A x \in Pairs : x \in fixedPort' <=> x \notin left' /\ NeedsPort(x)
  <2>1. CASE p \in desc.fixed
    BY <1>4, <1>9, <1>10, <1>11, <2>1
  <2>2. CASE p \notin desc.fixed
    BY <1>4, <1>9, <1>10, <1>11, <2>2
  <2> QED
    BY <2>1, <2>2
<1>13. fixedPort' \subseteq Pairs
  <2>1. fixedPort \subseteq Pairs
    BY <1>1 DEF DescTypeOK
  <2> QED
    BY <1>4, <1>9, <2>1
<1>14. DescTypeOK'
  BY <1>1, <1>2, <1>8, <1>12, <1>13 DEF DescTypeOK
<1>15. WiredAsDescribed'
  <2> SUFFICES ASSUME NEW x \in Pairs, wired'[x] # NoNetwork
               PROVE  desc.member[wired'[x]][x[1]] = desc.ref[x[1]][x[2]]
    BY <1>2 DEF WiredAsDescribed
  <2>1. CASE x = y
    BY <1>4, <1>6, <1>8, <2>1
  <2>2. CASE x # y
    BY <1>1, <1>8, <2>2 DEF WiredAsDescribed
  <2> QED
    BY <2>1, <2>2
<1>16. toRouter = desc.routed
  BY <1>1 DEF ParsedWhenComplete
<1>17. ParsedWhenComplete' /\ FixedPorts'
  BY <1>2, <1>16 DEF ParsedWhenComplete, FixedPorts
<1>18. /\ \A w \in DescVdu : nics[w] = NoCards
       /\ DOMAIN nics = DescVdu /\ desc \in Descriptions /\ \A m \in Vld : VldRead(m)
       /\ \A w \in DescVdu : \A q \in Point :
            joined[w][q] # NoNetwork => desc.member[joined[w][q]][w] = q
  BY <1>1 DEF ReadSoFar
<1>19. CardOrder'
  BY <1>2, <1>18 DEF CardOrder
<1>20. \A m \in Vld : VldRead(m)'
  BY <1>2, <1>18 DEF VldRead
<1>21. \A x \in Pairs : NeedsPort(x)' <=> NeedsPort(x)
  BY <1>2 DEF NeedsPort
<1>22. ReadSoFar'
  <2>1. \A x \in Pairs : x \in fixedPort' <=> x \notin left' /\ NeedsPort(x)'
    BY <1>12, <1>21
  <2> QED
    BY <1>2, <1>12, <1>18, <1>20, <2>1 DEF ReadSoFar
<1> QED
  BY <1>14, <1>15, <1>17, <1>19, <1>22 DEF DescInv

(* One that no network joins, or a second one with one fixed address.      *)
LEMMA InterfaceFailsKept ==
  ASSUME DescInv, NEW v \in DescVdu, NEW i \in Iface, parsePc = "vnfd", <<v, i>> \in left,
         NEW p, NEW n, p = desc.ref[v][i], n = joined[v][p],
         n = NoNetwork \/ (p \in desc.fixed /\ ~AddressFree(p, n)),
         parsePc' = "failed", UNCHANGED <<left, wired, fixedPort>>,
         UNCHANGED <<desc, toRouter, joined, nics, route>>
  PROVE  DescInv'
<1>1. DescTypeOK /\ ReadSoFar /\ WiredAsDescribed
  BY DEF DescInv
<1>2. /\ desc' = desc /\ wired' = wired /\ fixedPort' = fixedPort /\ nics' = nics /\ route' = route
      /\ left' = left /\ toRouter' = toRouter /\ joined' = joined
  OBVIOUS
<1>3. PICK x : x = <<v, i>>
  OBVIOUS
<1>4. x \in Pairs /\ x[1] = v /\ x[2] = i /\ x \in left
  BY <1>3, NetworksApart
<1>5. p \in Point
  <2>1. desc \in Descriptions
    BY <1>1 DEF ReadSoFar
  <2>2. desc.ref \in [DescVdu -> [Iface -> Point]]
    BY <2>1, DescriptorsAssumption
  <2> QED
    BY <2>2
<1>6. \/ \E y \in Pairs : \A m \in Vld : desc.member[m][y[1]] # desc.ref[y[1]][y[2]]
      \/ \E y, z \in Pairs : y # z /\ desc.ref[y[1]][y[2]] = desc.ref[z[1]][z[2]]
                                   /\ desc.ref[y[1]][y[2]] \in desc.fixed
  <2>1. CASE n = NoNetwork
    <3>1. \A m \in Vld : desc.member[m][v] # p
      <4>1. \A m \in Vld : VldRead(m)
        BY <1>1 DEF ReadSoFar
      <4> QED
        BY <1>5, <2>1, <4>1 DEF VldRead
    <3>2. \A m \in Vld : desc.member[m][x[1]] # desc.ref[x[1]][x[2]]
      BY <1>4, <3>1
    <3> QED
      BY <1>4, <3>2
  <2>2. CASE p \in desc.fixed /\ ~AddressFree(p, n)
    <3>1. PICK y \in fixedPort : desc.ref[y[1]][y[2]] = p
      BY <2>2 DEF AddressFree
    <3>2. y \in Pairs /\ y \notin left
      BY <1>1, <3>1 DEF DescTypeOK, ReadSoFar
    <3>3. y # x /\ desc.ref[x[1]][x[2]] = p
      BY <1>4, <3>2
    <3> QED
      BY <1>4, <2>2, <3>1, <3>2, <3>3
  <2> QED
    BY <2>1, <2>2
<1>7. DescTypeOK'
  BY <1>1, <1>2 DEF DescTypeOK
<1>8. WiredAsDescribed'
  BY <1>1, <1>2 DEF WiredAsDescribed
<1>9. \A w \in DescVdu : nics[w] = NoCards
  BY <1>1 DEF ReadSoFar
<1>10. CardOrder'
  BY <1>2, <1>9 DEF CardOrder
<1>11. ParsedWhenComplete' /\ FixedPorts'
  BY <1>2, <1>6 DEF ParsedWhenComplete, FixedPorts
<1>12. ReadSoFar'
  BY <1>1, <1>2, <1>9 DEF ReadSoFar
<1> QED
  BY <1>7, <1>8, <1>10, <1>11, <1>12 DEF DescInv

LEMMA VnfdsParsedKept ==
  ASSUME DescInv, VnfdsParsed
  PROVE  DescInv'
<1>1. DescTypeOK /\ ReadSoFar /\ WiredAsDescribed /\ ParsedWhenComplete
  BY DEF DescInv
<1>2. /\ parsePc = "vnfd" /\ left = {} /\ parsePc' = "parsed" /\ left' = left
      /\ desc' = desc /\ toRouter' = toRouter /\ joined' = joined /\ wired' = wired
      /\ fixedPort' = fixedPort /\ nics' = nics /\ route' = route
  BY DEF VnfdsParsed
<1>3. /\ \A n \in Vld : VldRead(n)
      /\ \A x \in Pairs : x \in fixedPort <=> NeedsPort(x)
      /\ \A v \in DescVdu : nics[v] = NoCards
      /\ DOMAIN nics = DescVdu /\ desc \in Descriptions
  BY <1>1, <1>2 DEF ReadSoFar
<1>4. DescTypeOK'
  BY <1>1, <1>2 DEF DescTypeOK
<1>5. WiredAsDescribed'
  BY <1>1, <1>2 DEF WiredAsDescribed
<1>6. fixedPort \subseteq Pairs
  BY <1>1 DEF DescTypeOK
<1>7. fixedPort = {x \in Pairs : desc.ref[x[1]][x[2]] \in desc.fixed}
  BY <1>3, <1>6 DEF NeedsPort
<1>8. ParsedWhenComplete' /\ FixedPorts'
  BY <1>1, <1>2, <1>7 DEF ParsedWhenComplete, FixedPorts
<1>9. CardOrder'
  BY <1>2, <1>3 DEF CardOrder
<1>10. \A n \in Vld : VldRead(n)'
  BY <1>2, <1>3 DEF VldRead
<1>11. ReadSoFar'
  <2>1. \A v \in DescVdu : \A p \in Point :
          joined'[v][p] # NoNetwork => desc'.member[joined'[v][p]][v] = p
    BY <1>1, <1>2 DEF ReadSoFar
  <2> QED
    BY <1>2, <1>3, <1>10, <2>1 DEF ReadSoFar
<1> QED
  BY <1>4, <1>5, <1>8, <1>9, <1>11 DEF DescInv

(* A machine gets its cards and its route.                                 *)
LEMMA BootKept ==
  ASSUME DescInv, NEW v \in DescVdu, Boot(v)
  PROVE  DescInv'
<1>1. DescTypeOK /\ ReadSoFar /\ WiredAsDescribed /\ ParsedWhenComplete /\ FixedPorts /\ CardOrder
  BY DEF DescInv
<1>2. /\ parsePc = "parsed" /\ nics[v] = NoCards
      /\ desc' = desc /\ parsePc' = parsePc /\ left' = left /\ toRouter' = toRouter
      /\ joined' = joined /\ wired' = wired /\ fixedPort' = fixedPort
  BY DEF Boot
<1>3. PICK cards \in Orders :
        /\ nics' = [nics EXCEPT ![v] = MgmtFirst(v, cards)]
        /\ route' = [route EXCEPT ![v] = DefaultRoute(v, MgmtFirst(v, cards))]
  BY DEF Boot
<1>4. PICK g, r : g = MgmtFirst(v, cards) /\ r = DefaultRoute(v, g)
  OBVIOUS
<1>5. /\ g \in Orders
      /\ (\E i \in Iface : OnMgmt(v, i)) => Cardinality(Iface) >= 1 /\ OnMgmt(v, g[1])
  BY <1>4, CardsOf
<1>6. DOMAIN nics = DescVdu /\ route \in [DescVdu -> Vld \cup {NoNetwork}]
  BY <1>1 DEF DescTypeOK, ReadSoFar
<1>7. /\ DOMAIN nics' = DescVdu /\ nics'[v] = g /\ route'[v] = r
      /\ \A w \in DescVdu : w # v => nics'[w] = nics[w] /\ route'[w] = route[w]
      /\ DOMAIN route' = DescVdu
  BY <1>3, <1>4, <1>6
<1>8. PICK n : n = Cardinality(Iface)
  OBVIOUS
<1>9. n \in Nat /\ g \in [1 .. n -> Iface]
  BY <1>5, <1>8, OrdersAre
<1>10. r \in Vld \cup {NoNetwork}
  <2>1. PICK T : T = {k \in 1 .. n : ~OnMgmt(v, g[k])}
    OBVIOUS
  <2>2. DOMAIN g = 1 .. n
    BY <1>9
  <2>3. CASE T = {}
    BY <1>4, <2>1, <2>2, <2>3 DEF DefaultRoute
  <2>4. CASE T # {}
    <3>1. PICK m : m = Min(T)
      OBVIOUS
    <3>2. T \subseteq Nat
      BY <2>1
    <3>3. m \in T
      BY <2>4, <3>1, <3>2, LeastOf
    <3>4. r = wired[<<v, g[m]>>]
      BY <1>4, <2>1, <2>2, <2>4, <3>1 DEF DefaultRoute
    <3>5. <<v, g[m]>> \in Pairs
      BY <1>9, <2>1, <3>3, NetworksApart
    <3> QED
      BY <1>1, <3>4, <3>5 DEF DescTypeOK
  <2> QED
    BY <2>3, <2>4
<1>11. route' \in [DescVdu -> Vld \cup {NoNetwork}]
  BY <1>3, <1>4, <1>6, <1>10
<1>12. DescTypeOK'
  <2>1. \A w \in DescVdu : nics'[w] = NoCards \/ nics'[w] \in Orders
    BY <1>1, <1>5, <1>7 DEF DescTypeOK
  <2> QED
    BY <1>1, <1>2, <1>11, <2>1 DEF DescTypeOK
<1>13. WiredAsDescribed'
  BY <1>1, <1>2 DEF WiredAsDescribed
<1>14. ParsedWhenComplete' /\ FixedPorts'
  BY <1>1, <1>2 DEF ParsedWhenComplete, FixedPorts
<1>16. Len(g) = n
  BY <1>9
<1>17. ASSUME \E i \in Iface : OnMgmt(v, i)
       PROVE  /\ OnMgmt(v, g[1])
              /\ Cardinality({i \in Iface : OnMgmt(v, i)}) = 1 /\ Len(g) > 1 => r = wired[<<v, g[2]>>]
  <2>1. OnMgmt(v, g[1])
    BY <1>5, <1>17
  <2>2. ASSUME Cardinality({i \in Iface : OnMgmt(v, i)}) = 1, Len(g) > 1
        PROVE  r = wired[<<v, g[2]>>]
    <3>1. Cardinality(Iface) > 1
      BY <1>8, <1>16, <2>2
    <3> QED
      BY <1>4, <1>5, <2>1, <2>2, <3>1, RouteOf
  <2> QED
    BY <2>1, <2>2
<1>18. CardOrder'
  <2>1. ASSUME NEW w \in DescVdu, nics'[w] # NoCards, \E i \in Iface : OnMgmt(w, i)
        PROVE  /\ OnMgmt(w, nics'[w][1])
               /\ Cardinality({i \in Iface : OnMgmt(w, i)}) = 1 /\ Len(nics'[w]) > 1
                    => route'[w] = wired[<<w, nics'[w][2]>>]
    <3>1. CASE w = v
      BY <1>7, <1>17, <2>1, <3>1
    <3>2. CASE w # v
      <4>1. nics'[w] = nics[w] /\ route'[w] = route[w] /\ nics[w] # NoCards
        BY <1>7, <2>1, <3>2
      <4> QED
        BY <1>1, <2>1, <4>1 DEF CardOrder
    <3> QED
      BY <3>1, <3>2
  <2> QED
    BY <1>2, <2>1 DEF CardOrder, OnMgmt
<1>19. ReadSoFar'
  <2>1. \A m \in Vld : VldRead(m)'
    BY <1>1, <1>2 DEF ReadSoFar, VldRead
  <2>2. \A w \in DescVdu : \A p \in Point :
          joined'[w][p] # NoNetwork => desc'.member[joined'[w][p]][w] = p
    BY <1>1, <1>2 DEF ReadSoFar
  <2>3. desc' \in Descriptions
    BY <1>1, <1>2 DEF ReadSoFar
  <2> QED
    BY <1>2, <1>7, <2>1, <2>2, <2>3 DEF ReadSoFar
<1> QED
  BY <1>12, <1>13, <1>14, <1>18, <1>19 DEF DescInv

LEMMA DescKept ==
  ASSUME DescInv, [DescNext]_descVars
  PROVE  DescInv'
<1>1. CASE UNCHANGED descVars
  <2>1. /\ parsePc' = parsePc /\ left' = left /\ desc' = desc /\ toRouter' = toRouter
        /\ joined' = joined /\ wired' = wired /\ fixedPort' = fixedPort /\ nics' = nics /\ route' = route
    BY <1>1 DEF descVars
  <2>2. DescTypeOK /\ ReadSoFar /\ WiredAsDescribed /\ ParsedWhenComplete /\ FixedPorts /\ CardOrder
    BY DEF DescInv
  <2>3. DescTypeOK'
    BY <2>1, <2>2 DEF DescTypeOK
  <2>4. WiredAsDescribed' /\ ParsedWhenComplete' /\ FixedPorts'
    BY <2>1, <2>2 DEF WiredAsDescribed, ParsedWhenComplete, FixedPorts
  <2>5. CardOrder'
    BY <2>1, <2>2 DEF CardOrder, OnMgmt
  <2>6. ReadSoFar'
    BY <2>1, <2>2 DEF ReadSoFar, VldRead, NeedsPort
  <2> QED
    BY <2>3, <2>4, <2>5, <2>6 DEF DescInv
<1>2. ASSUME NEW n \in Vld, MemberVld(n) PROVE DescInv'
  <2>1. /\ parsePc = "nsd" /\ n \in left
        /\ UNCHANGED <<desc, wired, fixedPort, nics, route>>
        /\ IF n \in desc.given /\ \A v \in DescVdu : desc.member[n][v] # "list"
             THEN /\ left' = left \ {n} /\ UNCHANGED parsePc
                  /\ RouterEntries(n) /\ AddNetworks(n)
             ELSE parsePc' = "failed" /\ UNCHANGED <<left, toRouter, joined>>
    BY <1>2 DEF MemberVld
  <2>2. CASE n \in desc.given /\ \A v \in DescVdu : desc.member[n][v] # "list"
    BY <2>1, <2>2, VldReadKept
  <2>3. CASE ~ (n \in desc.given /\ \A v \in DescVdu : desc.member[n][v] # "list")
    BY <2>1, <2>3, VldFailsKept
  <2> QED
    BY <2>2, <2>3
<1>3. CASE NsdParsed
  BY <1>3, NsdParsedKept
<1>4. CASE VnfdsParsed
  BY <1>4, VnfdsParsedKept
<1>5. ASSUME NEW v \in DescVdu, NEW i \in Iface, NetworkInterface(v, i) PROVE DescInv'
  <2>1. PICK p, n : p = desc.ref[v][i] /\ n = joined[v][p]
    OBVIOUS
  <2>2. /\ parsePc = "vnfd" /\ <<v, i>> \in left
        /\ UNCHANGED <<desc, toRouter, joined, nics, route>>
        /\ IF n = NoNetwork \/ (p \in desc.fixed /\ ~AddressFree(p, n))
             THEN parsePc' = "failed" /\ UNCHANGED <<left, wired, fixedPort>>
             ELSE /\ wired' = [wired EXCEPT ![<<v, i>>] = n]
                  /\ fixedPort' = IF p \in desc.fixed THEN fixedPort \cup {<<v, i>>} ELSE fixedPort
                  /\ left' = left \ {<<v, i>>} /\ UNCHANGED parsePc
    BY <1>5, <2>1 DEF NetworkInterface
  <2>3. CASE n = NoNetwork \/ (p \in desc.fixed /\ ~AddressFree(p, n))
    BY <2>1, <2>2, <2>3, InterfaceFailsKept
  <2>4. CASE ~ (n = NoNetwork \/ (p \in desc.fixed /\ ~AddressFree(p, n)))
    <3>1. /\ n # NoNetwork /\ wired' = [wired EXCEPT ![<<v, i>>] = n]
          /\ fixedPort' = IF p \in desc.fixed THEN fixedPort \cup {<<v, i>>} ELSE fixedPort
          /\ left' = left \ {<<v, i>>} /\ parsePc' = parsePc
      BY <2>2, <2>4
    <3> QED
      BY <2>1, <2>2, <3>1, InterfaceKept
  <2> QED
    BY <2>3, <2>4
<1>6. ASSUME NEW v \in DescVdu, Boot(v) PROVE DescInv'
  BY <1>6, BootKept
<1> QED
  BY <1>1, <1>2, <1>3, <1>4, <1>5, <1>6 DEF DescNext

(***************************************************************************)
(* DescriptorParsers: the document of a service                            *)
(***************************************************************************)

(* All instances of a VDU have acknowledged where it is configured.        *)
LEMMA AllCopies ==
  ASSUME DocTypeOK, NEW v \in DocVdu, IsConfigured(v)
  PROVE  ackedBy[v] = 1 .. Copies[v] /\ ackedBy[v] # {}
<1>1. PICK n : n = Copies[v]
  OBVIOUS
<1>2. PICK A : A = ackedBy[v]
  OBVIOUS
<1>3. n \in Nat \ {0} /\ A \subseteq 1 .. n
  BY <1>1, <1>2, DocumentAssumption DEF DocTypeOK
<1>4. IsFiniteSet(1 .. n) /\ Cardinality(1 .. n) = n
  BY <1>3, FS_Interval
<1>5. Cardinality(A) >= n
  BY <1>1, <1>2 DEF IsConfigured
<1>6. IsFiniteSet(A) /\ Cardinality(A) <= n /\ (Cardinality(A) = n => A = 1 .. n)
  BY <1>3, <1>4, FS_Subset
<1>7. Cardinality(A) \in Nat
  BY <1>6, FS_CardinalityType
<1>8. A = 1 .. n
  BY <1>3, <1>5, <1>6, <1>7
<1>9. 1 \in 1 .. n
  BY <1>3
<1> QED
  BY <1>1, <1>2, <1>8, <1>9

(* So where an instance has not, its VDU is not.                           *)
LEMMA StillToCome ==
  ASSUME DocTypeOK, NEW i \in Instance, i[2] \notin ackedBy[i[1]]
  PROVE  ~IsConfigured(i[1])
<1>1. i[1] \in DocVdu /\ i[2] \in 1 .. 9 /\ i[2] <= Copies[i[1]]
  BY DEF Instance
<1>2. Copies[i[1]] \in Nat
  BY <1>1, DocumentAssumption
<1>3. i[2] \in 1 .. Copies[i[1]]
  BY <1>1, <1>2
<1> QED
  BY <1>1, <1>3, AllCopies

(* The keys of the document.                                               *)
LEMMA OuterNames ==
  /\ DOMAIN OuterName = {"vm_details", "disk", "vcpus", "name", "image_details"}
  /\ OuterName["vm_details"] = "vm-spec" /\ OuterName["disk"] = "storage"
  /\ OuterName["vcpus"] = "cpu" /\ OuterName["name"] = "" /\ OuterName["image_details"] = ""
BY DEF OuterName

InnerWords == {"name", "vm_details", "disk", "image_details", "vcpus", "mgmt-ip"}

LEMMA WordsOfPaths ==
  ASSUME NEW p \in InnerPaths
  PROVE  /\ \A i \in DOMAIN p : p[i] \in InnerWords
         /\ \A i \in DOMAIN p : i \in Nat \ {0} /\ \A j \in 1 .. i : j \in DOMAIN p
<1>1. \/ p = <<"name">> \/ p = <<"vm_details", "disk">>
      \/ p = <<"vm_details", "image_details", "disk">> \/ p = <<"vcpus">> \/ p = <<"mgmt-ip">>
  BY DEF InnerPaths
<1>2. CASE p = <<"name">>
  BY <1>2 DEF InnerWords
<1>3. CASE p = <<"vm_details", "disk">>
  BY <1>3 DEF InnerWords
<1>4. CASE p = <<"vm_details", "image_details", "disk">>
  BY <1>4 DEF InnerWords
<1>5. CASE p = <<"vcpus">>
  BY <1>5 DEF InnerWords
<1>6. CASE p = <<"mgmt-ip">>
  BY <1>6 DEF InnerWords
<1> QED
  BY <1>1, <1>2, <1>3, <1>4, <1>5, <1>6

HasOuter(w) == w \in DOMAIN OuterName /\ OuterName[w] # ""

LEMMA WordsApart ==
  /\ \A w \in InnerWords : HasOuter(w) => ~HasOuter(OuterName[w])
  /\ \A w \in InnerWords : ~HasOuter(w) => w \in {"image_details", "name", "mgmt-ip"}
<1>1. \A w \in InnerWords : HasOuter(w) => OuterName[w] \in {"vm-spec", "storage", "cpu"}
  BY OuterNames DEF HasOuter, InnerWords
<1>2. \A w \in {"vm-spec", "storage", "cpu"} : ~HasOuter(w)
  BY OuterNames DEF HasOuter
<1>3. \A w \in InnerWords : ~HasOuter(w) => w \in {"image_details", "name", "mgmt-ip"}
  BY OuterNames DEF HasOuter, InnerWords
<1> QED
  BY <1>1, <1>2, <1>3

LEMMA OutwardIs ==
  ASSUME NEW p \in InnerPaths
  PROVE  /\ DOMAIN Outward(p) = DOMAIN p
         /\ \A i \in DOMAIN p : (\A j \in 1 .. i : HasOuter(p[j])) => Outward(p)[i] = OuterName[p[i]]
         /\ \A i \in DOMAIN p : ~(\A j \in 1 .. i : HasOuter(p[j])) => Outward(p)[i] = p[i]
BY DEF Outward, HasOuter

LEMMA NoInnerName ==
  ASSUME NEW p \in InnerPaths, NEW i \in DOMAIN Outward(p), HasOuter(Outward(p)[i])
  PROVE  \E j \in 1 .. i - 1 : Outward(p)[j] \in {"image_details", "name", "mgmt-ip"}
<1>1. i \in DOMAIN p /\ i \in Nat \ {0} /\ \A j \in 1 .. i : j \in DOMAIN p
  BY OutwardIs, WordsOfPaths
<1>2. \A j \in DOMAIN p : p[j] \in InnerWords
  BY WordsOfPaths
<1>3. ~(\A j \in 1 .. i : HasOuter(p[j]))
  <2>1. SUFFICES ASSUME \A j \in 1 .. i : HasOuter(p[j]) PROVE FALSE
    OBVIOUS
  <2>2. i \in 1 .. i
    BY <1>1
  <2>3. Outward(p)[i] = OuterName[p[i]] /\ HasOuter(p[i])
    BY <1>1, <2>1, <2>2, OutwardIs
  <2> QED
    BY <1>1, <1>2, <2>3, WordsApart
<1>4. PICK j \in 1 .. i : ~HasOuter(p[j])
  BY <1>3
<1>5. Outward(p)[i] = p[i]
  BY <1>1, <1>3, OutwardIs
<1>6. j # i
  BY <1>4, <1>5
<1>7. j \in 1 .. i - 1 /\ j \in DOMAIN p /\ j \in 1 .. j
  BY <1>1, <1>4, <1>6
<1>8. Outward(p)[j] = p[j]
  BY <1>4, <1>7, OutwardIs
<1>9. p[j] \in {"image_details", "name", "mgmt-ip"}
  BY <1>2, <1>4, <1>7, WordsApart
<1> QED
  BY <1>7, <1>8, <1>9

LEMMA NamesFromPaths ==
  ASSUME NEW P, P \subseteq {Outward(p) : p \in InnerPaths}
  PROVE  \A p \in P, i \in 1 .. 2 :
           (i \in DOMAIN p /\ p[i] \in DOMAIN OuterName /\ OuterName[p[i]] # "")
             => \E j \in 1 .. i - 1 : p[j] \in {"image_details", "name", "mgmt-ip"}
<1> TAKE p \in P, i \in 1 .. 2
<1> HAVE i \in DOMAIN p /\ p[i] \in DOMAIN OuterName /\ OuterName[p[i]] # ""
<1>1. PICK o \in InnerPaths : p = Outward(o)
  OBVIOUS
<1>2. HasOuter(Outward(o)[i]) /\ i \in DOMAIN Outward(o)
  BY <1>1 DEF HasOuter
<1> QED
  BY <1>1, <1>2, NoInnerName

(* What the invariant says of the document follows from the rest of it.    *)
LEMMA DocumentFrom ==
  /\ WrittenWhole => IdsApart /\ NoInnerNames
  /\ WrittenWhole' => IdsApart' /\ NoInnerNames'
<1>1. WrittenWhole => IdsApart
  BY DEF WrittenWhole, IdsApart
<1>2. WrittenWhole' => IdsApart'
  BY DEF WrittenWhole, IdsApart
<1>3. WrittenWhole => NoInnerNames
  BY NamesFromPaths DEF WrittenWhole, NoInnerNames
<1>4. WrittenWhole' => NoInnerNames'
  BY NamesFromPaths DEF WrittenWhole, NoInnerNames
<1> QED
  BY <1>1, <1>2, <1>3, <1>4

LEMMA EmptyDocument ==
  /\ NoDocument.of = {} /\ NoDocument.art = {} /\ NoDocument.paths = {}
  /\ DOMAIN NoDocument.id = {}
BY DEF NoDocument

LEMMA DocStarts == DocInit => DocInv
<1> SUFFICES ASSUME DocInit PROVE DocInv
  OBVIOUS
<1>1. xml.of = {} /\ xml.art = {} /\ xml.paths = {} /\ DOMAIN xml.id = {} /\ xml = NoDocument
  BY EmptyDocument DEF DocInit
<1>2. DocTypeOK
  BY <1>1 DEF DocInit, DocTypeOK
<1>3. RoundsInOrder
  BY DEF DocInit, RoundsInOrder
<1>4. WrittenWhole
  BY <1>1 DEF DocInit, WrittenWhole
<1>5. DocumentWhole /\ ArtifactOfLast /\ DumpTrue
  BY <1>1 DEF DocInit, DocumentWhole, ArtifactOfLast, DumpTrue
<1> QED
  BY <1>2, <1>3, <1>4, <1>5, DocumentFrom DEF DocInv

(* A round is launched when nothing of the rounds before is to come.       *)
LEMMA ConfigureRoundKept == ASSUME DocInv, NEW r, ConfigureVdus(r) PROVE DocInv'
<1>1. UNCHANGED <<ackNews, ackedBy, vnfmConf, nsStatus, xml, lastAcked, dumped>>
  BY DEF ConfigureVdus
<1>2. /\ nsConfig' = nsConfig \cup RoundVdus(r)
      /\ working' = working \cup {i \in Instance : i[1] \in RoundVdus(r)}
      /\ RoundVdus(r) # {} /\ RoundVdus(r) \cap nsConfig = {}
      /\ \A v \in DocVdu : RoundOf[v] < r => IsConfigured(v)
  BY DEF ConfigureVdus, Gathered
<1>3. DocTypeOK /\ RoundsInOrder /\ WrittenWhole
  BY DEF DocInv
<1>4. \A v \in DocVdu : RoundOf[v] \in Nat
  BY DocumentAssumption
<1>5. nsConfig \subseteq DocVdu
  BY <1>3 DEF DocTypeOK
<1>6. \A v \in DocVdu : IsConfigured(v) => v \in nsConfig
  <2> SUFFICES ASSUME NEW v \in DocVdu, IsConfigured(v) PROVE v \in nsConfig
    OBVIOUS
  <2>1. ackedBy[v] # {}
    BY <1>3, AllCopies
  <2> QED
    BY <1>3, <2>1 DEF RoundsInOrder, DocTypeOK
<1>7. PICK first \in DocVdu : RoundOf[first] = r /\ first \notin nsConfig
  BY <1>2 DEF RoundVdus
<1>8. \A v \in nsConfig : RoundOf[v] < r
  <2> SUFFICES ASSUME NEW v \in nsConfig PROVE RoundOf[v] < r
    OBVIOUS
  <2>1. ~ RoundOf[first] <= RoundOf[v]
    BY <1>3, <1>7 DEF RoundsInOrder
  <2> QED
    BY <1>4, <1>5, <1>7, <2>1
<1>9. \A v \in nsConfig : IsConfigured(v)
  BY <1>2, <1>5, <1>8
<1>10. working = {}
  <2> SUFFICES ASSUME NEW i \in working PROVE FALSE
    OBVIOUS
  <2>1. i \in Instance /\ i[1] \in nsConfig /\ i[2] \notin ackedBy[i[1]]
    BY <1>3 DEF DocTypeOK, RoundsInOrder
  <2> QED
    BY <1>3, <1>9, <2>1, StillToCome
<1>11. ackNews = {}
  <2> SUFFICES ASSUME NEW a \in ackNews PROVE FALSE
    OBVIOUS
  <2>1. a.of \in Instance /\ a.of[1] \in a.conf
    BY <1>3 DEF DocTypeOK
  <2>2. a.of[1] \in nsConfig /\ a.of[2] \notin ackedBy[a.of[1]]
    BY <1>3, <2>1 DEF RoundsInOrder
  <2> QED
    BY <1>3, <1>9, <2>1, <2>2, StillToCome
<1>12. \A v \in RoundVdus(r) : v \in DocVdu /\ RoundOf[v] = r /\ v \notin nsConfig
  BY <1>2 DEF RoundVdus
<1>13. DocTypeOK'
  BY <1>1, <1>2, <1>3, <1>11, <1>12 DEF DocTypeOK
<1>14. \A v \in nsConfig', w \in DocVdu : RoundOf[w] <= RoundOf[v] => w \in nsConfig'
  <2> SUFFICES ASSUME NEW v \in nsConfig', NEW w \in DocVdu, RoundOf[w] <= RoundOf[v]
               PROVE  w \in nsConfig'
    OBVIOUS
  <2>1. CASE v \in nsConfig
    BY <1>2, <1>3, <2>1 DEF RoundsInOrder
  <2>2. CASE v \in RoundVdus(r)
    <3>1. RoundOf[w] = r \/ RoundOf[w] < r
      BY <1>4, <1>12, <2>2
    <3>2. RoundOf[w] < r => w \in nsConfig
      BY <1>2, <1>6
    <3>3. RoundOf[w] = r => w \in RoundVdus(r)
      BY DEF RoundVdus
    <3> QED
      BY <1>2, <3>1, <3>2, <3>3
  <2> QED
    BY <1>2, <2>1, <2>2
<1>15. \A i \in working' : i[1] \in nsConfig' /\ i[2] \notin ackedBy'[i[1]]
  <2> SUFFICES ASSUME NEW i \in working' PROVE i[1] \in nsConfig' /\ i[2] \notin ackedBy[i[1]]
    BY <1>1
  <2>1. i[1] \in RoundVdus(r)
    BY <1>2, <1>10
  <2>2. ackedBy[i[1]] = {}
    BY <1>3, <1>12, <2>1 DEF RoundsInOrder, DocTypeOK
  <2> QED
    BY <1>2, <2>1, <2>2
<1>16. RoundsInOrder'
  BY <1>1, <1>3, <1>11, <1>14, <1>15 DEF RoundsInOrder
<1>17. WrittenWhole'
  BY <1>1, <1>3 DEF WrittenWhole, IsConfigured
<1>18. DocumentWhole' /\ ArtifactOfLast' /\ DumpTrue'
  BY <1>1 DEF DocInv, DocumentWhole, ArtifactOfLast, DumpTrue
<1> QED
  BY <1>13, <1>16, <1>17, <1>18, DocumentFrom DEF DocInv

LEMMA SendAckKept == ASSUME DocInv, NEW i, NEW failed \in BOOLEAN, SendAckOf(i, failed) PROVE DocInv'
<1>1. UNCHANGED <<nsConfig, ackedBy, vnfmConf, nsStatus, xml, lastAcked, dumped>>
  BY DEF SendAckOf
<1>2. PICK a : a = [of |-> i, failed |-> failed, conf |-> nsConfig]
  OBVIOUS
<1>3. i \in working /\ working' = working \ {i} /\ ackNews' = ackNews \cup {a}
  BY <1>2 DEF SendAckOf
<1>4. DocTypeOK /\ RoundsInOrder /\ WrittenWhole
  BY DEF DocInv
<1>5. /\ i \in Instance /\ i[1] \in nsConfig /\ i[2] \notin ackedBy[i[1]]
      /\ nsConfig \subseteq DocVdu
  BY <1>3, <1>4 DEF DocTypeOK, RoundsInOrder
<1>6. /\ a.of = i /\ a.conf = nsConfig
      /\ a \in [of : Instance, failed : BOOLEAN, conf : SUBSET DocVdu]
  BY <1>2, <1>5
<1>7. \A b \in ackNews : b.of # i
  BY <1>3, <1>4 DEF DocTypeOK
<1>8. ackNews' \subseteq [of : Instance, failed : BOOLEAN, conf : SUBSET DocVdu]
  BY <1>3, <1>4, <1>6 DEF DocTypeOK
<1>9. \A b \in ackNews' : b.of \notin working' /\ b.of[1] \in b.conf
  BY <1>3, <1>4, <1>5, <1>6 DEF DocTypeOK
<1>10. working' \subseteq Instance
  BY <1>3, <1>4 DEF DocTypeOK
<1>11. DocTypeOK'
  BY <1>1, <1>4, <1>8, <1>9, <1>10 DEF DocTypeOK
<1>12. /\ \A b \in ackNews' : b.conf = nsConfig /\ b.of[2] \notin ackedBy[b.of[1]]
       /\ \A b, c \in ackNews' : b.of = c.of => b = c
  BY <1>3, <1>4, <1>5, <1>6, <1>7 DEF RoundsInOrder
<1>13. RoundsInOrder'
  BY <1>1, <1>3, <1>4, <1>12 DEF RoundsInOrder
<1>14. WrittenWhole'
  BY <1>1, <1>4 DEF WrittenWhole, IsConfigured
<1>15. DocumentWhole' /\ ArtifactOfLast' /\ DumpTrue'
  BY <1>1 DEF DocInv, DocumentWhole, ArtifactOfLast, DumpTrue
<1> QED
  BY <1>11, <1>13, <1>14, <1>15, DocumentFrom DEF DocInv

(* While an acknowledgement is on its way no document is written.          *)
LEMMA TakeAckKept == ASSUME DocInv, NEW a, TakeAck(a) PROVE DocInv'
<1>1. UNCHANGED <<nsConfig, working, xml, dumped>> /\ a \in ackNews /\ ackNews' = ackNews \ {a}
  BY DEF TakeAck
<1>2. DocTypeOK /\ RoundsInOrder /\ WrittenWhole
  BY DEF DocInv
<1>3. PICK v, n : v = a.of[1] /\ n = a.of[2]
  OBVIOUS
<1>4. /\ a.of \in Instance /\ a.of = <<v, n>> /\ a.of \notin working
      /\ v \in DocVdu /\ n \in 1 .. Copies[v] /\ v \in nsConfig
      /\ n \notin ackedBy[v] /\ a.conf = nsConfig
  <2>1. a.of \in Instance /\ a.of \notin working /\ a.of[1] \in a.conf
    BY <1>1, <1>2 DEF DocTypeOK
  <2>2. a.of \in DocVdu \X (1 .. 9) /\ a.of[2] <= Copies[a.of[1]]
    BY <2>1 DEF Instance
  <2>3. v \in DocVdu /\ a.of = <<v, n>> /\ n \in 1 .. 9 /\ n <= Copies[v]
    BY <1>3, <2>2
  <2>4. Copies[v] \in Nat
    BY <2>3, DocumentAssumption
  <2> QED
    BY <1>1, <1>2, <1>3, <2>1, <2>3, <2>4 DEF RoundsInOrder
<1>5. ~IsConfigured(v)
  BY <1>2, <1>3, <1>4, StillToCome
<1>6. nsStatus # "ACTIVE" /\ xml = NoDocument
  BY <1>2, <1>4, <1>5 DEF WrittenWhole
<1>7. xml.of = {} /\ xml.art = {} /\ xml.paths = {}
  BY <1>6, EmptyDocument
<1>8. DocumentWhole' /\ ArtifactOfLast'
  BY <1>1, <1>6, <1>7 DEF DocumentWhole, ArtifactOfLast
<1>9. CASE a.failed
  <2>1. /\ UNCHANGED <<ackedBy, vnfmConf, lastAcked>>
        /\ nsStatus' = IF nsStatus = "gone" THEN "gone" ELSE "ERROR"
    BY <1>9 DEF TakeAck
  <2>2. DocTypeOK'
    BY <1>1, <1>2, <2>1 DEF DocTypeOK
  <2>3. RoundsInOrder'
    BY <1>1, <1>2, <2>1 DEF RoundsInOrder
  <2>4. WrittenWhole'
    BY <1>1, <1>2, <1>6, <2>1 DEF WrittenWhole
  <2>5. DumpTrue'
    BY <1>1, <2>1 DEF DocInv, DumpTrue
  <2> QED
    BY <1>8, <2>2, <2>3, <2>4, <2>5, DocumentFrom DEF DocInv
<1>10. CASE ~a.failed
  <2>1. /\ ackedBy' = [ackedBy EXCEPT ![v] = @ \cup {n}]
        /\ vnfmConf' = [of |-> nsConfig, art |-> {v} \cap Artifacts]
        /\ lastAcked' = v /\ nsStatus' = nsStatus
    BY <1>3, <1>4, <1>10 DEF TakeAck, WithArtifact
  <2>2. DOMAIN ackedBy = DocVdu
    BY <1>2 DEF RoundsInOrder
  <2>3. /\ ackedBy'[v] = ackedBy[v] \cup {n} /\ DOMAIN ackedBy' = DocVdu
        /\ \A w \in DocVdu \ {v} : ackedBy'[w] = ackedBy[w]
    BY <1>4, <2>1, <2>2
  <2>4. \A i \in Instance : i # <<v, n>> /\ i[2] \notin ackedBy[i[1]] => i[2] \notin ackedBy'[i[1]]
    <3> SUFFICES ASSUME NEW i \in Instance, i # <<v, n>>, i[2] \notin ackedBy[i[1]]
                 PROVE  i[2] \notin ackedBy'[i[1]]
      OBVIOUS
    <3>1. i[1] \in DocVdu /\ i = <<i[1], i[2]>>
      BY DEF Instance
    <3>2. CASE i[1] = v
      <4>1. i[2] # n
        BY <3>1, <3>2
      <4> QED
        BY <2>3, <3>2, <4>1
    <3>3. CASE i[1] # v
      BY <2>3, <3>1, <3>3
    <3> QED
      BY <3>2, <3>3
  <2>5. vnfmConf'.of = nsConfig /\ vnfmConf'.art = {v} \cap Artifacts
    BY <2>1
  <2>6. \A w \in DocVdu : ackedBy'[w] \subseteq 1 .. Copies[w]
    BY <1>2, <1>4, <2>3 DEF DocTypeOK
  <2>7. DocTypeOK'
    BY <1>1, <1>2, <1>4, <2>1, <2>5, <2>6 DEF DocTypeOK
  <2>8. \A i \in working : i[1] \in nsConfig /\ i[2] \notin ackedBy'[i[1]]
    <3> SUFFICES ASSUME NEW i \in working PROVE i[1] \in nsConfig /\ i[2] \notin ackedBy'[i[1]]
      OBVIOUS
    <3>1. i \in Instance /\ i[1] \in nsConfig /\ i[2] \notin ackedBy[i[1]]
      BY <1>2 DEF DocTypeOK, RoundsInOrder
    <3>2. i # <<v, n>>
      BY <1>4
    <3> QED
      BY <2>4, <3>1, <3>2
  <2>9. \A b \in ackNews' : b.conf = nsConfig /\ b.of[2] \notin ackedBy'[b.of[1]]
    <3> SUFFICES ASSUME NEW b \in ackNews'
                 PROVE  b.conf = nsConfig /\ b.of[2] \notin ackedBy'[b.of[1]]
      OBVIOUS
    <3>1. b \in ackNews /\ b # a
      BY <1>1
    <3>2. b.of \in Instance /\ b.conf = nsConfig /\ b.of[2] \notin ackedBy[b.of[1]]
      BY <1>2, <3>1 DEF DocTypeOK, RoundsInOrder
    <3>3. b.of # a.of
      BY <1>1, <1>2, <3>1 DEF RoundsInOrder
    <3> QED
      BY <1>4, <2>4, <3>2, <3>3
  <2>10. \A w \in DocVdu : ackedBy'[w] # {} => w \in nsConfig
    BY <1>2, <1>4, <2>3 DEF RoundsInOrder, DocTypeOK
  <2>11. RoundsInOrder'
    BY <1>1, <1>2, <2>3, <2>5, <2>8, <2>9, <2>10 DEF RoundsInOrder
  <2>12. WrittenWhole'
    BY <1>1, <1>6, <1>7, <2>1, <2>5 DEF WrittenWhole
  <2>13. DumpTrue'
    BY <1>1, <2>1 DEF DocInv, DumpTrue
  <2> QED
    BY <1>8, <2>7, <2>11, <2>12, <2>13, DocumentFrom DEF DocInv
<1> QED
  BY <1>9, <1>10

LEMMA ActivateKept == ASSUME DocInv, Activate PROVE DocInv'
<1>1. UNCHANGED <<nsConfig, working, ackNews, ackedBy, vnfmConf, xml, lastAcked, dumped>>
  BY DEF Activate
<1>2. nsStatus = "PENDING" /\ nsStatus' = "ACTIVE" /\ \A v \in DocVdu : IsConfigured(v)
  BY DEF Activate
<1>3. DocTypeOK' /\ RoundsInOrder'
  BY <1>1, <1>2 DEF DocInv, DocTypeOK, RoundsInOrder
<1>4. WrittenWhole'
  BY <1>1, <1>2 DEF DocInv, WrittenWhole, IsConfigured
<1>5. DocumentWhole' /\ ArtifactOfLast' /\ DumpTrue'
  BY <1>1, <1>2 DEF DocInv, DocumentWhole, ArtifactOfLast, DumpTrue
<1> QED
  BY <1>3, <1>4, <1>5, DocumentFrom DEF DocInv

LEMMA WriteKept == ASSUME DocInv, WriteDocument PROVE DocInv'
<1>1. /\ UNCHANGED <<nsConfig, working, ackNews, ackedBy, vnfmConf, nsStatus, lastAcked, dumped>>
      /\ nsStatus = "ACTIVE"
  BY DEF WriteDocument
<1>2. PICK id \in Ids : xml' = GenerateNsInfo(id)
  BY DEF WriteDocument
<1>3. DocTypeOK /\ RoundsInOrder /\ WrittenWhole
  BY DEF DocInv
<1>4. /\ xml'.of = vnfmConf.of /\ xml'.art = vnfmConf.art /\ xml'.id = id
      /\ xml'.paths = {Outward(p) : p \in InnerPaths}
  BY <1>2 DEF GenerateNsInfo
<1>5. DOMAIN id = vnfmConf.of /\ \A v \in vnfmConf.of : id[v] \in NamedIn[v]
  BY <1>2 DEF Ids
<1>6. \A v \in DocVdu : IsConfigured(v)
  BY <1>1, <1>3 DEF WrittenWhole
<1>7. vnfmConf.of \subseteq DocVdu
  BY <1>3 DEF DocTypeOK
<1>8. DocVdu \subseteq vnfmConf.of
  <2> SUFFICES ASSUME NEW v \in DocVdu PROVE v \in vnfmConf.of
    OBVIOUS
  <2>1. ackedBy[v] # {}
    BY <1>3, <1>6, AllCopies
  <2> QED
    BY <1>3, <2>1 DEF RoundsInOrder
<1>9. DocTypeOK'
  BY <1>1, <1>3, <1>4, <1>5, <1>7 DEF DocTypeOK
<1>10. RoundsInOrder'
  BY <1>1, <1>3 DEF RoundsInOrder
<1>11. WrittenWhole'
  BY <1>1, <1>3, <1>4, <1>5, <1>6 DEF WrittenWhole, IsConfigured
<1>12. DocumentWhole' /\ ArtifactOfLast'
  BY <1>1, <1>3, <1>4, <1>7, <1>8 DEF DocumentWhole, ArtifactOfLast, WrittenWhole
<1>13. DumpTrue'
  <2>1. xml' # NoDocument \/ xml' = xml
    <3>1. CASE xml' = NoDocument
      BY <3>1 DEF WriteDocument
    <3> QED
      BY <3>1
  <2> QED
    BY <1>1, <2>1 DEF DocInv, DumpTrue
<1> QED
  BY <1>9, <1>10, <1>11, <1>12, <1>13, DocumentFrom DEF DocInv

LEMMA RowDeletedKept == ASSUME DocInv, RowDeleted PROVE DocInv'
<1>1. /\ UNCHANGED <<nsConfig, working, ackNews, ackedBy, vnfmConf, lastAcked, dumped>>
      /\ nsStatus' = "gone" /\ xml' = NoDocument
  BY DEF RowDeleted
<1>2. xml'.of = {} /\ xml'.art = {} /\ xml'.paths = {} /\ DOMAIN xml'.id = {}
  BY <1>1, EmptyDocument
<1>3. DocTypeOK' /\ RoundsInOrder'
  BY <1>1, <1>2 DEF DocInv, DocTypeOK, RoundsInOrder
<1>4. WrittenWhole'
  BY <1>1, <1>2 DEF DocInv, WrittenWhole
<1>5. DocumentWhole' /\ ArtifactOfLast' /\ DumpTrue'
  BY <1>1, <1>2 DEF DocumentWhole, ArtifactOfLast, DumpTrue
<1> QED
  BY <1>3, <1>4, <1>5, DocumentFrom DEF DocInv

LEMMA DumpxmlKept == ASSUME DocInv, GetDumpxml PROVE DocInv'
<1>1. /\ UNCHANGED <<nsConfig, working, ackNews, ackedBy, vnfmConf, nsStatus, xml, lastAcked>>
      /\ dumped' = DumpAnswer
  BY DEF GetDumpxml
<1>2. DocTypeOK' /\ RoundsInOrder'
  BY <1>1 DEF DocInv, DocTypeOK, RoundsInOrder, DumpAnswer
<1>3. WrittenWhole'
  BY <1>1 DEF DocInv, WrittenWhole, IsConfigured
<1>4. DocumentWhole' /\ ArtifactOfLast' /\ DumpTrue'
  BY <1>1 DEF DocInv, DocumentWhole, ArtifactOfLast, DumpTrue, DumpAnswer
<1> QED
  BY <1>2, <1>3, <1>4, DocumentFrom DEF DocInv

LEMMA DocKept == DocInv /\ [DocNext]_docVars => DocInv'
<1> SUFFICES ASSUME DocInv, [DocNext]_docVars PROVE DocInv'
  OBVIOUS
<1>1. CASE UNCHANGED docVars
  <2>1. UNCHANGED <<nsConfig, working, ackNews, ackedBy, vnfmConf, nsStatus, xml, lastAcked, dumped>>
    BY <1>1 DEF docVars
  <2>2. DocTypeOK' /\ RoundsInOrder' /\ WrittenWhole'
    BY <2>1 DEF DocInv, DocTypeOK, RoundsInOrder, WrittenWhole, IsConfigured
  <2>3. DocumentWhole' /\ ArtifactOfLast' /\ DumpTrue'
    BY <2>1 DEF DocInv, DocumentWhole, ArtifactOfLast, DumpTrue
  <2> QED
    BY <2>2, <2>3, DocumentFrom DEF DocInv
<1>2. CASE DocNext
  BY <1>2, ConfigureRoundKept, SendAckKept, TakeAckKept, ActivateKept, WriteKept, RowDeletedKept,
     DumpxmlKept DEF DocNext
<1> QED
  BY <1>1, <1>2

LEMMA DumpStep ==
  ASSUME DocInv, [DocNext]_docVars
  PROVE  /\ dumped \in {"document", "error"} => dumped' # "empty"
         /\ dumped = "error" => dumped' = "error"
  <1>1. CASE GetDumpxml
    BY <1>1 DEF GetDumpxml, DumpAnswer, DocInv, DumpTrue
  <1>2. CASE ~ GetDumpxml
    <2>1. dumped' = dumped
      BY <1>2 DEF DocNext, docVars, ConfigureVdus, SendAckOf, TakeAck, Activate, WriteDocument,
                  RowDeleted
    <2>. QED
      BY <2>1
  <1>. QED
    BY <1>1, <1>2

(***************************************************************************)
(* LifecycleData: the data of lifecycle events                             *)
(***************************************************************************)

LEMMA LfSizes ==
  ASSUME LfTypeOK, NEW v \in LfVdu
  PROVE  /\ service.size[v] \in Nat \ {0} /\ LastMachine(v) \in Machines(v)
         /\ \A j \in Machines(v) : j \in Nat /\ j <= LastMachine(v)
         /\ 0 \in Machines(v) <=> service.size[v] = 1
         /\ service.size[v] = 1 => Machines(v) = {0} /\ LastMachine(v) = 0
         /\ service.size[v] # 1 => LastMachine(v) # 0
<1>1. PICK n : n = service.size[v]
  OBVIOUS
<1>2. n \in Nat \ {0}
  BY <1>1, LifecycleAssumption DEF LfTypeOK
<1>3. Machines(v) = (IF n = 1 THEN {0} ELSE 1 .. n) /\ LastMachine(v) = (IF n = 1 THEN 0 ELSE n)
  BY <1>1 DEF Machines, LastMachine
<1>4. CASE n = 1
  BY <1>1, <1>3, <1>4
<1>5. CASE n # 1
  <2>1. Machines(v) = 1 .. n /\ LastMachine(v) = n
    BY <1>3, <1>5
  <2> QED
    BY <1>1, <1>2, <1>5, <2>1
<1> QED
  BY <1>4, <1>5

LEMMA LfDescribed ==
  ASSUME LfTypeOK, NEW v \in LfVdu
  PROVE  /\ service.cards[v] \subseteq LfIface
         /\ service.init[v] \in EventData /\ service.config[v] \in EventData
BY LifecycleAssumption DEF LfTypeOK

LEMMA DataKinds ==
  ASSUME NEW d \in EventData
  PROVE  /\ d.is \in {"absent", "blank", "plain", "asking"} /\ d.asks \subseteq Placeholder
         /\ d.is = "asking" <=> d.asks # {}
<1>1. CASE d \in [is : {"absent", "blank", "plain"}, asks : {{}}]
  <2>1. d.is \in {"absent", "blank", "plain"} /\ d.asks = {}
    BY <1>1
  <2> QED
    BY <2>1
<1>2. CASE d \in [is : {"asking"}, asks : (SUBSET Placeholder) \ {{}}]
  <2>1. d.is = "asking" /\ d.asks \in (SUBSET Placeholder) \ {{}}
    BY <1>2
  <2> QED
    BY <2>1
<1> QED
  BY <1>1, <1>2 DEF EventData

LEMMA AddressIs ==
  ASSUME NEW v, NEW i, NEW f
  PROVE  <<v, i, f>> \in Addresses <=> v \in LfVdu /\ i \in Machines(v) /\ f \in LfIface
<1>1. ASSUME NEW w \in LfVdu, <<v, i, f>> \in {w} \X Machines(w) \X LfIface
      PROVE  v = w /\ i \in Machines(w) /\ f \in LfIface
  BY <1>1
<1>2. ASSUME v \in LfVdu, i \in Machines(v), f \in LfIface
      PROVE  <<v, i, f>> \in {v} \X Machines(v) \X LfIface
  BY <1>2
<1>3. <<v, i, f>> \in Addresses <=> \E w \in LfVdu : <<v, i, f>> \in {w} \X Machines(w) \X LfIface
  BY DEF Addresses
<1>4. ASSUME <<v, i, f>> \in Addresses
      PROVE  v \in LfVdu /\ i \in Machines(v) /\ f \in LfIface
  <2>1. PICK w \in LfVdu : <<v, i, f>> \in {w} \X Machines(w) \X LfIface
    BY <1>3, <1>4
  <2>2. v = w /\ i \in Machines(w) /\ f \in LfIface
    BY <1>1, <2>1
  <2> QED
    BY <2>2
<1>5. ASSUME v \in LfVdu, i \in Machines(v), f \in LfIface
      PROVE  <<v, i, f>> \in Addresses
  BY <1>2, <1>3, <1>5
<1> QED
  BY <1>4, <1>5

(* Where placeholder p leads from machine i of v, if it can be resolved.   *)
LEMMA ResolvedIs ==
  ASSUME LfTypeOK, NEW v \in LfVdu, NEW i, NEW p \in Placeholder, Resolves(v, i, p)
  PROVE  /\ AddressOf(v, i, p) \in Addresses
         /\ AddressOf(v, i, p)[1] = p[1] /\ AddressOf(v, i, p)[3] = p[2]
         /\ p[1] = v => AddressOf(v, i, p)[2] = i
         /\ p[1] # v => service.size[p[1]] = 1
<1>1. AddressOf(v, i, p) \in ips /\ AddressOf(v, i, p)[1] = p[1] /\ p[1] \in LfVdu
  BY DEF Resolves, Placeholder
<1>2. ips \subseteq Addresses
  BY DEF LfTypeOK
<1>3. CASE p[1] = v
  <2>1. AddressOf(v, i, p) = <<v, i, p[2]>>
    BY <1>3 DEF AddressOf, NameLookedUp
  <2> QED
    BY <1>1, <1>2, <1>3, <2>1
<1>4. CASE p[1] # v
  <2>1. <<p[1], v>> \notin NameInside
    <3>1. ASSUME <<p[1], v>> \in NameInside PROVE AddressOf(v, i, p) = <<v, i, p[2]>>
      BY <3>1 DEF AddressOf, NameLookedUp
    <3> QED
      BY <1>1, <1>4, <3>1
  <2>2. AddressOf(v, i, p) = <<p[1], 0, p[2]>>
    BY <1>4, <2>1 DEF AddressOf, NameLookedUp
  <2>3. 0 \in Machines(p[1])
    BY <1>1, <1>2, <2>2, AddressIs
  <2>4. service.size[p[1]] = 1
    BY <1>1, <2>3, LfSizes
  <2> QED
    BY <1>1, <1>2, <1>4, <2>2, <2>4
<1> QED
  BY <1>3, <1>4

(* A placeholder that cannot be resolved is one of those a service may     *)
(* fail for.                                                               *)
MayFail(v, p) ==
  \/ p[1] \in Unnameable
  \/ p[2] \notin service.cards[p[1]]
  \/ p[1] \notin ready \cup batch
  \/ p[1] \in up /\ \E i \in Machines(p[1]) : <<p[1], i, p[2]>> \notin ips
  \/ p[1] # v /\ service.size[p[1]] > 1
  \/ <<p[1], v>> \in NameInside

LEMMA UnresolvedMayFail ==
  ASSUME LfTypeOK, NEW v \in LfVdu, NEW i \in Machines(v), v \in up,
         ready \cup batch \subseteq up, NEW p \in Placeholder, ~Resolves(v, i, p)
  PROVE  MayFail(v, p)
<1>1. p[1] \in LfVdu
  BY DEF Placeholder
<1> SUFFICES ASSUME p[1] \notin Unnameable, p[2] \in service.cards[p[1]],
                    <<p[1], v>> \notin NameInside
             PROVE  MayFail(v, p)
  BY DEF MayFail
<1>2. CASE p[1] = v
  <2>1. AddressOf(v, i, p) = <<v, i, p[2]>>
    BY <1>2 DEF AddressOf, NameLookedUp
  <2>2. <<v, i, p[2]>> \notin ips
    BY <1>2, <2>1 DEF Resolves
  <2> QED
    BY <1>2, <2>2 DEF MayFail
<1>3. CASE p[1] # v
  <2>1. AddressOf(v, i, p) = <<p[1], 0, p[2]>>
    BY <1>3 DEF AddressOf, NameLookedUp
  <2>2. <<p[1], 0, p[2]>> \notin ips
    BY <2>1 DEF Resolves
  <2>3. CASE service.size[p[1]] = 1
    <3>1. 0 \in Machines(p[1])
      BY <1>1, <2>3, LfSizes
    <3> QED
      BY <2>2, <3>1 DEF MayFail
  <2>4. CASE service.size[p[1]] # 1
    <3>1. service.size[p[1]] > 1
      BY <1>1, <2>4, LfSizes
    <3> QED
      BY <1>3, <3>1 DEF MayFail
  <2> QED
    BY <2>3, <2>4
<1> QED
  BY <1>2, <1>3

(* Data of an event that are what the invariant says of them.              *)
RightData(v, d) ==
  /\ d.is \in {"none", "lost", "skipped", "blank", "given"}
  /\ d.at \subseteq Placeholder \X Addresses
  /\ d.is = "given" <=> d.at # {}
  /\ \A x \in d.at :
       /\ x[2][1] = x[1][1] /\ x[2][3] = x[1][2]
       /\ x[1][1] = v => x[2][2] = LastMachine(v)
       /\ x[1][1] # v => service.size[x[1][1]] = 1

LEMMA RightIs ==
  ASSUME LfTypeOK, DataOfOneMachine, NEW v \in LfVdu
  PROVE  RightData(v, initData[v]) /\ RightData(v, configData[v])
BY DEF LfTypeOK, DataOfOneMachine, RightData

LEMMA NothingRight ==
  ASSUME NEW v, NEW d, d.at = {}, d.is \in {"none", "lost", "skipped", "blank"}
  PROVE  RightData(v, d)
BY DEF RightData

LEMMA FormattedRight ==
  ASSUME LfTypeOK, NEW v \in LfVdu, NEW d \in EventData, d.is # "absent",
         NEW i, i = LastMachine(v), Formats(v, i, d)
  PROVE  /\ RightData(v, Formatted(v, i, d)) /\ Formatted(v, i, d).is # "skipped"
         /\ Formatted(v, i, d).is = "lost" => d.is = "plain"
         /\ Formatted(v, i, d).is = "given" => {x[1] : x \in Formatted(v, i, d).at} = d.asks
<1>1. CASE d.is = "blank"
  <2>1. Formatted(v, i, d) = [is |-> "blank", at |-> {}]
    BY <1>1 DEF Formatted
  <2> QED
    BY <2>1, NothingRight
<1>2. CASE d.is = "plain"
  <2>1. Formatted(v, i, d) = [is |-> "lost", at |-> {}]
    BY <1>2 DEF Formatted
  <2> QED
    BY <1>2, <2>1, NothingRight
<1>3. CASE d.is = "asking"
  <2>1. d.asks # {} /\ d.asks \subseteq Placeholder
    BY <1>3, DataKinds
  <2>2. PICK at : at = {<<p, AddressOf(v, i, p)>> : p \in d.asks}
    OBVIOUS
  <2>3. Formatted(v, i, d) = [is |-> "given", at |-> at]
    BY <1>3, <2>2 DEF Formatted
  <2>4. \A p \in d.asks : Resolves(v, i, p)
    BY DEF Formats
  <2>5. \A p \in d.asks :
          /\ AddressOf(v, i, p) \in Addresses
          /\ AddressOf(v, i, p)[1] = p[1] /\ AddressOf(v, i, p)[3] = p[2]
          /\ p[1] = v => AddressOf(v, i, p)[2] = i
          /\ p[1] # v => service.size[p[1]] = 1
    BY <2>1, <2>4, ResolvedIs
  <2>6. \A x \in at : \E p \in d.asks : x = <<p, AddressOf(v, i, p)>>
    BY <2>2
  <2>7. \A x \in at : x \in Placeholder \X Addresses /\ x[1] \in d.asks
    BY <2>1, <2>5, <2>6
  <2>8. \A x \in at :
          /\ x[2][1] = x[1][1] /\ x[2][3] = x[1][2]
          /\ x[1][1] = v => x[2][2] = i
          /\ x[1][1] # v => service.size[x[1][1]] = 1
    BY <2>5, <2>6
  <2>9. \A p \in d.asks : <<p, AddressOf(v, i, p)>> \in at
    BY <2>2
  <2>10. at # {}
    BY <2>1, <2>9
  <2>11. {x[1] : x \in at} = d.asks
    <3>1. \A p \in d.asks : \E x \in at : x[1] = p
      BY <2>9
    <3> QED
      BY <2>7, <3>1
  <2>12. RightData(v, [is |-> "given", at |-> at])
    BY <2>7, <2>8, <2>10 DEF RightData
  <2> QED
    BY <2>3, <2>11, <2>12
<1> QED
  BY <1>1, <1>2, <1>3, DataKinds

(* The last machine is the one whose data are written, of those that no    *)
(* other service has configured.                                           *)
LEMMA LastOfFresh ==
  ASSUME LfTypeOK, LfSoFar, stage # "failed", NEW v \in LfVdu, initData[v] = NoResult
  PROVE  /\ FreshMachines(v) = {} => service.size[v] = 1
         /\ FreshMachines(v) # {} =>
              /\ (CHOOSE i \in FreshMachines(v) : \A j \in FreshMachines(v) : j <= i) = LastMachine(v)
              /\ LastMachine(v) \in FreshMachines(v)
<1>1. PICK F, l : F = FreshMachines(v) /\ l = LastMachine(v)
  OBVIOUS
<1>2. \A j : j \in F <=> j \in Machines(v) /\ <<v, j>> \notin seenNames
  BY <1>1 DEF FreshMachines
<1>3. \A i \in Machines(v) : <<v, i>> \in seenNames => i = 0
  BY DEF LfSoFar
<1>4. /\ l \in Machines(v) /\ \A j \in Machines(v) : j \in Nat /\ j <= l
      /\ service.size[v] = 1 => Machines(v) = {0} /\ l = 0
      /\ service.size[v] # 1 => l # 0
  BY <1>1, LfSizes
<1>5. service.size[v] # 1 => l \in F
  BY <1>2, <1>3, <1>4
<1>6. F # {} => l \in F
  BY <1>2, <1>4, <1>5
<1>7. \A j \in F : j \in Nat /\ j <= l
  BY <1>2, <1>4
<1>8. ASSUME l \in F PROVE (CHOOSE i \in F : \A j \in F : j <= i) = l
  <2>1. \A i \in F : (\A j \in F : j <= i) => i = l
    <3> SUFFICES ASSUME NEW i \in F, \A j \in F : j <= i PROVE i = l
      OBVIOUS
    <3>1. l <= i /\ i <= l /\ i \in Nat /\ l \in Nat
      BY <1>7, <1>8
    <3> QED
      BY <3>1
  <2>2. \A j \in F : j <= l
    BY <1>7
  <2>3. PICK c : c = CHOOSE i \in F : \A j \in F : j <= i
    OBVIOUS
  <2>4. c \in F /\ \A j \in F : j <= c
    BY <1>8, <2>2, <2>3
  <2> QED
    BY <2>1, <2>3, <2>4
<1> QED
  BY <1>1, <1>5, <1>6, <1>8

(* The service stays as it was described, so what is right stays right.    *)
LEMMA SameService ==
  ASSUME service' = service
  PROVE  /\ \A v : Machines(v)' = Machines(v) /\ LastMachine(v)' = LastMachine(v)
         /\ Addresses' = Addresses
         /\ \A v, d : RightData(v, d)' <=> RightData(v, d)
<1>1. \A v : Machines(v)' = Machines(v) /\ LastMachine(v)' = LastMachine(v)
  BY DEF Machines, LastMachine
<1>2. Addresses' = Addresses
  BY DEF Addresses, Machines
<1>3. \A v, d : RightData(v, d)' <=> RightData(v, d)
  BY <1>1, <1>2 DEF RightData
<1> QED
  BY <1>1, <1>2, <1>3

DataRight == \A v \in LfVdu : RightData(v, initData[v]) /\ RightData(v, configData[v])

PlacesOK ==
  /\ service \in LfServices
  /\ stage \in {"ready", "launching", "configuring", "failed"}
  /\ batch \subseteq LfVdu /\ done \subseteq ready /\ ready \subseteq up
  /\ ips \subseteq Addresses

LEMMA LfInvIs ==
  LfInv <=> PlacesOK /\ DataRight /\ FailsForCause /\ LostForCause /\ LfSoFar
<1>1. LfTypeOK /\ DataOfOneMachine <=> PlacesOK /\ DataRight
  BY DEF LfTypeOK, DataOfOneMachine, PlacesOK, DataRight, RightData
<1> QED
  BY <1>1 DEF LfInv

LEMMA LfInvIsThen ==
  LfInv' <=> PlacesOK' /\ DataRight' /\ FailsForCause' /\ LostForCause' /\ LfSoFar'
BY LfInvIs, PTL

LEMMA LfStarts == LfInit => LfInv
<1> SUFFICES ASSUME LfInit PROVE LfInv
  OBVIOUS
<1>1. PlacesOK
  BY DEF LfInit, PlacesOK
<1>2. \A v \in LfVdu : initData[v] = NoResult /\ configData[v] = NoResult
  BY DEF LfInit
<1>3. NoResult.is = "none" /\ NoResult.at = {}
  BY DEF NoResult
<1>4. DataRight
  BY <1>2, <1>3, NothingRight DEF DataRight
<1>5. FailsForCause /\ LostForCause
  BY <1>2, <1>3 DEF FailsForCause, LostForCause, LfInit
<1>6. LfSoFar
  <2>1. \A v \in LfVdu : \A i \in Machines(v) : <<v, i>> \in seenNames => i = 0
    BY DEF LfInit
  <2> QED
    BY <1>2, <2>1 DEF LfInit, LfSoFar
<1> QED
  BY <1>1, <1>4, <1>5, <1>6, LfInvIs

(* Nothing is written while no data are.                                   *)
LEMMA DataUntouched ==
  ASSUME LfInv, UNCHANGED <<service, initData, configData>>
  PROVE  DataRight' /\ LostForCause'
<1>1. DataRight'
  BY LfInvIs, SameService DEF DataRight
<1>2. LostForCause'
  BY DEF LfInv, LostForCause
<1> QED
  BY <1>1, <1>2

LEMMA NextBatchKept == ASSUME LfInv, NextBatch PROVE LfInv'
<1>1. UNCHANGED <<service, ips, up, ready, done, seenNames, initData, configData>>
  BY DEF NextBatch
<1>2. stage = "ready" /\ stage' = "launching" /\ batch' \subseteq LfVdu
  BY DEF NextBatch
<1>3. PlacesOK'
  BY <1>1, <1>2, LfInvIs, SameService DEF PlacesOK
<1>4. FailsForCause'
  BY <1>2 DEF FailsForCause
<1>5. LfSoFar'
  BY <1>1, <1>2, SameService DEF LfInv, LfSoFar
<1> QED
  BY <1>1, <1>3, <1>4, <1>5, DataUntouched, LfInvIsThen

LEMMA LfLaunchKept == ASSUME LfInv, NEW v \in LfVdu, LaunchVnfds(v) PROVE LfInv'
<1>1. /\ UNCHANGED <<service, stage, batch, ready, done, seenNames, initData, configData>>
      /\ up' = up \cup {v} /\ stage = "launching"
  BY DEF LaunchVnfds
<1>2. PICK A \in SUBSET ({v} \X Machines(v) \X service.cards[v]) : ips' = ips \cup A
  BY DEF LaunchVnfds
<1>3. service.cards[v] \subseteq LfIface
  BY LfDescribed DEF LfInv
<1>4. \A a \in A : a \in Addresses
  <2> SUFFICES ASSUME NEW a \in A PROVE a \in Addresses
    OBVIOUS
  <2>1. a \in {v} \X Machines(v) \X service.cards[v]
    BY <1>2
  <2>2. PICK i \in Machines(v), f \in service.cards[v] : a = <<v, i, f>>
    BY <2>1
  <2> QED
    BY <1>3, <2>2, AddressIs
<1>5. PlacesOK'
  BY <1>1, <1>2, <1>4, LfInvIs, SameService DEF PlacesOK
<1>6. FailsForCause'
  BY <1>1 DEF FailsForCause
<1>7. LfSoFar'
  BY <1>1, SameService DEF LfInv, LfSoFar
<1> QED
  BY <1>1, <1>5, <1>6, <1>7, DataUntouched, LfInvIsThen

(* A failure leaves what it failed for as it was.                          *)
LEMMA FailedFor ==
  ASSUME NEW v \in LfVdu, NEW p \in service.init[v].asks \cup service.config[v].asks, MayFail(v, p),
         UNCHANGED <<service, ready, batch, up, ips>>
  PROVE  FailsForCause'
<1>1. \E w \in LfVdu : \E q \in service'.init[w].asks \cup service'.config[w].asks : MayFail(w, q)'
  <2>1. MayFail(v, p)'
    BY SameService DEF MayFail
  <2> QED
    BY <2>1
<1> QED
  BY <1>1 DEF FailsForCause, MayFail

LEMMA FailureKept ==
  ASSUME LfInv, stage' = "failed", FailsForCause',
         UNCHANGED <<service, batch, ips, up, ready, done, initData, configData>>
  PROVE  LfInv'
<1>1. PlacesOK'
  BY LfInvIs, SameService DEF PlacesOK
<1>2. LfSoFar'
  BY DEF LfInv, LfSoFar
<1> QED
  BY <1>1, <1>2, DataUntouched, LfInvIsThen

LEMMA ConfKept == ASSUME LfInv, NEW v \in LfVdu, GenerateConf(v) PROVE LfInv'
<1>1. /\ UNCHANGED <<service, batch, ips, up, ready, done, configData>>
      /\ stage = "launching" /\ v \in batch /\ batch \subseteq up /\ initData[v] = NoResult
      /\ seenNames' = seenNames \cup MarkedBy(v)
  BY DEF GenerateConf, BatchIsUp
<1>2. LfTypeOK /\ LfSoFar /\ PlacesOK /\ DataRight /\ LostForCause
  BY LfInvIs DEF LfInv
<1>3. PICK d, new : d = service.init[v] /\ new = FreshMachines(v)
  OBVIOUS
<1>4. d \in EventData /\ d.asks \subseteq Placeholder
  BY <1>2, <1>3, LfDescribed, DataKinds
<1>5. new \subseteq Machines(v)
  BY <1>3 DEF FreshMachines
<1>6. CASE d.is # "absent" /\ \E i \in new : ~Formats(v, i, d)
  <2>1. stage' = "failed" /\ initData' = initData
    BY <1>3, <1>6 DEF GenerateConf
  <2>2. PICK i \in new : ~Formats(v, i, d)
    BY <1>6
  <2>3. PICK p \in d.asks : ~Resolves(v, i, p)
    BY <2>2 DEF Formats
  <2>4. ready \cup batch \subseteq up
    BY <1>1, <1>2 DEF PlacesOK
  <2>5. MayFail(v, p)
    BY <1>1, <1>2, <1>4, <1>5, <2>3, <2>4, UnresolvedMayFail
  <2>6. FailsForCause'
    BY <1>1, <1>3, <2>5, FailedFor
  <2> QED
    BY <1>1, <2>1, <2>6, FailureKept
<1>7. ASSUME NEW r, initData' = [initData EXCEPT ![v] = r], stage' = stage,
             RightData(v, r), r.is # "none",
             r.is = "lost" => d.is = "plain",
             r.is = "skipped" => d.is = "absent" \/ service.size[v] = 1,
             r.is = "given" => {x[1] : x \in r.at} = d.asks
      PROVE  LfInv'
  <2>1. DOMAIN initData = LfVdu
    BY <1>2 DEF LfSoFar
  <2>2. /\ initData'[v] = r /\ DOMAIN initData' = LfVdu
        /\ \A w \in LfVdu \ {v} : initData'[w] = initData[w]
    BY <1>7, <2>1
  <2>3. r # NoResult
    BY <1>7 DEF NoResult
  <2>4. PlacesOK'
    BY <1>1, <1>2, <1>7, SameService DEF PlacesOK
  <2>5. \A w \in LfVdu : RightData(w, initData'[w]) /\ RightData(w, configData'[w])
    BY <1>1, <1>2, <1>7, <2>2 DEF DataRight
  <2>6. DataRight'
    BY <1>1, <2>5, SameService DEF DataRight
  <2>7. FailsForCause'
    BY <1>1, <1>7 DEF FailsForCause
  <2>8. LostForCause'
    <3> SUFFICES ASSUME NEW w \in LfVdu
                 PROVE  /\ initData'[w].is = "lost" => service.init[w].is = "plain"
                        /\ initData'[w].is = "skipped" =>
                             service.init[w].is = "absent" \/ service.size[w] = 1
                        /\ initData'[w].is = "given" =>
                             {x[1] : x \in initData'[w].at} = service.init[w].asks
      BY <1>1 DEF LostForCause
    <3>1. CASE w = v
      BY <1>3, <1>7, <2>2, <3>1
    <3>2. CASE w # v
      BY <1>2, <2>2, <3>2 DEF LostForCause
    <3> QED
      BY <3>1, <3>2
  <2>9. \A w \in LfVdu : initData'[w] # NoResult => w \in up
    BY <1>1, <1>2, <2>2 DEF LfSoFar
  <2>10. ASSUME NEW w \in LfVdu, initData'[w] = NoResult, NEW i \in Machines(w),
                <<w, i>> \in seenNames'
         PROVE  i = 0
    <3>1. w # v
      BY <2>2, <2>3, <2>10
    <3>2. <<w, i>> \in seenNames
      BY <1>1, <2>10, <3>1 DEF MarkedBy
    <3> QED
      BY <1>1, <1>2, <2>2, <2>10, <3>1, <3>2 DEF LfSoFar
  <2>11. LfSoFar'
    BY <1>1, <1>2, <1>7, <2>2, <2>9, <2>10, SameService DEF LfSoFar
  <2> QED
    BY <2>4, <2>6, <2>7, <2>8, <2>11, LfInvIsThen
<1>8. CASE d.is = "absent"
  <2>1. initData' = [initData EXCEPT ![v].is = "skipped"] /\ stage' = stage
    BY <1>3, <1>8 DEF GenerateConf
  <2>2. PICK r : r = [is |-> "skipped", at |-> {}]
    OBVIOUS
  <2>3. initData' = [initData EXCEPT ![v] = r]
    <3>1. [NoResult EXCEPT !.is = "skipped"] = r
      BY <2>2 DEF NoResult
    <3>2. initData' = [initData EXCEPT ![v] = [initData[v] EXCEPT !.is = "skipped"]]
      BY <2>1
    <3> QED
      BY <1>1, <3>1, <3>2
  <2>4. r.is = "skipped" /\ r.at = {} /\ RightData(v, r)
    BY <2>2, NothingRight
  <2> QED
    BY <1>7, <1>8, <2>1, <2>3, <2>4
<1>9. CASE d.is # "absent" /\ (\A i \in new : Formats(v, i, d)) /\ new = {}
  <2>1. PICK r : r = [is |-> "skipped", at |-> {}]
    OBVIOUS
  <2>2. initData' = [initData EXCEPT ![v] = r] /\ stage' = stage
    BY <1>3, <1>9, <2>1 DEF GenerateConf
  <2>3. r.is = "skipped" /\ r.at = {} /\ RightData(v, r)
    BY <2>1, NothingRight
  <2>4. service.size[v] = 1
    BY <1>1, <1>2, <1>3, <1>9, LastOfFresh
  <2> QED
    BY <1>7, <2>2, <2>3, <2>4
<1>10. CASE d.is # "absent" /\ (\A i \in new : Formats(v, i, d)) /\ new # {}
  <2>1. PICK l : l = CHOOSE i \in new : \A j \in new : j <= i
    OBVIOUS
  <2>2. l = LastMachine(v) /\ l \in new
    BY <1>1, <1>2, <1>3, <1>10, <2>1, LastOfFresh
  <2>3. PICK r : r = Formatted(v, l, d)
    OBVIOUS
  <2>4. initData' = [initData EXCEPT ![v] = r] /\ stage' = stage
    BY <1>3, <1>10, <2>1, <2>3 DEF GenerateConf
  <2>5. Formats(v, l, d)
    BY <1>10, <2>2
  <2>6. /\ RightData(v, r) /\ r.is # "skipped"
        /\ r.is = "lost" => d.is = "plain"
        /\ r.is = "given" => {x[1] : x \in r.at} = d.asks
    BY <1>2, <1>4, <1>10, <2>2, <2>3, <2>5, FormattedRight
  <2>7. r.is # "none"
    BY <1>4, <2>3, DataKinds DEF Formatted
  <2> QED
    BY <1>7, <2>4, <2>6, <2>7
<1> QED
  BY <1>6, <1>8, <1>9, <1>10

LEMMA AcknowledgedKept == ASSUME LfInv, Acknowledged PROVE LfInv'
<1>1. /\ UNCHANGED <<service, batch, ips, up, done, seenNames, initData, configData>>
      /\ stage = "launching" /\ ready' = ready \cup batch
      /\ stage' = IF ready' = LfVdu THEN "configuring" ELSE "ready"
      /\ \A v \in batch : initData[v] # NoResult
  BY DEF Acknowledged
<1>2. batch \subseteq up
  BY <1>1 DEF LfInv, LfSoFar, LfTypeOK
<1>3. PlacesOK'
  BY <1>1, <1>2, LfInvIs, SameService DEF PlacesOK
<1>4. FailsForCause'
  BY <1>1 DEF FailsForCause
<1>5. LfSoFar'
  BY <1>1, SameService DEF LfInv, LfSoFar
<1> QED
  BY <1>1, <1>3, <1>4, <1>5, DataUntouched, LfInvIsThen

LEMMA PostKept == ASSUME LfInv, NEW v \in LfVdu, PostConfigure(v) PROVE LfInv'
<1>1. /\ UNCHANGED <<service, batch, ips, up, ready, seenNames, initData>>
      /\ stage = "configuring"
  BY DEF PostConfigure
<1>2. LfTypeOK /\ LfSoFar /\ PlacesOK /\ DataRight
  BY LfInvIs DEF LfInv
<1>3. PICK d : d = service.config[v]
  OBVIOUS
<1>4. d \in EventData /\ d.asks \subseteq Placeholder
  BY <1>2, <1>3, LfDescribed, DataKinds
<1>5. ready = LfVdu /\ ready \subseteq up /\ batch \subseteq LfVdu
  BY <1>1, <1>2 DEF LfSoFar, PlacesOK
<1>6. CASE /\ stage' = "failed" /\ UNCHANGED <<done, configData>>
           /\ d.is = "absent" /\ initData[v].is = "skipped"
  <2>1. FailsForCause'
    BY <1>1, <1>3, <1>6 DEF FailsForCause
  <2> QED
    BY <1>1, <1>6, <2>1, FailureKept
<1>7. CASE /\ stage' = "failed" /\ UNCHANGED <<done, configData>>
           /\ \E i \in Machines(v) : ~Formats(v, i, d)
  <2>1. PICK i \in Machines(v) : ~Formats(v, i, d)
    BY <1>7
  <2>2. PICK p \in d.asks : ~Resolves(v, i, p)
    BY <2>1 DEF Formats
  <2>3. ready \cup batch \subseteq up /\ v \in up
    BY <1>5
  <2>4. MayFail(v, p)
    BY <1>2, <1>4, <2>1, <2>2, <2>3, UnresolvedMayFail
  <2>5. FailsForCause'
    BY <1>1, <1>3, <2>4, FailedFor
  <2> QED
    BY <1>1, <1>7, <2>5, FailureKept
<1>8. ASSUME NEW r, configData' = [configData EXCEPT ![v] = r], done' = done \cup {v},
             stage' = stage, RightData(v, r)
      PROVE  LfInv'
  <2>1. DOMAIN configData = LfVdu
    BY <1>2 DEF LfSoFar
  <2>2. /\ configData'[v] = r /\ DOMAIN configData' = LfVdu
        /\ \A w \in LfVdu \ {v} : configData'[w] = configData[w]
    BY <1>8, <2>1
  <2>3. PlacesOK'
    BY <1>1, <1>2, <1>5, <1>8, SameService DEF PlacesOK
  <2>4. \A w \in LfVdu : RightData(w, initData'[w]) /\ RightData(w, configData'[w])
    BY <1>1, <1>2, <1>8, <2>2 DEF DataRight
  <2>5. DataRight'
    BY <1>1, <2>4, SameService DEF DataRight
  <2>6. FailsForCause' /\ LostForCause'
    BY <1>1, <1>8 DEF LfInv, FailsForCause, LostForCause
  <2>7. LfSoFar'
    BY <1>1, <1>2, <1>8, <2>2, SameService DEF LfSoFar
  <2> QED
    BY <2>3, <2>5, <2>6, <2>7, LfInvIsThen
<1>9. CASE d.is = "absent" /\ initData[v].is # "skipped"
  <2>1. PICK r : r = initData[v]
    OBVIOUS
  <2>2. /\ configData' = [configData EXCEPT ![v] = r] /\ done' = done \cup {v} /\ stage' = stage
    BY <1>3, <1>9, <2>1 DEF PostConfigure
  <2>3. RightData(v, r)
    BY <1>2, <2>1 DEF DataRight
  <2> QED
    BY <1>8, <2>2, <2>3
<1>10. CASE d.is # "absent" /\ \A i \in Machines(v) : Formats(v, i, d)
  <2>1. PICK r : r = Formatted(v, LastMachine(v), d)
    OBVIOUS
  <2>2. /\ configData' = [configData EXCEPT ![v] = r] /\ done' = done \cup {v} /\ stage' = stage
    BY <1>3, <1>10, <2>1 DEF PostConfigure, LastFormatted
  <2>3. LastMachine(v) \in Machines(v)
    BY <1>2, LfSizes
  <2>4. RightData(v, r)
    BY <1>2, <1>4, <1>10, <2>1, <2>3, FormattedRight
  <2> QED
    BY <1>8, <2>2, <2>4
<1>11. CASE d.is = "absent" /\ initData[v].is = "skipped"
  <2>1. stage' = "failed" /\ UNCHANGED <<done, configData>>
    BY <1>3, <1>11 DEF PostConfigure
  <2> QED
    BY <1>6, <1>11, <2>1
<1>12. CASE d.is # "absent" /\ \E i \in Machines(v) : ~Formats(v, i, d)
  <2>1. stage' = "failed" /\ UNCHANGED <<done, configData>>
    BY <1>3, <1>12 DEF PostConfigure
  <2> QED
    BY <1>7, <1>12, <2>1
<1> QED
  BY <1>9, <1>10, <1>11, <1>12

LEMMA LfKept == LfInv /\ [LfNext]_lfVars => LfInv'
<1> SUFFICES ASSUME LfInv, [LfNext]_lfVars PROVE LfInv'
  OBVIOUS
<1>1. CASE UNCHANGED lfVars
  <2>1. UNCHANGED <<service, stage, batch, ips, up, ready, done, seenNames, initData, configData>>
    BY <1>1 DEF lfVars
  <2>2. PlacesOK'
    BY <2>1, LfInvIs, SameService DEF PlacesOK
  <2>3. FailsForCause' /\ LfSoFar'
    BY <2>1, SameService DEF LfInv, FailsForCause, LfSoFar
  <2> QED
    BY <2>1, <2>2, <2>3, DataUntouched, LfInvIsThen
<1>2. CASE LfNext
  BY <1>2, NextBatchKept, LfLaunchKept, ConfKept, AcknowledgedKept, PostKept DEF LfNext
<1> QED
  BY <1>1, <1>2

(***************************************************************************)
(* LifecycleData: user data                                                *)
(***************************************************************************)

(* A sequence is a function on its places, and two short ones together.    *)
LEMMA SequenceInto ==
  ASSUME NEW S, NEW n \in Nat, NEW s \in [1 .. n -> S]
  PROVE  s \in Seq(S) /\ Len(s) = n
OBVIOUS

FrontWords == {"header", "dhclient", "delete", "route", "hosts"}

LEMMA LineIs ==
  ASSUME NEW w \in FrontWords
  PROVE  Line(w) \in Lines /\ Line(w).what = w /\ Line(w).marks = <<>> /\ Line(w).filled = 0
BY DEF Line, Lines, FrontWords

LEMMA OwnCommandsAre ==
  ASSUME NEW v \in UserVdu
  PROVE  /\ OwnCommands[v] \in Seq(Seq(Marks)) /\ Len(OwnCommands[v]) \in Nat
         /\ DOMAIN OwnCommands[v] = 1 .. Len(OwnCommands[v])
         /\ \A n \in 1 .. Len(OwnCommands[v]) : OwnCommands[v][n] \in Seq(Marks)
<1>1. OwnCommands[v] \in Seq(Seq(Marks))
  BY UserDataAssumption
<1> QED
  BY <1>1, LenProperties, ElementOfSeq

LEMMA OwnLineIs ==
  ASSUME NEW v \in UserVdu, NEW n \in 1 .. Len(OwnCommands[v])
  PROVE  /\ OwnLine(v, n) \in Lines /\ OwnLine(v, n).what = "own" /\ OwnLine(v, n).of = v
         /\ OwnLine(v, n).n = n /\ OwnLine(v, n).marks = OwnCommands[v][n] /\ OwnLine(v, n).filled = 0
<1>1. n \in Nat /\ OwnCommands[v][n] \in Seq(Marks)
  BY OwnCommandsAre
<1> QED
  BY <1>1 DEF OwnLine, Lines

LEMMA OwnIs ==
  ASSUME NEW v \in UserVdu
  PROVE  /\ Own(v) \in Seq(Lines) /\ Len(Own(v)) = Len(OwnCommands[v])
         /\ \A n \in 1 .. Len(OwnCommands[v]) : Own(v)[n] = OwnLine(v, n)
<1>1. PICK m : m = Len(OwnCommands[v])
  OBVIOUS
<1>2. m \in Nat /\ DOMAIN OwnCommands[v] = 1 .. m
  BY <1>1, OwnCommandsAre
<1>3. PICK s : s = Own(v)
  OBVIOUS
<1>4. s = [n \in 1 .. m |-> OwnLine(v, n)]
  BY <1>2, <1>3 DEF Own
<1>5. \A n \in 1 .. m : OwnLine(v, n) \in Lines
  BY <1>1, OwnLineIs
<1>6. s \in [1 .. m -> Lines]
  BY <1>4, <1>5
<1>7. s \in Seq(Lines) /\ Len(s) = m
  BY <1>2, <1>6, SequenceInto
<1> QED
  BY <1>1, <1>3, <1>4, <1>7

(* The words of the program in front of the commands.                      *)
LEMMA Fronts ==
  ASSUME NEW w \in DefaultFronts \cup RoutedFronts \cup HeadedFronts
  PROVE  /\ w \in Seq(FrontWords) /\ Len(w) \in 1 .. 5 /\ DOMAIN w = 1 .. Len(w)
         /\ w[1] \in {"dhclient", "header"} /\ (w[1] = "dhclient" <=> w \in DefaultFronts \cup RoutedFronts)
<1>1. CASE w = <<"dhclient">>
  BY <1>1 DEF FrontWords, DefaultFronts, RoutedFronts, HeadedFronts
<1>2. CASE w = <<"dhclient", "hosts">>
  BY <1>2 DEF FrontWords, DefaultFronts, RoutedFronts, HeadedFronts
<1>3. CASE w = <<"dhclient", "delete", "route">>
  BY <1>3 DEF FrontWords, DefaultFronts, RoutedFronts, HeadedFronts
<1>4. CASE w = <<"dhclient", "delete", "route", "hosts">>
  BY <1>4 DEF FrontWords, DefaultFronts, RoutedFronts, HeadedFronts
<1>5. CASE w = <<"header", "dhclient">>
  BY <1>5 DEF FrontWords, DefaultFronts, RoutedFronts, HeadedFronts
<1>6. CASE w = <<"header", "dhclient", "hosts">>
  BY <1>6 DEF FrontWords, DefaultFronts, RoutedFronts, HeadedFronts
<1>7. CASE w = <<"header", "dhclient", "delete", "route">>
  BY <1>7 DEF FrontWords, DefaultFronts, RoutedFronts, HeadedFronts
<1>8. CASE w = <<"header", "dhclient", "delete", "route", "hosts">>
  BY <1>8 DEF FrontWords, DefaultFronts, RoutedFronts, HeadedFronts
<1> QED
  BY <1>1, <1>2, <1>3, <1>4, <1>5, <1>6, <1>7, <1>8 DEF DefaultFronts, RoutedFronts, HeadedFronts

(* In the order a machine needs them.                                      *)
WordsInFront(w, a, b) == \A i, j \in DOMAIN w : (w[i] = a /\ w[j] = b) => i < j

LEMMA FrontOrder ==
  ASSUME NEW w \in HeadedFronts
  PROVE  /\ WordsInFront(w, "header", "dhclient") /\ WordsInFront(w, "dhclient", "delete")
         /\ WordsInFront(w, "delete", "route") /\ WordsInFront(w, "route", "hosts")
<1>1. CASE w = <<"header", "dhclient">>
  BY <1>1 DEF WordsInFront
<1>2. CASE w = <<"header", "dhclient", "hosts">>
  BY <1>2 DEF WordsInFront
<1>3. CASE w = <<"header", "dhclient", "delete", "route">>
  BY <1>3 DEF WordsInFront
<1>4. CASE w = <<"header", "dhclient", "delete", "route", "hosts">>
  BY <1>4 DEF WordsInFront
<1> QED
  BY <1>1, <1>2, <1>3, <1>4 DEF HeadedFronts

(* A file that is filled in is as the properties want it.                  *)
LEMMA FilledInOrder ==
  ASSUME NEW f, NEW v \in UserVdu, NEW front \in HeadedFronts, FilledIn(f, v, front)
  PROVE  /\ \A i \in DOMAIN f : f[i].marks = <<>>
         /\ Len(f) - Len(OwnCommands[v]) = Len(front) /\ Len(front) \in Nat
         /\ \A i \in DOMAIN f :
              IF i <= Len(front) THEN f[i].what # "own"
              ELSE f[i].what = "own" /\ f[i].of = v /\ f[i].n = i - Len(front)
         /\ InFront(f, "header", "dhclient") /\ InFront(f, "dhclient", "delete")
         /\ InFront(f, "delete", "route") /\ InFront(f, "route", "hosts")
         /\ InFront(f, "route", "own") /\ InFront(f, "hosts", "own") /\ InFront(f, "dhclient", "own")
<1>1. PICK k, m : k = Len(front) /\ m = Len(OwnCommands[v])
  OBVIOUS
<1>2. /\ front \in Seq(FrontWords) /\ k \in Nat /\ DOMAIN front = 1 .. k /\ m \in Nat
  BY <1>1, Fronts, OwnCommandsAre
<1>3. /\ f \in Seq(Lines) /\ DOMAIN f = 1 .. k + m
      /\ \A i \in DOMAIN f :
           /\ f[i].marks = <<>>
           /\ IF i <= k THEN f[i].what = front[i]
              ELSE f[i].what = "own" /\ f[i].of = v /\ f[i].n = i - k
  BY <1>1 DEF FilledIn
<1>4. Len(f) = k + m
  BY <1>2, <1>3, LenProperties
<1>5. \A i \in 1 .. k : front[i] \in FrontWords
  BY <1>1, <1>2, ElementOfSeq
<1>6. "own" \notin FrontWords
  BY DEF FrontWords
<1>7. ASSUME NEW i \in DOMAIN f, f[i].what # "own" PROVE i \in 1 .. k /\ f[i].what = front[i]
  BY <1>2, <1>3, <1>7
<1>8. ASSUME NEW i \in DOMAIN f, f[i].what = "own" PROVE i \in Nat /\ ~ i <= k
  BY <1>2, <1>3, <1>5, <1>6, <1>8
<1>9. ASSUME NEW a, NEW b, a # "own", b # "own", WordsInFront(front, a, b)
      PROVE  InFront(f, a, b)
  BY <1>2, <1>7, <1>9 DEF InFront, WordsInFront
<1>10. ASSUME NEW a, a # "own" PROVE InFront(f, a, "own")
  <2> SUFFICES ASSUME NEW i \in DOMAIN f, NEW j \in DOMAIN f, f[i].what = a, f[j].what = "own"
               PROVE  i < j
    BY DEF InFront
  <2>1. i \in 1 .. k /\ j \in Nat /\ ~ j <= k
    BY <1>7, <1>8, <1>10
  <2> QED
    BY <1>2, <2>1
<1>11. \A i \in DOMAIN f :
         IF i <= k THEN f[i].what # "own"
         ELSE f[i].what = "own" /\ f[i].of = v /\ f[i].n = i - k
  <2> SUFFICES ASSUME NEW i \in DOMAIN f, i <= k PROVE f[i].what # "own"
    BY <1>3
  <2>1. i \in 1 .. k
    BY <1>2, <1>3
  <2> QED
    BY <1>3, <1>5, <1>6, <2>1
<1>12. (k + m) - m = k
  BY <1>2
<1>13. /\ InFront(f, "header", "dhclient") /\ InFront(f, "dhclient", "delete")
       /\ InFront(f, "delete", "route") /\ InFront(f, "route", "hosts")
  BY <1>9, FrontOrder
<1>14. InFront(f, "route", "own") /\ InFront(f, "hosts", "own") /\ InFront(f, "dhclient", "own")
  BY <1>10
<1> QED
  BY <1>1, <1>2, <1>3, <1>4, <1>11, <1>12, <1>13, <1>14

LEMMA FileMeant == FileSoFar => AllFilledIn /\ OwnRun /\ NetworkFirst
<1> SUFFICES ASSUME FileSoFar PROVE AllFilledIn /\ OwnRun /\ NetworkFirst
  OBVIOUS
<1>1. DOMAIN bootedWith \subseteq UserVdu
      /\ \A v \in DOMAIN bootedWith : \E front \in HeadedFronts : FilledIn(bootedWith[v], v, front)
  BY DEF FileSoFar
<1>2. ASSUME NEW v \in DOMAIN bootedWith
      PROVE  /\ \A i \in DOMAIN bootedWith[v] : bootedWith[v][i].marks = <<>>
             /\ InFront(bootedWith[v], "header", "dhclient") /\ InFront(bootedWith[v], "dhclient", "delete")
             /\ InFront(bootedWith[v], "delete", "route") /\ InFront(bootedWith[v], "route", "hosts")
             /\ InFront(bootedWith[v], "route", "own") /\ InFront(bootedWith[v], "hosts", "own")
             /\ InFront(bootedWith[v], "dhclient", "own")
  <2>1. PICK front \in HeadedFronts : FilledIn(bootedWith[v], v, front)
    BY <1>1
  <2> QED
    BY <1>1, <2>1, FilledInOrder
<1>3. OwnRun
  <2> SUFFICES ASSUME NEW v \in DOMAIN bootedWith
               PROVE  /\ Len(bootedWith[v]) - Len(OwnCommands[v]) >= 0
                      /\ \A i \in DOMAIN bootedWith[v] :
                           IF i <= Len(bootedWith[v]) - Len(OwnCommands[v])
                             THEN bootedWith[v][i].what # "own"
                             ELSE /\ bootedWith[v][i].what = "own" /\ bootedWith[v][i].of = v
                                  /\ bootedWith[v][i].n = i - (Len(bootedWith[v]) - Len(OwnCommands[v]))
    BY DEF OwnRun
  <2>1. PICK front \in HeadedFronts : FilledIn(bootedWith[v], v, front)
    BY <1>1
  <2>2. PICK k : k = Len(front)
    OBVIOUS
  <2>3. /\ Len(bootedWith[v]) - Len(OwnCommands[v]) = k /\ k \in Nat
        /\ \A i \in DOMAIN bootedWith[v] :
             IF i <= k THEN bootedWith[v][i].what # "own"
             ELSE bootedWith[v][i].what = "own" /\ bootedWith[v][i].of = v /\ bootedWith[v][i].n = i - k
    BY <1>1, <2>1, <2>2, FilledInOrder
  <2>4. k >= 0
    BY <2>3
  <2> QED
    BY <2>3, <2>4
<1>4. AllFilledIn
  BY <1>2 DEF AllFilledIn
<1>5. NetworkFirst
  BY <1>2 DEF NetworkFirst
<1> QED
  BY <1>3, <1>4, <1>5

LEMMA UdInvIs == UdInv <=> UdTypeOK /\ IndexForeign /\ FailsForMark /\ FileSoFar
BY FileMeant DEF UdInv

LEMMA UdInvIsThen == UdInv' <=> UdTypeOK' /\ IndexForeign' /\ FailsForMark' /\ FileSoFar'
BY UdInvIs, PTL

LEMMA UdStarts == UdInit => UdInv
<1> SUFFICES ASSUME UdInit PROVE UdInv
  OBVIOUS
<1>1. \A v \in UserVdu : 0 \in 0 .. InstancesOf[v]
  BY UserDataAssumption
<1>2. /\ bootedWith = [v \in {} |-> <<>>] /\ DOMAIN bootedWith = {} /\ recorded = [v \in UserVdu |-> 0]
      /\ udAt.vdu = "" /\ udAt.pc = "next" /\ dataFile = <<>>
  BY DEF UdInit
<1>3. \A v \in UserVdu : recorded[v] \in 0 .. InstancesOf[v] /\ ~ recorded[v] > 0
  <2>1. \A v \in UserVdu : recorded[v] = 0
    BY DEF UdInit
  <2> QED
    BY <1>1, <2>1
<1>4. dataFile \in Seq(Lines)
  <2>1. dataFile = <<>>
    BY DEF UdInit
  <2>2. <<>> \in Seq(Lines)
    OBVIOUS
  <2> QED
    BY <2>1, <2>2
<1>5. cfgEngine \in BOOLEAN /\ carded \subseteq UserVdu /\ rowThere \in BOOLEAN
  BY DEF UdInit
<1>51. udAt \in [vdu : UserVdu \cup {""}, pc : {"next", "written", "routed", "formatted", "failed"}]
  <2>1. udAt = [vdu |-> "", pc |-> "next"]
    BY DEF UdInit
  <2> QED
    BY <2>1
<1>6. UdTypeOK
  BY <1>3, <1>4, <1>5, <1>51 DEF UdTypeOK
<1>7. IndexForeign /\ FailsForMark /\ FileSoFar
  BY <1>2 DEF IndexForeign, FailsForMark, FileSoFar
<1> QED
  BY <1>6, <1>7, UdInvIs

(* The lines of the program with the commands behind them.                 *)
LEMMA ComposedBy ==
  ASSUME NEW v \in UserVdu, NEW front \in DefaultFronts \cup RoutedFronts, NEW p \in Seq(Lines),
         Len(p) = Len(front), \A i \in 1 .. Len(front) : p[i] = Line(front[i])
  PROVE  p \o Own(v) \in Seq(Lines) /\ Composed(p \o Own(v), v, front)
<1>1. PICK k, m, o, f : k = Len(front) /\ m = Len(OwnCommands[v]) /\ o = Own(v) /\ f = p \o Own(v)
  OBVIOUS
<1>2. k \in Nat /\ m \in Nat
  BY <1>1, Fronts, OwnCommandsAre
<1>3. o \in Seq(Lines) /\ Len(o) = m /\ \A n \in 1 .. m : o[n] = OwnLine(v, n)
  BY <1>1, OwnIs
<1>4. /\ p \o o \in Seq(Lines) /\ Len(p \o o) = Len(p) + Len(o)
      /\ \A i \in 1 .. Len(p) + Len(o) : (p \o o)[i] = IF i <= Len(p) THEN p[i] ELSE o[i - Len(p)]
  BY <1>3, ConcatProperties
<1>5. /\ f \in Seq(Lines) /\ Len(f) = k + m
      /\ \A i \in 1 .. k + m : f[i] = IF i <= k THEN p[i] ELSE o[i - k]
  BY <1>1, <1>3, <1>4
<1>6. DOMAIN f = 1 .. k + m
  BY <1>5, LenProperties
<1>7. ASSUME NEW i \in 1 .. k + m
      PROVE  f[i] = IF i <= k THEN Line(front[i]) ELSE OwnLine(v, i - k)
  <2>1. CASE i <= k
    <3>1. i \in 1 .. k
      BY <1>2, <2>1
    <3> QED
      BY <1>1, <1>5, <2>1, <3>1
  <2>2. CASE ~ i <= k
    <3>1. i - k \in 1 .. m
      BY <1>2, <2>2
    <3> QED
      BY <1>3, <1>5, <2>2, <3>1
  <2> QED
    BY <2>1, <2>2
<1> QED
  BY <1>1, <1>5, <1>6, <1>7 DEF Composed

LEMMA DefaultComposed ==
  ASSUME cfgEngine \in BOOLEAN, NEW v \in UserVdu
  PROVE  /\ DefaultUserdata(v) \in Seq(Lines)
         /\ \E front \in DefaultFronts : Composed(DefaultUserdata(v), v, front)
<1>1. Line("dhclient") \in Lines /\ Line("hosts") \in Lines
  BY LineIs DEF FrontWords
<1>2. PICK a, b : a = Line("dhclient") /\ b = Line("hosts")
  OBVIOUS
<1>3. CASE cfgEngine
  <2>1. PICK p : p = <<a>> \o <<b>>
    OBVIOUS
  <2>2. PICK x, y : x = <<a>> /\ y = <<b>>
    OBVIOUS
  <2>21. /\ x \in Seq(Lines) /\ Len(x) = 1 /\ x[1] = a
         /\ y \in Seq(Lines) /\ Len(y) = 1 /\ y[1] = b
    BY <1>1, <1>2, <2>2
  <2>22. /\ x \o y \in Seq(Lines) /\ Len(x \o y) = Len(x) + Len(y)
         /\ \A i \in 1 .. Len(x) + Len(y) : (x \o y)[i] = IF i <= Len(x) THEN x[i] ELSE y[i - Len(x)]
    BY <2>21, ConcatProperties
  <2>23. /\ p \in Seq(Lines) /\ Len(p) = 1 + 1
         /\ \A i \in 1 .. 1 + 1 : p[i] = IF i <= 1 THEN x[i] ELSE y[i - 1]
    BY <2>1, <2>2, <2>21, <2>22
  <2>3. p \in Seq(Lines) /\ Len(p) = 2 /\ p[1] = a /\ p[2] = b
    <3>1. p[1] = x[1] /\ p[2] = y[1]
      BY <2>23
    <3> QED
      BY <2>21, <2>23, <3>1
  <2>4. PICK front : front = <<"dhclient", "hosts">>
    OBVIOUS
  <2>5. front \in DefaultFronts /\ Len(front) = 2 /\ front[1] = "dhclient" /\ front[2] = "hosts"
    BY <2>4 DEF DefaultFronts
  <2>6. \A i \in 1 .. 2 : p[i] = Line(front[i])
    BY <1>2, <2>3, <2>5
  <2>7. DefaultUserdata(v) = p \o Own(v)
    BY <1>2, <1>3, <2>1 DEF DefaultUserdata, Hosts
  <2> QED
    BY <2>3, <2>5, <2>6, <2>7, ComposedBy
<1>4. CASE ~cfgEngine
  <2>1. PICK p : p = <<a>> \o <<>>
    OBVIOUS
  <2>2. p = <<a>>
    <3>1. <<a>> \in Seq({a})
      OBVIOUS
    <3> QED
      BY <2>1, <3>1, ConcatEmptySeq
  <2>3. p \in Seq(Lines) /\ Len(p) = 1 /\ p[1] = a
    BY <1>1, <1>2, <2>2
  <2>4. PICK front : front = <<"dhclient">>
    OBVIOUS
  <2>5. front \in DefaultFronts /\ Len(front) = 1 /\ front[1] = "dhclient"
    BY <2>4 DEF DefaultFronts
  <2>6. \A i \in 1 .. 1 : p[i] = Line(front[i])
    BY <1>2, <2>3, <2>5
  <2>7. DefaultUserdata(v) = p \o Own(v)
    BY <1>2, <1>4, <2>1 DEF DefaultUserdata, Hosts
  <2> QED
    BY <2>3, <2>5, <2>6, <2>7, ComposedBy
<1> QED
  BY <1>3, <1>4

(* The route goes between the first line and the others.                   *)
LEMMA WithRoute ==
  ASSUME NEW front \in DefaultFronts
  PROVE  \E longer \in RoutedFronts :
           /\ Len(longer) = Len(front) + 2 /\ longer[1] = front[1]
           /\ longer[2] = "delete" /\ longer[3] = "route"
           /\ \A i \in 4 .. Len(longer) : longer[i] = front[i - 2]
<1>1. CASE front = <<"dhclient">>
  <2>1. PICK w : w = <<"dhclient", "delete", "route">>
    OBVIOUS
  <2>2. w \in RoutedFronts
    BY <2>1 DEF RoutedFronts
  <2>3. Len(w) = 3 /\ w[1] = "dhclient" /\ w[2] = "delete" /\ w[3] = "route"
    BY <2>1
  <2>4. Len(front) = 1 /\ front[1] = "dhclient"
    BY <1>1
  <2> QED
    BY <2>2, <2>3, <2>4
<1>2. CASE front = <<"dhclient", "hosts">>
  <2>1. PICK w : w = <<"dhclient", "delete", "route", "hosts">>
    OBVIOUS
  <2>2. w \in RoutedFronts
    BY <2>1 DEF RoutedFronts
  <2>3. Len(w) = 4 /\ w[1] = "dhclient" /\ w[2] = "delete" /\ w[3] = "route" /\ w[4] = "hosts"
    BY <2>1
  <2>4. Len(front) = 2 /\ front[1] = "dhclient" /\ front[2] = "hosts"
    BY <1>2
  <2>5. \A i \in 4 .. 4 : w[i] = front[i - 2]
    BY <2>3, <2>4
  <2> QED
    BY <2>2, <2>3, <2>4, <2>5
<1> QED
  BY <1>1, <1>2 DEF DefaultFronts

LEMMA RouteComposed ==
  ASSUME NEW v \in UserVdu, NEW f \in Seq(Lines), NEW front \in DefaultFronts, Composed(f, v, front)
  PROVE  /\ WithRouteLines(f) \in Seq(Lines)
         /\ \E longer \in RoutedFronts : Composed(WithRouteLines(f), v, longer)
<1>1. PICK k, m : k = Len(front) /\ m = Len(OwnCommands[v])
  OBVIOUS
<1>2. k \in Nat /\ k >= 1 /\ m \in Nat /\ front[1] = "dhclient"
  <2>1. Len(front) \in 1 .. 5 /\ front[1] = "dhclient"
    BY Fronts
  <2>2. m \in Nat
    BY <1>1, OwnCommandsAre
  <2> QED
    BY <1>1, <2>1, <2>2
<1>3. /\ DOMAIN f = 1 .. k + m
      /\ \A i \in 1 .. k + m : f[i] = IF i <= k THEN Line(front[i]) ELSE OwnLine(v, i - k)
  BY <1>1 DEF Composed
<1>4. Len(f) = k + m /\ f # <<>>
  BY <1>2, <1>3, LenProperties
<1>5. PICK t : t = Tail(f)
  OBVIOUS
<1>6. t \in Seq(Lines) /\ Len(t) = k + m - 1 /\ \A i \in 1 .. k + m - 1 : t[i] = f[i + 1]
  <2>1. Tail(f) \in Seq(Lines) /\ Len(Tail(f)) = Len(f) - 1
        /\ \A i \in 1 .. Len(Tail(f)) : Tail(f)[i] = f[i + 1]
    BY <1>4, HeadTailProperties
  <2>2. t \in Seq(Lines) /\ Len(t) = Len(f) - 1 /\ \A i \in 1 .. Len(t) : t[i] = f[i + 1]
    BY <1>5, <2>1, Zenon
  <2>3. Len(t) = k + m - 1
    <3>1. Len(f) = k + m /\ Len(t) = Len(f) - 1
      BY <1>4, <2>2
    <3>2. (k + m) - 1 = k + m - 1
      BY <1>2
    <3> QED
      BY <3>1, <3>2
  <2>4. PICK r : r = Len(t)
    OBVIOUS
  <2>5. \A i \in 1 .. r : t[i] = f[i + 1]
    BY <2>2, <2>4
  <2>6. r = k + m - 1
    BY <2>3, <2>4
  <2>7. \A i \in 1 .. k + m - 1 : t[i] = f[i + 1]
    BY <2>5, <2>6
  <2>8. t \in Seq(Lines)
    BY <2>2
  <2> QED
    BY <2>3, <2>7, <2>8
<1>7. PICK a, b, c : a = f[1] /\ b = Line("delete") /\ c = Line("route")
  OBVIOUS
<1>8. a = Line("dhclient") /\ a \in Lines /\ b \in Lines /\ c \in Lines
  <2>1. 1 \in 1 .. k + m /\ 1 <= k
    BY <1>2
  <2>2. a = Line("dhclient")
    BY <1>2, <1>3, <1>7, <2>1
  <2> QED
    BY <1>7, <2>2, LineIs DEF FrontWords
<1>9. PICK h : h = <<a, b, c>>
  OBVIOUS
<1>10. h \in Seq(Lines) /\ Len(h) = 3 /\ h[1] = a /\ h[2] = b /\ h[3] = c
  BY <1>8, <1>9
<1>11. PICK g : g = h \o t
  OBVIOUS
<1>12. g = WithRouteLines(f)
  BY <1>5, <1>7, <1>9, <1>11 DEF WithRouteLines
<1>13. /\ h \o t \in Seq(Lines) /\ Len(h \o t) = Len(h) + Len(t)
       /\ \A i \in 1 .. Len(h) + Len(t) : (h \o t)[i] = IF i <= Len(h) THEN h[i] ELSE t[i - Len(h)]
  BY <1>6, <1>10, ConcatProperties
<1>14. PICK n : n = k + m + 2
  OBVIOUS
<1>15. 3 + (k + m - 1) = n
  BY <1>2, <1>14
<1>16. /\ g \in Seq(Lines) /\ Len(g) = n
       /\ \A i \in 1 .. n : g[i] = IF i <= 3 THEN h[i] ELSE t[i - 3]
  BY <1>6, <1>10, <1>11, <1>13, <1>15
<1>17. DOMAIN g = 1 .. n
  BY <1>16, LenProperties
<1>18. PICK longer \in RoutedFronts :
         /\ Len(longer) = k + 2 /\ longer[1] = "dhclient"
         /\ longer[2] = "delete" /\ longer[3] = "route"
         /\ \A i \in 4 .. k + 2 : longer[i] = front[i - 2]
  <2>1. PICK longer \in RoutedFronts :
          /\ Len(longer) = Len(front) + 2 /\ longer[1] = front[1]
          /\ longer[2] = "delete" /\ longer[3] = "route"
          /\ \A i \in 4 .. Len(longer) : longer[i] = front[i - 2]
    BY WithRoute
  <2> QED
    BY <1>1, <1>2, <2>1
<1>19. ASSUME NEW i \in 1 .. n
       PROVE  g[i] = IF i <= k + 2 THEN Line(longer[i]) ELSE OwnLine(v, i - (k + 2))
  <2>1. CASE i <= 3
    <3>1. i <= k + 2
      BY <1>2, <2>1
    <3>2. i = 1 \/ i = 2 \/ i = 3
      BY <2>1
    <3>3. h[i] = Line(longer[i])
      BY <1>7, <1>8, <1>10, <1>18, <3>2
    <3> QED
      BY <1>16, <2>1, <3>1, <3>3
  <2>2. CASE ~ i <= 3
    <3>1. i - 3 \in 1 .. k + m - 1 /\ (i - 3) + 1 = i - 2 /\ i - 2 \in 1 .. k + m
      BY <1>2, <1>14, <2>2
    <3>2. g[i] = f[i - 2]
      BY <1>6, <1>16, <2>2, <3>1
    <3>3. CASE i <= k + 2
      <4>1. i - 2 <= k /\ i \in 4 .. k + 2
        BY <1>2, <2>2, <3>3
      <4>2. f[i - 2] = Line(front[i - 2]) /\ longer[i] = front[i - 2]
        BY <1>3, <1>18, <3>1, <4>1
      <4> QED
        BY <3>2, <3>3, <4>2
    <3>4. CASE ~ i <= k + 2
      <4>1. ~ i - 2 <= k /\ (i - 2) - k = i - (k + 2)
        BY <1>2, <3>4
      <4>2. f[i - 2] = OwnLine(v, (i - 2) - k)
        BY <1>3, <3>1, <4>1
      <4> QED
        BY <3>2, <3>4, <4>1, <4>2
    <3> QED
      BY <3>3, <3>4
  <2> QED
    BY <2>1, <2>2
<1>20. Len(longer) + m = n
  BY <1>2, <1>14, <1>18
<1>21. Composed(g, v, longer)
  BY <1>1, <1>17, <1>18, <1>19, <1>20 DEF Composed
<1> QED
  BY <1>12, <1>16, <1>18, <1>21

(* What a line asks for is a finite set.                                   *)
LEMMA MarksFinite ==
  ASSUME NEW l, l.marks \in Seq(Marks)
  PROVE  /\ IsFiniteSet(MarksOf(l)) /\ Cardinality(MarksOf(l)) \in Nat
         /\ l.marks # <<>> => MarksOf(l) # {}
<1>1. PICK s, n, T : s = l.marks /\ n = Len(s) /\ T = MarksOf(l)
  OBVIOUS
<1>2. n \in Nat /\ DOMAIN s = 1 .. n /\ s \in [1 .. n -> Marks]
  BY <1>1, LenProperties
<1>3. \A m : m \in T <=> \E i \in 1 .. n : m = s[i]
  BY <1>1, <1>2 DEF MarksOf
<1>4. s \in [1 .. n -> T]
  BY <1>2, <1>3
<1>5. s \in Surjection(1 .. n, T)
  BY <1>3, <1>4 DEF Surjection
<1>6. IsFiniteSet(1 .. n)
  BY <1>2, FS_Interval
<1>7. IsFiniteSet(T) /\ Cardinality(T) \in Nat
  BY <1>5, <1>6, FS_Surjection, FS_CardinalityType
<1>8. ASSUME T = {} PROVE s = <<>>
  <2>1. ~ 1 \in 1 .. n
    BY <1>3, <1>8
  <2>2. n = 0
    BY <1>2, <2>1
  <2>3. s \in Seq(Marks)
    BY <1>1
  <2> QED
    BY <1>1, <2>2, <2>3, EmptySeq
<1> QED
  BY <1>1, <1>7, <1>8

LEMMA ManyOrOne ==
  ASSUME NEW S, IsFiniteSet(S), S # {}
  PROVE  Cardinality(S) > 1 \/ \E x : S = {x}
<1>1. Cardinality(S) \in Nat /\ Cardinality(S) # 0
  BY FS_CardinalityType, FS_EmptySet
<1>2. Cardinality(S) = 1 => \E x : S = {x}
  BY FS_Singleton
<1> QED
  BY <1>1, <1>2

(* A line that is formatted is kept, filled in or a failure.               *)
Failure == Line("failure")

LEMMA FailureIs == Failure \notin Lines
<1>1. Failure.what = "failure"
  BY DEF Failure, Line
<1>2. \A l \in Lines : l.what # "failure"
  BY DEF Lines
<1> QED
  BY <1>1, <1>2

LEMMA FilledLine ==
  ASSUME NEW l \in Lines, NEW c \in Nat
  PROVE  /\ FilledWith(l, c) \in Lines /\ FilledWith(l, c).marks = <<>>
         /\ FilledWith(l, c).what = l.what /\ FilledWith(l, c).of = l.of
         /\ FilledWith(l, c).n = l.n /\ FilledWith(l, c).filled = c
<1>1. /\ l.what \in {"header", "dhclient", "delete", "route", "hosts", "own"}
      /\ l.of \in UserVdu \cup {""} /\ l.n \in Nat
  BY DEF Lines
<1>2. <<>> \in Seq(Marks)
  OBVIOUS
<1>3. FilledWith(l, c) \in Lines
  BY <1>1, <1>2 DEF FilledWith, Lines
<1> QED
  BY <1>3 DEF FilledWith

LEMMA FormatLineIs ==
  ASSUME NEW l \in Lines, NEW v, NEW w, recorded[w] \in Nat
  PROVE  \/ /\ FormatLine(v, w, l) = Failure /\ l.marks # <<>>
            /\ rowThere => \A m \in MarksOf(l) :
                 MarksOf(l) = {m} => m.ask # "index" \/ m.of \notin WithinName[v]
         \/ /\ FormatLine(v, w, l) \in Lines /\ FormatLine(v, w, l).marks = <<>>
            /\ FormatLine(v, w, l).what = l.what /\ FormatLine(v, w, l).of = l.of
            /\ FormatLine(v, w, l).n = l.n
            /\ FormatLine(v, w, l).filled \in {l.filled, recorded[w] + 1}
<1>1. CASE l.marks = <<>>
  <2>1. FormatLine(v, w, l) = l
    BY <1>1 DEF FormatLine
  <2> QED
    BY <1>1, <2>1
<1>2. CASE l.marks # <<>>
  <2>1. CASE rowThere /\ \E m \in MarksOf(l) : MarksOf(l) = {m} /\ m.ask = "index" /\ m.of \in WithinName[v]
    <3>1. PICK c : c = recorded[w] + 1
      OBVIOUS
    <3>2. c \in Nat
      BY <3>1
    <3>3. FormatLine(v, w, l) = FilledWith(l, c)
      <4>1. CountOf(w) = c
        BY <3>1 DEF CountOf
      <4>2. FormatLine(v, w, l) = FilledWith(l, CountOf(w))
        BY <1>2, <2>1 DEF FormatLine
      <4> QED
        BY <4>1, <4>2
    <3>4. PICK g : g = FormatLine(v, w, l)
      OBVIOUS
    <3>5. /\ g \in Lines /\ g.marks = <<>> /\ g.what = l.what /\ g.of = l.of /\ g.n = l.n
          /\ g.filled = c
      <4>1. /\ FilledWith(l, c) \in Lines /\ FilledWith(l, c).marks = <<>>
            /\ FilledWith(l, c).what = l.what /\ FilledWith(l, c).of = l.of
            /\ FilledWith(l, c).n = l.n /\ FilledWith(l, c).filled = c
        BY <3>2, FilledLine
      <4>2. g = FilledWith(l, c)
        BY <3>3, <3>4
      <4> QED
        BY <4>1, <4>2
    <3>6. g.filled \in {l.filled, recorded[w] + 1}
      BY <3>1, <3>5
    <3> QED
      BY <3>4, <3>5, <3>6
  <2>2. CASE ~ (rowThere /\ \E m \in MarksOf(l) : MarksOf(l) = {m} /\ m.ask = "index" /\ m.of \in WithinName[v])
    <3>1. FormatLine(v, w, l) = Failure
      BY <1>2, <2>2 DEF FormatLine, Failure
    <3> QED
      BY <1>2, <2>2, <3>1
  <2> QED
    BY <2>1, <2>2
<1> QED
  BY <1>1, <1>2

(* A line that fails is one of the commands of the VDU, for its marks.     *)
LEMMA FailingLine ==
  ASSUME NEW v \in UserVdu, NEW n \in 1 .. Len(OwnCommands[v]), OwnLine(v, n).marks # <<>>,
         \A m \in MarksOf(OwnLine(v, n)) :
           MarksOf(OwnLine(v, n)) = {m} => m.ask # "index" \/ m.of \notin WithinName[v]
  PROVE  \E k \in DOMAIN OwnCommands[v] :
           LET marks == MarksOf(OwnLine(v, k))
           IN Cardinality(marks) > 1 \/ \E m \in marks : m.ask # "index" \/ m.of \notin WithinName[v]
<1>1. PICK l, T : l = OwnLine(v, n) /\ T = MarksOf(OwnLine(v, n))
  OBVIOUS
<1>2. l.marks \in Seq(Marks) /\ l.marks # <<>>
  BY <1>1, OwnLineIs, OwnCommandsAre
<1>3. IsFiniteSet(T) /\ T # {}
  BY <1>1, <1>2, MarksFinite
<1>4. \A m \in T : T = {m} => m.ask # "index" \/ m.of \notin WithinName[v]
  BY <1>1
<1>5. Cardinality(T) > 1 \/ \E x : T = {x}
  BY <1>3, ManyOrOne
<1>6. Cardinality(T) > 1 \/ \E m \in T : m.ask # "index" \/ m.of \notin WithinName[v]
  BY <1>4, <1>5
<1>7. n \in DOMAIN OwnCommands[v]
  BY OwnCommandsAre
<1> QED
  BY <1>1, <1>6, <1>7

(* The file as it is composed, line by line.                               *)
LEMMA ComposedLines ==
  ASSUME NEW v \in UserVdu, NEW f, NEW front \in DefaultFronts \cup RoutedFronts, Composed(f, v, front)
  PROVE  /\ DOMAIN f = 1 .. Len(front) + Len(OwnCommands[v])
         /\ \A i \in DOMAIN f :
              /\ f[i] \in Lines /\ f[i].filled = 0
              /\ i <= Len(front) => /\ i \in 1 .. Len(front)
                                    /\ f[i].what = front[i] /\ f[i].marks = <<>>
              /\ ~ i <= Len(front) =>
                   /\ i - Len(front) \in 1 .. Len(OwnCommands[v])
                   /\ f[i] = OwnLine(v, i - Len(front))
                   /\ f[i].what = "own" /\ f[i].of = v /\ f[i].n = i - Len(front)
<1>1. PICK k, m : k = Len(front) /\ m = Len(OwnCommands[v])
  OBVIOUS
<1>2. k \in Nat /\ m \in Nat /\ front \in Seq(FrontWords)
  BY <1>1, Fronts, OwnCommandsAre
<1>3. /\ DOMAIN f = 1 .. k + m
      /\ \A i \in 1 .. k + m : f[i] = IF i <= k THEN Line(front[i]) ELSE OwnLine(v, i - k)
  BY <1>1 DEF Composed
<1>4. ASSUME NEW i \in 1 .. k + m, i <= k
      PROVE  /\ f[i] \in Lines /\ f[i].filled = 0 /\ i \in 1 .. k
             /\ f[i].what = front[i] /\ f[i].marks = <<>>
  <2>1. i \in 1 .. k
    BY <1>2, <1>4
  <2>2. front[i] \in FrontWords
    BY <1>1, <1>2, <2>1, ElementOfSeq
  <2>3. f[i] = Line(front[i])
    BY <1>3, <1>4
  <2> QED
    BY <2>1, <2>2, <2>3, LineIs
<1>5. ASSUME NEW i \in 1 .. k + m, ~ i <= k
      PROVE  /\ f[i] \in Lines /\ f[i].filled = 0 /\ i - k \in 1 .. m
             /\ f[i] = OwnLine(v, i - k)
             /\ f[i].what = "own" /\ f[i].of = v /\ f[i].n = i - k
  <2>1. i - k \in 1 .. m
    BY <1>2, <1>5
  <2>2. f[i] = OwnLine(v, i - k)
    BY <1>3, <1>5
  <2> QED
    BY <1>1, <2>1, <2>2, OwnLineIs
<1> QED
  BY <1>1, <1>3, <1>4, <1>5

(* The header comes before all that is formatted.                          *)
LEMMA WithHeader ==
  ASSUME NEW front \in DefaultFronts \cup RoutedFronts
  PROVE  \E longer \in HeadedFronts :
           /\ Len(longer) = Len(front) + 1 /\ longer[1] = "header"
           /\ \A i \in 1 .. Len(front) : longer[i + 1] = front[i]
<1>1. CASE front = <<"dhclient">>
  <2>1. PICK w : w = <<"header", "dhclient">>
    OBVIOUS
  <2>2. w \in HeadedFronts
    BY <2>1 DEF HeadedFronts
  <2>3. Len(w) = 2 /\ w[1] = "header" /\ w[2] = "dhclient"
    BY <2>1
  <2>4. Len(front) = 1 /\ front[1] = "dhclient"
    BY <1>1
  <2>5. \A i \in 1 .. 1 : w[i + 1] = front[i]
    BY <2>3, <2>4
  <2> QED
    BY <2>2, <2>3, <2>4, <2>5
<1>2. CASE front = <<"dhclient", "hosts">>
  <2>1. PICK w : w = <<"header", "dhclient", "hosts">>
    OBVIOUS
  <2>2. w \in HeadedFronts
    BY <2>1 DEF HeadedFronts
  <2>3. Len(w) = 3 /\ w[1] = "header" /\ w[2] = "dhclient" /\ w[3] = "hosts"
    BY <2>1
  <2>4. Len(front) = 2 /\ front[1] = "dhclient" /\ front[2] = "hosts"
    BY <1>2
  <2>5. \A i \in 1 .. 2 : w[i + 1] = front[i]
    BY <2>3, <2>4
  <2> QED
    BY <2>2, <2>3, <2>4, <2>5
<1>3. CASE front = <<"dhclient", "delete", "route">>
  <2>1. PICK w : w = <<"header", "dhclient", "delete", "route">>
    OBVIOUS
  <2>2. w \in HeadedFronts
    BY <2>1 DEF HeadedFronts
  <2>3. Len(w) = 4 /\ w[1] = "header" /\ w[2] = "dhclient" /\ w[3] = "delete" /\ w[4] = "route"
    BY <2>1
  <2>4. Len(front) = 3 /\ front[1] = "dhclient" /\ front[2] = "delete" /\ front[3] = "route"
    BY <1>3
  <2>5. \A i \in 1 .. 3 : w[i + 1] = front[i]
    BY <2>3, <2>4
  <2> QED
    BY <2>2, <2>3, <2>4, <2>5
<1>4. CASE front = <<"dhclient", "delete", "route", "hosts">>
  <2>1. PICK w : w = <<"header", "dhclient", "delete", "route", "hosts">>
    OBVIOUS
  <2>2. w \in HeadedFronts
    BY <2>1 DEF HeadedFronts
  <2>3. /\ Len(w) = 5 /\ w[1] = "header" /\ w[2] = "dhclient" /\ w[3] = "delete" /\ w[4] = "route"
        /\ w[5] = "hosts"
    BY <2>1
  <2>4. /\ Len(front) = 4 /\ front[1] = "dhclient" /\ front[2] = "delete" /\ front[3] = "route"
        /\ front[4] = "hosts"
    BY <1>4
  <2>5. \A i \in 1 .. 4 : w[i + 1] = front[i]
    BY <2>3, <2>4
  <2> QED
    BY <2>2, <2>3, <2>4, <2>5
<1> QED
  BY <1>1, <1>2, <1>3, <1>4 DEF DefaultFronts, RoutedFronts

FormattedBy(out, f, v, w) == out = [i \in DOMAIN f |-> FormatLine(v, w, f[i])]
HeadedBy(g, out) == g = <<Line("header")>> \o out

(* A file of which no line fails is filled in.                             *)
LEMMA FormattedFile ==
  ASSUME NEW v \in UserVdu, NEW w \in UserVdu, NEW front \in DefaultFronts \cup RoutedFronts,
         NEW f, Composed(f, v, front), recorded[w] \in Nat,
         NEW out, FormattedBy(out, f, v, w),
         \A i \in DOMAIN f : out[i] # Failure,
         NEW g, HeadedBy(g, out)
  PROVE  /\ \E longer \in HeadedFronts : FilledIn(g, v, longer)
         /\ g \in Seq(Lines)
         /\ \A i \in DOMAIN g : g[i].filled \in {0, recorded[w] + 1}
<1>1. PICK k, m : k = Len(front) /\ m = Len(OwnCommands[v])
  OBVIOUS
<1>2. k \in Nat /\ m \in Nat
  BY <1>1, Fronts, OwnCommandsAre
<1>3. PICK n : n = k + m
  OBVIOUS
<1>4. n \in Nat
  BY <1>2, <1>3
<1>5. /\ DOMAIN f = 1 .. n
      /\ \A i \in 1 .. n :
           /\ f[i] \in Lines /\ f[i].filled = 0
           /\ i <= k => i \in 1 .. k /\ f[i].what = front[i]
           /\ ~ i <= k => f[i].what = "own" /\ f[i].of = v /\ f[i].n = i - k
  <2>1. /\ DOMAIN f = 1 .. Len(front) + Len(OwnCommands[v])
        /\ \A i \in DOMAIN f :
             /\ f[i] \in Lines /\ f[i].filled = 0
             /\ i <= Len(front) => i \in 1 .. Len(front) /\ f[i].what = front[i]
             /\ ~ i <= Len(front) => /\ f[i].what = "own" /\ f[i].of = v
                                      /\ f[i].n = i - Len(front)
    BY ComposedLines
  <2> QED
    BY <1>1, <1>3, <2>1
<1>6. ASSUME NEW i \in 1 .. n
      PROVE  /\ out[i] \in Lines /\ out[i].marks = <<>> /\ out[i].what = f[i].what
             /\ out[i].of = f[i].of /\ out[i].n = f[i].n /\ out[i].filled \in {0, recorded[w] + 1}
  <2>1. out[i] = FormatLine(v, w, f[i]) /\ out[i] # Failure
    BY <1>5 DEF FormattedBy
  <2>2. f[i] \in Lines /\ f[i].filled = 0
    BY <1>5
  <2>3. /\ FormatLine(v, w, f[i]) \in Lines /\ FormatLine(v, w, f[i]).marks = <<>>
        /\ FormatLine(v, w, f[i]).what = f[i].what /\ FormatLine(v, w, f[i]).of = f[i].of
        /\ FormatLine(v, w, f[i]).n = f[i].n
        /\ FormatLine(v, w, f[i]).filled \in {f[i].filled, recorded[w] + 1}
    BY <2>1, <2>2, FormatLineIs
  <2> QED
    BY <2>1, <2>2, <2>3
<1>7. out \in [1 .. n -> Lines]
  <2>1. DOMAIN out = 1 .. n /\ out = [i \in 1 .. n |-> out[i]]
    BY <1>5 DEF FormattedBy
  <2> QED
    BY <1>6, <2>1
<1>8. out \in Seq(Lines) /\ Len(out) = n
  BY <1>4, <1>7, SequenceInto
<1>9. PICK a, h : a = Line("header") /\ h = <<a>>
  OBVIOUS
<1>10. a \in Lines /\ a.what = "header" /\ a.marks = <<>> /\ a.filled = 0
  BY <1>9, LineIs DEF FrontWords
<1>11. h \in Seq(Lines) /\ Len(h) = 1 /\ h[1] = a
  BY <1>9, <1>10
<1>13. /\ h \o out \in Seq(Lines) /\ Len(h \o out) = Len(h) + Len(out)
       /\ \A i \in 1 .. Len(h) + Len(out) : (h \o out)[i] = IF i <= Len(h) THEN h[i] ELSE out[i - Len(h)]
  BY <1>8, <1>11, ConcatProperties
<1>14. g = h \o out
  BY <1>9 DEF HeadedBy
<1>15. PICK N : N = 1 + n
  OBVIOUS
<1>16. /\ g \in Seq(Lines) /\ Len(g) = N
       /\ \A i \in 1 .. N : g[i] = IF i <= 1 THEN h[i] ELSE out[i - 1]
  BY <1>8, <1>11, <1>13, <1>14, <1>15
<1>17. DOMAIN g = 1 .. N
  BY <1>16, LenProperties
<1>18. PICK longer \in HeadedFronts :
         /\ Len(longer) = k + 1 /\ longer[1] = "header"
         /\ \A i \in 1 .. k : longer[i + 1] = front[i]
  BY <1>1, WithHeader
<1>19. ASSUME NEW i \in 1 .. N
       PROVE  /\ g[i].marks = <<>> /\ g[i].filled \in {0, recorded[w] + 1}
              /\ IF i <= k + 1 THEN g[i].what = longer[i]
                 ELSE g[i].what = "own" /\ g[i].of = v /\ g[i].n = i - (k + 1)
  <2>1. CASE i = 1
    <3>1. g[i] = a /\ i <= k + 1
      BY <1>2, <1>11, <1>16, <2>1
    <3> QED
      BY <1>10, <1>18, <2>1, <3>1
  <2>2. CASE i # 1
    <3>1. i - 1 \in 1 .. n /\ ~ i <= 1
      BY <1>4, <1>15, <2>2
    <3>2. PICK j : j = i - 1
      OBVIOUS
    <3>3. j \in 1 .. n /\ g[i] = out[j] /\ j + 1 = i /\ (i <= k + 1 <=> j <= k) /\ j - k = i - (k + 1)
      BY <1>2, <1>16, <3>1, <3>2
    <3>4. /\ g[i].marks = <<>> /\ g[i].filled \in {0, recorded[w] + 1}
          /\ g[i].what = f[j].what /\ g[i].of = f[j].of /\ g[i].n = f[j].n
      BY <1>6, <3>3
    <3>5. CASE j <= k
      <4>1. j \in 1 .. k /\ f[j].what = front[j]
        BY <1>5, <3>3, <3>5
      <4>2. longer[i] = front[j]
        BY <1>18, <3>3, <4>1
      <4> QED
        BY <3>3, <3>4, <3>5, <4>1, <4>2
    <3>6. CASE ~ j <= k
      <4>1. f[j].what = "own" /\ f[j].of = v /\ f[j].n = j - k
        BY <1>5, <3>3, <3>6
      <4> QED
        BY <3>3, <3>4, <3>6, <4>1
    <3> QED
      BY <3>5, <3>6
  <2> QED
    BY <2>1, <2>2
<1>20. (k + 1) + m = N
  BY <1>2, <1>3, <1>15
<1>21. FilledIn(g, v, longer)
  BY <1>1, <1>16, <1>17, <1>18, <1>19, <1>20 DEF FilledIn
<1>22. \A i \in DOMAIN g : g[i].filled \in {0, recorded[w] + 1}
  BY <1>17, <1>19
<1> QED
  BY <1>16, <1>18, <1>21, <1>22

(* Setting the default user data writes the file anew.                     *)
LEMMA DefaultKept ==
  ASSUME UdInv, NEW v \in UserVdu, SetDefaultUserdata(v)
  PROVE  UdInv'
<1>1. /\ udAt.pc = "next" /\ v \notin DOMAIN bootedWith
      /\ dataFile' = DefaultUserdata(v) /\ udAt' = [vdu |-> v, pc |-> "written"]
      /\ cfgEngine' = cfgEngine /\ carded' = carded /\ recorded' = recorded
      /\ rowThere' = rowThere /\ bootedWith' = bootedWith
  BY DEF SetDefaultUserdata
<1>2. udAt'.vdu = v /\ udAt'.pc = "written"
  BY <1>1
<1>3. UdTypeOK /\ IndexForeign /\ FileSoFar
  BY UdInvIs
<1>4. /\ DefaultUserdata(v) \in Seq(Lines)
      /\ \E front \in DefaultFronts : Composed(DefaultUserdata(v), v, front)
  BY <1>3, DefaultComposed DEF UdTypeOK
<1>5. PICK f : f = DefaultUserdata(v)
  OBVIOUS
<1>6. dataFile' = f /\ f \in Seq(Lines) /\ \E front \in DefaultFronts : Composed(f, v, front)
  BY <1>1, <1>4, <1>5
<1>7. UdTypeOK'
  BY <1>1, <1>2, <1>3, <1>6 DEF UdTypeOK
<1>8. IndexForeign'
  BY <1>1, <1>3 DEF IndexForeign, IndexFrom
<1>9. FailsForMark'
  BY <1>2 DEF FailsForMark
<1>10. FileSoFar'
  <2>1. DOMAIN bootedWith' \subseteq UserVdu /\ DOMAIN recorded' = UserVdu
        /\ \A w \in DOMAIN bootedWith' : \E front \in HeadedFronts : FilledIn(bootedWith'[w], w, front)
    BY <1>1, <1>3 DEF FileSoFar
  <2>2. udAt'.vdu \in UserVdu \ DOMAIN bootedWith'
    BY <1>1, <1>2
  <2>3. \E front \in DefaultFronts : Composed(dataFile', udAt'.vdu, front)
    BY <1>2, <1>6
  <2> QED
    BY <1>2, <2>1, <2>2, <2>3 DEF FileSoFar
<1> QED
  BY <1>7, <1>8, <1>9, <1>10, UdInvIsThen

(* The route is put in only for a VDU with a card besides that for         *)
(* management.                                                             *)
LEMMA RouteKept ==
  ASSUME UdInv, SetDefaultRoute
  PROVE  UdInv'
<1>1. PICK v : v = udAt.vdu
  OBVIOUS
<1>2. /\ udAt.pc = "written" /\ udAt' = [udAt EXCEPT !.pc = "routed"]
      /\ dataFile' = IF v \in carded THEN WithRouteLines(dataFile) ELSE dataFile
      /\ cfgEngine' = cfgEngine /\ carded' = carded /\ recorded' = recorded
      /\ rowThere' = rowThere /\ bootedWith' = bootedWith
  BY <1>1 DEF SetDefaultRoute
<1>3. UdTypeOK /\ IndexForeign /\ FileSoFar
  BY UdInvIs
<1>4. udAt'.vdu = v /\ udAt'.pc = "routed"
  <2>1. udAt = [vdu |-> udAt.vdu, pc |-> udAt.pc]
    BY <1>3 DEF UdTypeOK
  <2> QED
    BY <1>1, <1>2, <2>1
<1>5. v \in UserVdu \ DOMAIN bootedWith
  BY <1>1, <1>2, <1>3 DEF FileSoFar
<1>6. PICK f : f = dataFile
  OBVIOUS
<1>7. f \in Seq(Lines) /\ \E front \in DefaultFronts : Composed(f, v, front)
  BY <1>1, <1>2, <1>3, <1>6 DEF UdTypeOK, FileSoFar
<1>8. PICK g : g = dataFile'
  OBVIOUS
<1>9. g \in Seq(Lines) /\ \E front \in DefaultFronts \cup RoutedFronts : Composed(g, v, front)
  <2>1. CASE v \in carded
    <3>1. g = WithRouteLines(f)
      BY <1>2, <1>6, <1>8, <2>1
    <3> QED
      BY <1>5, <1>7, <3>1, RouteComposed
  <2>2. CASE v \notin carded
    <3>1. g = f
      BY <1>2, <1>6, <1>8, <2>2
    <3> QED
      BY <1>7, <3>1
  <2> QED
    BY <2>1, <2>2
<1>10. UdTypeOK'
  BY <1>2, <1>3, <1>4, <1>5, <1>8, <1>9 DEF UdTypeOK
<1>11. IndexForeign'
  BY <1>2, <1>3 DEF IndexForeign, IndexFrom
<1>12. FailsForMark'
  BY <1>4 DEF FailsForMark
<1>13. FileSoFar'
  <2>1. DOMAIN bootedWith' \subseteq UserVdu /\ DOMAIN recorded' = UserVdu
        /\ \A w \in DOMAIN bootedWith' : \E front \in HeadedFronts : FilledIn(bootedWith'[w], w, front)
    BY <1>2, <1>3 DEF FileSoFar
  <2>2. udAt'.vdu \in UserVdu \ DOMAIN bootedWith'
    BY <1>2, <1>4, <1>5
  <2>3. \E front \in DefaultFronts \cup RoutedFronts : Composed(dataFile', udAt'.vdu, front)
    BY <1>4, <1>8, <1>9
  <2> QED
    BY <1>4, <2>1, <2>2, <2>3 DEF FileSoFar
<1> QED
  BY <1>10, <1>11, <1>12, <1>13, UdInvIsThen

(* Formatting, when no line fails.                                         *)
LEMMA FormatDoneKept ==
  ASSUME UdInv, udAt.pc = "routed", NEW w \in WithinName[udAt.vdu],
         NEW out, out = [i \in DOMAIN dataFile |-> FormatLine(udAt.vdu, w, dataFile[i])],
         Failure \notin Range(out), udAt' = [udAt EXCEPT !.pc = "formatted"],
         dataFile' = <<Line("header")>> \o out,
         UNCHANGED <<cfgEngine, carded, recorded, rowThere, bootedWith>>
  PROVE  UdInv'
<1>1. PICK v, f : v = udAt.vdu /\ f = dataFile
  OBVIOUS
<1>2. UdTypeOK /\ IndexForeign /\ FileSoFar
  BY UdInvIs
<1>3. /\ cfgEngine' = cfgEngine /\ carded' = carded /\ recorded' = recorded
      /\ rowThere' = rowThere /\ bootedWith' = bootedWith
  OBVIOUS
<1>4. udAt'.vdu = v /\ udAt'.pc = "formatted"
  <2>1. udAt = [vdu |-> udAt.vdu, pc |-> udAt.pc]
    BY <1>2 DEF UdTypeOK
  <2> QED
    BY <1>1, <2>1
<1>5. v \in UserVdu \ DOMAIN bootedWith
  BY <1>1, <1>2 DEF FileSoFar
<1>6. PICK front \in DefaultFronts \cup RoutedFronts : Composed(f, v, front)
  BY <1>1, <1>2 DEF FileSoFar
<1>7. w \in WithinName[v] /\ w \in UserVdu /\ recorded[w] \in 0 .. InstancesOf[w]
      /\ InstancesOf[w] \in Nat
  BY <1>1, <1>2, <1>5, UserDataAssumption DEF UdTypeOK
<1>8. recorded[w] \in Nat /\ (recorded[w] > 0 => w \in DOMAIN bootedWith)
  <2>1. recorded[w] > 0 => w \in DOMAIN bootedWith
    BY <1>2, <1>7 DEF UdTypeOK
  <2>2. recorded[w] \in Nat
    BY <1>7
  <2> QED
    BY <2>1, <2>2
<1>9. out = [i \in DOMAIN f |-> FormatLine(v, w, f[i])]
  BY <1>1
<1>10. \A i \in DOMAIN f : out[i] # Failure
  <2> SUFFICES ASSUME NEW i \in DOMAIN f, out[i] = Failure PROVE FALSE
    OBVIOUS
  <2>1. i \in DOMAIN out
    BY <1>9
  <2>2. Failure \in Range(out)
    BY <2>1 DEF Range
  <2> QED
    BY <2>2
<1>11. PICK g : g = <<Line("header")>> \o out
  OBVIOUS
<1>12. /\ \E longer \in HeadedFronts : FilledIn(g, v, longer)
       /\ g \in Seq(Lines)
       /\ \A i \in DOMAIN g : g[i].filled \in {0, recorded[w] + 1}
  <2>1. v \in UserVdu /\ w \in UserVdu /\ recorded[w] \in Nat
    BY <1>5, <1>7, <1>8
  <2>2. FormattedBy(out, f, v, w)
    BY <1>9 DEF FormattedBy
  <2>3. HeadedBy(g, out)
    BY <1>11 DEF HeadedBy
  <2>4. front \in DefaultFronts \cup RoutedFronts /\ Composed(f, v, front)
    BY <1>6
  <2>5. g \in Seq(Lines)
    BY <1>10, <2>1, <2>2, <2>3, <2>4, FormattedFile
  <2>6. \E longer \in HeadedFronts : FilledIn(g, v, longer)
    BY <1>10, <2>1, <2>2, <2>3, <2>4, FormattedFile
  <2>7. \A i \in DOMAIN g : g[i].filled \in {0, recorded[w] + 1}
    BY <1>10, <2>1, <2>2, <2>3, <2>4, FormattedFile
  <2> QED
    BY <2>5, <2>6, <2>7
<1>13. dataFile' = g
  BY <1>11
<1>14. IndexFrom(g, v)
  <2> SUFFICES ASSUME NEW i \in DOMAIN g, g[i].filled > 1
               PROVE  \E x \in WithinName[v] \ {v} : recorded[x] = g[i].filled - 1
    BY DEF IndexFrom
  <2>1. g[i].filled = recorded[w] + 1
    <3>1. g[i].filled \in {0, recorded[w] + 1}
      BY <1>12
    <3> QED
      BY <3>1
  <2>2. recorded[w] > 0 /\ recorded[w] = g[i].filled - 1
    BY <1>8, <2>1
  <2>3. w # v
    BY <1>5, <1>8, <2>2
  <2> QED
    BY <1>7, <2>2, <2>3
<1>15. UdTypeOK'
  BY <1>2, <1>3, <1>4, <1>5, <1>12, <1>13 DEF UdTypeOK
<1>16. IndexForeign'
  BY <1>2, <1>3 DEF IndexForeign, IndexFrom
<1>17. FailsForMark'
  BY <1>4 DEF FailsForMark
<1>18. FileSoFar'
  <2>1. DOMAIN bootedWith' \subseteq UserVdu /\ DOMAIN recorded' = UserVdu
        /\ \A x \in DOMAIN bootedWith' : \E longer \in HeadedFronts : FilledIn(bootedWith'[x], x, longer)
    BY <1>2, <1>3 DEF FileSoFar
  <2>2. udAt'.vdu \in UserVdu \ DOMAIN bootedWith'
    BY <1>3, <1>4, <1>5
  <2>3. \E longer \in HeadedFronts : FilledIn(dataFile', udAt'.vdu, longer)
    BY <1>4, <1>12, <1>13
  <2>4. IndexFrom(dataFile, udAt.vdu)'
    BY <1>3, <1>4, <1>13, <1>14 DEF IndexFrom
  <2> QED
    BY <1>4, <2>1, <2>2, <2>3, <2>4 DEF FileSoFar
<1> QED
  BY <1>15, <1>16, <1>17, <1>18, UdInvIsThen

(* Formatting, when a line fails: one of the VDU's commands, for its marks.*)
LEMMA FormatFailsKept ==
  ASSUME UdInv, udAt.pc = "routed", NEW w \in WithinName[udAt.vdu],
         NEW out, out = [i \in DOMAIN dataFile |-> FormatLine(udAt.vdu, w, dataFile[i])],
         Failure \in Range(out), udAt' = [udAt EXCEPT !.pc = "failed"],
         UNCHANGED <<cfgEngine, carded, recorded, rowThere, bootedWith, dataFile>>
  PROVE  UdInv'
<1>1. PICK v, f : v = udAt.vdu /\ f = dataFile
  OBVIOUS
<1>2. UdTypeOK /\ IndexForeign /\ FileSoFar
  BY UdInvIs
<1>3. /\ cfgEngine' = cfgEngine /\ carded' = carded /\ recorded' = recorded
      /\ rowThere' = rowThere /\ bootedWith' = bootedWith /\ dataFile' = dataFile
  OBVIOUS
<1>4. udAt'.vdu = v /\ udAt'.pc = "failed"
  <2>1. udAt = [vdu |-> udAt.vdu, pc |-> udAt.pc]
    BY <1>2 DEF UdTypeOK
  <2> QED
    BY <1>1, <2>1
<1>5. v \in UserVdu
  BY <1>1, <1>2 DEF FileSoFar
<1>6. PICK front \in DefaultFronts \cup RoutedFronts : Composed(f, v, front)
  BY <1>1, <1>2 DEF FileSoFar
<1>7. w \in UserVdu /\ recorded[w] \in 0 .. InstancesOf[w] /\ InstancesOf[w] \in Nat
  BY <1>1, <1>2, <1>5, UserDataAssumption DEF UdTypeOK
<1>8. recorded[w] \in Nat
  BY <1>7
<1>9. PICK i \in DOMAIN f : FormatLine(v, w, f[i]) = Failure
  <2>1. PICK i \in DOMAIN out : out[i] = Failure
    BY DEF Range
  <2> QED
    BY <1>1, <2>1
<1>10. f[i] \in Lines
  BY <1>5, <1>6, <1>9, ComposedLines
<1>11. /\ f[i].marks # <<>>
       /\ rowThere => \A m \in MarksOf(f[i]) :
            MarksOf(f[i]) = {m} => m.ask # "index" \/ m.of \notin WithinName[v]
  <2>1. FormatLine(v, w, f[i]) \notin Lines
    BY <1>9, FailureIs
  <2> QED
    BY <1>8, <1>10, <2>1, FormatLineIs
<1>12. PICK n \in 1 .. Len(OwnCommands[v]) : f[i] = OwnLine(v, n)
  <2>1. ~ i <= Len(front)
    BY <1>5, <1>6, <1>9, <1>11, ComposedLines
  <2>2. /\ i - Len(front) \in 1 .. Len(OwnCommands[v])
        /\ f[i] = OwnLine(v, i - Len(front))
    BY <1>5, <1>6, <1>9, <2>1, ComposedLines
  <2> QED
    BY <2>2
<1>13. rowThere => \E k \in DOMAIN OwnCommands[v] :
         LET marks == MarksOf(OwnLine(v, k))
         IN Cardinality(marks) > 1 \/ \E m \in marks : m.ask # "index" \/ m.of \notin WithinName[v]
  BY <1>5, <1>11, <1>12, FailingLine
<1>14. UdTypeOK'
  BY <1>2, <1>3, <1>4, <1>5 DEF UdTypeOK
<1>15. IndexForeign'
  BY <1>2, <1>3 DEF IndexForeign, IndexFrom
<1>16. FailsForMark'
  <2>1. rowThere' => \E k \in DOMAIN OwnCommands[udAt'.vdu] :
          LET marks == MarksOf(OwnLine(udAt'.vdu, k))
          IN Cardinality(marks) > 1 \/ \E m \in marks : m.ask # "index" \/ m.of \notin WithinName[udAt'.vdu]
    BY <1>3, <1>4, <1>13
  <2> QED
    BY <2>1 DEF FailsForMark
<1>17. FileSoFar'
  BY <1>2, <1>3, <1>4 DEF FileSoFar
<1> QED
  BY <1>14, <1>15, <1>16, <1>17, UdInvIsThen

LEMMA FormatKept ==
  ASSUME UdInv, FormatUserdata
  PROVE  UdInv'
<1>1. /\ udAt.pc = "routed"
      /\ UNCHANGED <<cfgEngine, carded, recorded, rowThere, bootedWith>>
  BY DEF FormatUserdata
<1>2. PICK w \in WithinName[udAt.vdu] :
        LET out == [i \in DOMAIN dataFile |-> FormatLine(udAt.vdu, w, dataFile[i])]
        IN IF Failure \in Range(out)
             THEN udAt' = [udAt EXCEPT !.pc = "failed"] /\ UNCHANGED dataFile
             ELSE /\ udAt' = [udAt EXCEPT !.pc = "formatted"]
                  /\ dataFile' = <<Line("header")>> \o out
  BY DEF FormatUserdata, Failure
<1>3. PICK out : out = [i \in DOMAIN dataFile |-> FormatLine(udAt.vdu, w, dataFile[i])]
  OBVIOUS
<1>4. IF Failure \in Range(out)
        THEN udAt' = [udAt EXCEPT !.pc = "failed"] /\ UNCHANGED dataFile
        ELSE /\ udAt' = [udAt EXCEPT !.pc = "formatted"]
             /\ dataFile' = <<Line("header")>> \o out
  BY <1>2, <1>3
<1>5. CASE Failure \in Range(out)
  BY <1>1, <1>3, <1>4, <1>5, FormatFailsKept
<1>6. CASE Failure \notin Range(out)
  BY <1>1, <1>3, <1>4, <1>6, FormatDoneKept
<1> QED
  BY <1>5, <1>6

(* A launch: the machines get the file, the row gets the machines.         *)
LEMMA BootFileKept ==
  ASSUME UdInv, BootWithFile
  PROVE  UdInv'
<1>1. PICK v : v = udAt.vdu
  OBVIOUS
<1>2. PICK c : c = Recorded(v)
  OBVIOUS
<1>3. /\ udAt.pc = "formatted"
      /\ udAt' = IF rowThere THEN [vdu |-> "", pc |-> "next"] ELSE [udAt EXCEPT !.pc = "failed"]
      /\ bootedWith' = [w \in DOMAIN bootedWith \cup {v} |-> IF w = v THEN dataFile ELSE bootedWith[w]]
      /\ recorded' = [recorded EXCEPT ![v] = c]
      /\ cfgEngine' = cfgEngine /\ carded' = carded /\ dataFile' = dataFile /\ rowThere' = rowThere
  BY <1>1, <1>2 DEF BootWithFile
<1>4. UdTypeOK /\ IndexForeign /\ FileSoFar
  BY UdInvIs
<1>5. /\ v \in UserVdu /\ v \notin DOMAIN bootedWith /\ IndexFrom(dataFile, v)
      /\ \E front \in HeadedFronts : FilledIn(dataFile, v, front)
      /\ DOMAIN bootedWith \subseteq UserVdu /\ DOMAIN recorded = UserVdu
      /\ \A w \in DOMAIN bootedWith : \E front \in HeadedFronts : FilledIn(bootedWith[w], w, front)
  BY <1>1, <1>3, <1>4 DEF FileSoFar
<1>6. udAt'.vdu \in UserVdu \cup {""} /\ udAt'.pc \in {"next", "failed"}
      /\ (udAt'.pc = "failed" => ~ rowThere')
  <2>1. udAt = [vdu |-> v, pc |-> udAt.pc]
    BY <1>1, <1>4 DEF UdTypeOK
  <2>2. CASE rowThere
    BY <1>3, <2>2
  <2>3. CASE ~ rowThere
    <3>1. udAt' = [udAt EXCEPT !.pc = "failed"]
      BY <1>3, <2>3
    <3>2. udAt'.vdu = v /\ udAt'.pc = "failed"
      BY <2>1, <3>1
    <3> QED
      BY <1>3, <1>5, <2>3, <3>2
  <2> QED
    BY <2>2, <2>3
<1>7. /\ DOMAIN bootedWith' = DOMAIN bootedWith \cup {v} /\ bootedWith'[v] = dataFile
      /\ \A w \in DOMAIN bootedWith : bootedWith'[w] = bootedWith[w]
  BY <1>3, <1>5
<1>8. /\ DOMAIN recorded' = UserVdu /\ recorded'[v] = c
      /\ \A w \in UserVdu : w # v => recorded'[w] = recorded[w]
  BY <1>3, <1>5
<1>9. \A w \in UserVdu : InstancesOf[w] \in Nat /\ recorded[w] \in 0 .. InstancesOf[w]
        /\ (recorded[w] > 0 => w \in DOMAIN bootedWith)
  BY <1>4, UserDataAssumption DEF UdTypeOK
<1>10. c \in 0 .. InstancesOf[v]
  <2>1. c = InstancesOf[v] \/ c = recorded[v]
    BY <1>2 DEF Recorded
  <2> QED
    BY <1>5, <1>9, <2>1
<1>11. \A w \in UserVdu : recorded'[w] \in 0 .. InstancesOf[w] /\ (recorded'[w] > 0 => w \in DOMAIN bootedWith')
  <2> SUFFICES ASSUME NEW w \in UserVdu
               PROVE  recorded'[w] \in 0 .. InstancesOf[w] /\ (recorded'[w] > 0 => w \in DOMAIN bootedWith')
    OBVIOUS
  <2>1. CASE w = v
    BY <1>7, <1>8, <1>10, <2>1
  <2>2. CASE w # v
    BY <1>7, <1>8, <1>9, <2>2
  <2> QED
    BY <2>1, <2>2
<1>12. UdTypeOK'
  BY <1>3, <1>4, <1>6, <1>11 DEF UdTypeOK
<1>13. ASSUME NEW f \in Seq(Lines), NEW x \in UserVdu, IndexFrom(f, x)
       PROVE  \A i \in DOMAIN f : f[i].filled > 1 => \E w \in WithinName[x] \ {x} : recorded'[w] = f[i].filled - 1
  <2> SUFFICES ASSUME NEW i \in DOMAIN f, f[i].filled > 1
               PROVE  \E w \in WithinName[x] \ {x} : recorded'[w] = f[i].filled - 1
    OBVIOUS
  <2>1. PICK w \in WithinName[x] \ {x} : recorded[w] = f[i].filled - 1
    BY <1>13 DEF IndexFrom
  <2>2. w \in UserVdu
    BY UserDataAssumption
  <2>3. f[i].filled \in Nat
    <3>1. i \in 1 .. Len(f)
      BY LenProperties
    <3>2. f[i] \in Lines
      BY <3>1, ElementOfSeq
    <3> QED
      BY <3>2 DEF Lines
  <2>4. recorded[w] > 0
    BY <2>1, <2>3
  <2>5. w # v
    BY <1>5, <1>9, <2>2, <2>4
  <2> QED
    BY <1>8, <2>1, <2>2, <2>5
<1>14. IndexForeign'
  <2> SUFFICES ASSUME NEW x \in DOMAIN bootedWith'
               PROVE  \A i \in DOMAIN bootedWith'[x] : bootedWith'[x][i].filled > 1 =>
                        \E w \in WithinName[x] \ {x} : recorded'[w] = bootedWith'[x][i].filled - 1
    BY DEF IndexForeign, IndexFrom
  <2>1. PICK f : f = bootedWith'[x]
    OBVIOUS
  <2>2. f \in Seq(Lines) /\ x \in UserVdu /\ IndexFrom(f, x)
    <3>1. CASE x = v
      <4>1. f = dataFile
        BY <1>7, <2>1, <3>1
      <4> QED
        BY <1>4, <1>5, <3>1, <4>1 DEF UdTypeOK
    <3>2. CASE x # v
      <4>1. x \in DOMAIN bootedWith /\ f = bootedWith[x]
        BY <1>7, <2>1, <3>2
      <4>2. f \in Seq(Lines)
        BY <1>5, <4>1 DEF FilledIn
      <4> QED
        BY <1>4, <1>5, <4>1, <4>2 DEF IndexForeign
    <3> QED
      BY <3>1, <3>2
  <2>3. \A i \in DOMAIN f : f[i].filled > 1 => \E w \in WithinName[x] \ {x} : recorded'[w] = f[i].filled - 1
    BY <1>13, <2>2
  <2> QED
    BY <2>1, <2>3
<1>15. FailsForMark'
  BY <1>6 DEF FailsForMark
<1>16. FileSoFar'
  <2>1. DOMAIN bootedWith' \subseteq UserVdu
    BY <1>5, <1>7
  <2>2. \A w \in DOMAIN bootedWith' : \E front \in HeadedFronts : FilledIn(bootedWith'[w], w, front)
    BY <1>5, <1>7
  <2> QED
    BY <1>6, <1>8, <2>1, <2>2 DEF FileSoFar
<1> QED
  BY <1>12, <1>14, <1>15, <1>16, UdInvIsThen

LEMMA RowGoneKept ==
  ASSUME UdInv, RowOfServiceGone
  PROVE  UdInv'
<1>1. /\ rowThere' = FALSE /\ cfgEngine' = cfgEngine /\ carded' = carded /\ dataFile' = dataFile
      /\ udAt' = udAt /\ recorded' = recorded /\ bootedWith' = bootedWith
  BY DEF RowOfServiceGone
<1>2. UdTypeOK /\ IndexForeign /\ FileSoFar
  BY UdInvIs
<1>3. UdTypeOK'
  BY <1>1, <1>2 DEF UdTypeOK
<1>4. IndexForeign'
  BY <1>1, <1>2 DEF IndexForeign, IndexFrom
<1>5. FailsForMark'
  BY <1>1 DEF FailsForMark
<1>6. FileSoFar'
  BY <1>1, <1>2 DEF FileSoFar, IndexFrom
<1> QED
  BY <1>3, <1>4, <1>5, <1>6, UdInvIsThen

LEMMA UdKept ==
  ASSUME UdInv, [UdNext]_udVars
  PROVE  UdInv'
<1>1. CASE UNCHANGED udVars
  <2>1. /\ rowThere' = rowThere /\ cfgEngine' = cfgEngine /\ carded' = carded /\ dataFile' = dataFile
        /\ udAt' = udAt /\ recorded' = recorded /\ bootedWith' = bootedWith
    BY <1>1 DEF udVars
  <2>2. UdTypeOK /\ IndexForeign /\ FileSoFar /\ FailsForMark
    BY UdInvIs
  <2>3. UdTypeOK'
    BY <2>1, <2>2 DEF UdTypeOK
  <2>4. IndexForeign'
    BY <2>1, <2>2 DEF IndexForeign, IndexFrom
  <2>5. FailsForMark'
    BY <2>1, <2>2 DEF FailsForMark
  <2>6. FileSoFar'
    BY <2>1, <2>2 DEF FileSoFar, IndexFrom
  <2> QED
    BY <2>3, <2>4, <2>5, <2>6, UdInvIsThen
<1>2. CASE \E v \in UserVdu : SetDefaultUserdata(v)
  BY <1>2, DefaultKept
<1>3. CASE SetDefaultRoute
  BY <1>3, RouteKept
<1>4. CASE FormatUserdata
  BY <1>4, FormatKept
<1>5. CASE BootWithFile
  BY <1>5, BootFileKept
<1>6. CASE RowOfServiceGone
  BY <1>6, RowGoneKept
<1> QED
  BY <1>1, <1>2, <1>3, <1>4, <1>5, <1>6 DEF UdNext

(***************************************************************************)
(* ServiceTables: the rows of a service's VDUs                             *)
(***************************************************************************)

LEMMA MembersAre ==
  ASSUME order \in Seq(VduKey)
  PROVE  /\ members \subseteq VduKey
         /\ \A i \in DOMAIN order : order[i] \in members
         /\ \A k \in members : \E i \in DOMAIN order : order[i] = k
  <1>1. members = {order[i] : i \in DOMAIN order}
    BY DEF members, ToSet
  <1>2. \A i \in DOMAIN order : order[i] \in VduKey
    OBVIOUS
  <1>. QED
    BY <1>1, <1>2

LEMMA KeysAre ==
  ASSUME NEW k \in VduKey
  PROVE  k = <<k[1], k[2]>> /\ k[2] \in VduName /\ KeyContains(k, k[2]) /\ k # NoVdu
  <1>1. k = <<k[1], k[2]>> /\ k[2] \in VduName
    BY DEF VduKey
  <1>2. <<k[2], k[2]>> \in Inside /\ k # NoVdu
    BY <1>1, RowsAssumption
  <1>. QED
    BY <1>1, <1>2 DEF KeyContains

(* Where each key has one row, a name matches the one key it is of.        *)
LEMMA OneMatch ==
  ASSUME order \in Seq(VduKey), IsInjective(order), \A k \in members : RowsOf(k) = {k},
         NEW d \in members
  PROVE  FirstMatch(d[2]) = d /\ LastMatch(d[2]) = d
  <1>1. PICK n \in DOMAIN order : order[n] = d
    BY MembersAre
  <1>2. n \in Matches(d[2])
    BY <1>1, MembersAre, KeysAre DEF Matches
  <1>3. \A i \in Matches(d[2]) : i = n
    <2>. SUFFICES ASSUME NEW i \in Matches(d[2]) PROVE i = n
      OBVIOUS
    <2>1. i \in DOMAIN order /\ KeyContains(order[i], d[2]) /\ order[i] \in members
      BY MembersAre DEF Matches
    <2>2. d \in RowsOf(order[i])
      BY <2>1 DEF RowsOf
    <2>3. order[i] = order[n]
      BY <1>1, <2>1, <2>2
    <2>. QED
      BY <2>1, <2>3, <1>1 DEF IsInjective
  <1>4. n \in Nat
    BY <1>1
  <1>5. (CHOOSE i \in Matches(d[2]) : \A j \in Matches(d[2]) : i <= j) = n
    BY <1>2, <1>3, <1>4
  <1>6. (CHOOSE i \in Matches(d[2]) : \A j \in Matches(d[2]) : i >= j) = n
    BY <1>2, <1>3, <1>4
  <1>. QED
    BY <1>1, <1>5, <1>6 DEF FirstMatch, LastMatch

RowsBase == RowsTypeOK /\ IsInjective(order) /\ RowsAlone /\ RowsTrue /\ LookupsTrue

LEMMA NamesFollow == RowsBase => NamesApart
  <1>. SUFFICES ASSUME RowsBase, rowsPc \in {"events", "entered"},
                       NEW j \in members, NEW k \in members, j[2] = k[2]
                PROVE  j = k
    BY DEF NamesApart
  <1>1. KeyContains(k, j[2])
    BY MembersAre, KeysAre DEF RowsBase, RowsTypeOK
  <1>2. j \in RowsOf(k) /\ RowsOf(k) = {k}
    BY <1>1 DEF RowsBase, RowsAlone, RowsOf
  <1>. QED
    BY <1>2

LEMMA RowsStart == RowsInit => RowsInv
  <1>. SUFFICES ASSUME RowsInit PROVE RowsInv
    OBVIOUS
  <1>1. order \in Seq(VduKey) /\ IsInjective(order)
    BY RowsAssumption DEF RowsInit
  <1>2. RowsTypeOK
    <2>1. /\ userdata \in [members -> VduKey \cup {NoVdu}]
          /\ events \in [members -> VduKey \cup {NoVdu}]
      BY DEF RowsInit
    <2>. QED
      BY <1>1, <2>1 DEF RowsTypeOK, RowsInit
  <1>3. RowsAlone /\ RowsTrue /\ LookupsTrue
    BY DEF RowsInit, RowsAlone, RowsTrue, LookupsTrue
  <1>4. RowsBase
    BY <1>1, <1>2, <1>3 DEF RowsBase
  <1>. QED
    BY <1>4, NamesFollow DEF RowsBase, RowsInv

LEMMA RowsKept == RowsInv /\ [RowsNext]_rowsVars => RowsInv'
  <1>. SUFFICES ASSUME RowsBase, [RowsNext]_rowsVars PROVE RowsBase'
    <2>1. RowsBase' => NamesApart'
      BY NamesFollow, PTL
    <2>. QED
      BY <2>1 DEF RowsInv, RowsBase
  <1>1. /\ order \in Seq(VduKey) /\ IsInjective(order) /\ scripts \subseteq members
        /\ rowsPc \in {"populate", "events", "failed", "entered"}
        /\ userdata \in [members -> VduKey \cup {NoVdu}]
        /\ events \in [members -> VduKey \cup {NoVdu}]
        /\ lookups \subseteq members \X members /\ members \subseteq VduKey
    BY MembersAre DEF RowsBase, RowsTypeOK
  <1>2. order' = order => members' = members
                          /\ \A k : RowsOf(k)' = RowsOf(k)
    BY DEF members, RowsOf, KeyContains
  <1>3. ASSUME Populate PROVE RowsBase'
    <2>1. /\ \A k \in members : RowsOf(k) = {k}
          /\ userdata' = [k \in members |-> k] /\ rowsPc' = "events"
          /\ UNCHANGED <<order, scripts, events, lookups>>
      BY <1>3 DEF Populate
    <2>2. userdata' \in [members -> VduKey \cup {NoVdu}]
      BY <1>1, <2>1
    <2>3. RowsTypeOK'
      BY <1>1, <1>2, <2>1, <2>2 DEF RowsTypeOK
    <2>4. RowsAlone'
      BY <1>2, <2>1 DEF RowsAlone
    <2>. QED
      BY <1>1, <2>1, <2>3, <2>4 DEF RowsBase, RowsTrue, LookupsTrue
  <1>4. ASSUME PopulateFails PROVE RowsBase'
    <2>1. rowsPc' = "failed" /\ UNCHANGED <<order, scripts, userdata, events, lookups>>
      BY <1>4 DEF PopulateFails
    <2>2. RowsTypeOK'
      BY <1>1, <1>2, <2>1 DEF RowsTypeOK
    <2>. QED
      BY <1>1, <2>1, <2>2 DEF RowsBase, RowsAlone, RowsTrue, LookupsTrue
  <1>5. ASSUME UpdateLfEvents PROVE RowsBase'
    <2>1. PICK f \in [members -> members \cup {NoVdu}] :
            /\ \A k \in members :
                 LET writers == {d \in members : FirstMatch(d[2]) = k}
                 IN IF writers = {} THEN f[k] = NoVdu ELSE f[k] \in writers
            /\ events' = [k \in members |->
                 IF f[k] = NoVdu THEN NoVdu ELSE <<f[k][1], k[2]>>]
      BY <1>5 DEF UpdateLfEvents
    <2>2. /\ rowsPc = "events" /\ rowsPc' = "entered"
          /\ UNCHANGED <<order, scripts, userdata, lookups>>
      BY <1>5 DEF UpdateLfEvents
    <2>3. \A k \in members : RowsOf(k) = {k} /\ userdata[k] = k
      BY <2>2 DEF RowsBase, RowsAlone
    <2>4. \A d \in members : FirstMatch(d[2]) = d
      BY <1>1, <2>3, OneMatch
    <2>5. \A k \in members : f[k] = k
      <3>. SUFFICES ASSUME NEW k \in members PROVE f[k] = k
        OBVIOUS
      <3>1. {d \in members : FirstMatch(d[2]) = k} = {k}
        BY <2>4
      <3>. QED
        BY <2>1, <3>1
    <2>6. \A k \in members : events'[k] = k
      <3>. SUFFICES ASSUME NEW k \in members PROVE events'[k] = k
        OBVIOUS
      <3>1. k # NoVdu /\ k = <<k[1], k[2]>>
        BY <1>1, KeysAre
      <3>. QED
        BY <2>1, <2>5, <3>1
    <2>7. events' \in [members -> VduKey \cup {NoVdu}]
      BY <1>1, <2>1, <2>6
    <2>8. RowsTypeOK'
      BY <1>1, <1>2, <2>2, <2>7 DEF RowsTypeOK
    <2>9. RowsAlone' /\ RowsTrue'
      BY <1>2, <2>2, <2>3, <2>6 DEF RowsAlone, RowsTrue
    <2>. QED
      BY <1>1, <2>2, <2>8, <2>9 DEF RowsBase, LookupsTrue
  <1>6. ASSUME NEW d \in members, GetLfevents(d) \/ GetVduUserdata(d) PROVE RowsBase'
    <2>1. /\ rowsPc = "entered" /\ UNCHANGED <<order, scripts, rowsPc, userdata, events>>
          /\ lookups' = lookups \cup {<<d, LastMatch(d[2])>>}
               \/ lookups' = lookups \cup {<<d, FirstMatch(d[2])>>}
      BY <1>6 DEF GetLfevents, GetVduUserdata
    <2>2. \A k \in members : RowsOf(k) = {k}
      BY <2>1 DEF RowsBase, RowsAlone
    <2>3. lookups' = lookups \cup {<<d, d>>}
      BY <1>1, <2>1, <2>2, OneMatch
    <2>4. RowsTypeOK'
      BY <1>1, <1>2, <2>1, <2>3 DEF RowsTypeOK
    <2>5. LookupsTrue'
      BY <2>3 DEF RowsBase, LookupsTrue
    <2>6. RowsAlone' /\ RowsTrue'
      BY <1>2, <2>1 DEF RowsBase, RowsAlone, RowsTrue
    <2>. QED
      BY <1>1, <2>1, <2>4, <2>5, <2>6 DEF RowsBase
  <1>7. ASSUME UNCHANGED rowsVars PROVE RowsBase'
    <2>1. UNCHANGED <<order, scripts, rowsPc, userdata, events, lookups>>
      BY <1>7 DEF rowsVars
    <2>2. RowsTypeOK'
      BY <1>1, <1>2, <2>1 DEF RowsTypeOK
    <2>3. RowsAlone' /\ RowsTrue' /\ LookupsTrue'
      BY <1>2, <2>1 DEF RowsBase, RowsAlone, RowsTrue, LookupsTrue
    <2>. QED
      BY <1>1, <2>1, <2>2, <2>3 DEF RowsBase
  <1>. QED
    BY <1>3, <1>4, <1>5, <1>6, <1>7 DEF RowsNext


(***************************************************************************)
(* ServiceTables: the tables of services and templates                     *)
(***************************************************************************)

LEMMA ConfigsHave ==
  /\ \A t : \A c \in ConfigsOf(t) : c.template = t
  /\ \A c \in AllConfigs : c.template \in Template /\ c \in ConfigsOf(c.template)
  /\ \A t \in Template : ConfigsOf(t) \subseteq AllConfigs
  <1>1. \A t : \A c \in ConfigsOf(t) : c.template = t
    BY DEF ConfigsOf, ConfigRow
  <1>2. \A c \in AllConfigs : \E t \in Template : c \in ConfigsOf(t)
    BY DEF AllConfigs
  <1>3. \A t \in Template : ConfigsOf(t) \subseteq AllConfigs
    BY DEF AllConfigs
  <1>. QED
    BY <1>1, <1>2, <1>3

(* What is said of templates, and what is said of services.                *)
TemplatesHalf ==
  /\ templateRows \subseteq Template /\ IsFiniteSet(templateRows)
  /\ configRows \subseteq AllConfigs
  /\ upload \in [Template -> {"none", "row", "over", "failed", "removing", "gone"}]
  /\ TemplatesListed /\ ConfiguredWholly

ServiceTypes ==
  /\ serviceRow \in [Service -> [at : {"none", "entered", "removing", "cut", "gone"},
                                 template : Template \cup {NoTemplate}]]
  /\ DOMAIN vduRow \subseteq VduIds /\ vduRow \in [DOMAIN vduRow -> VduRows]
  /\ booted \in [VduIds -> Seq(Machine)]

ServicesHalf ==
  ServiceTypes /\ RowsListed /\ NoOrphans /\ BootedAsDescribed /\ MachinesKept

InfoState == managerInfo.state \in {"none", "error", "given"}

LEMMA TablesHalves == TablesInv <=> TemplatesHalf /\ ServicesHalf /\ InfoState
  BY DEF TablesInv, TablesTypeOK, TemplatesHalf, ServicesHalf, ServiceTypes, InfoState

LEMMA TablesStart == TablesInit => TablesInv
  <1>. SUFFICES ASSUME TablesInit PROVE TemplatesHalf /\ ServicesHalf /\ InfoState
    BY TablesHalves
  <1>1. /\ templateRows = {} /\ configRows = {} /\ upload = [t \in Template |-> "none"]
        /\ serviceRow = [s \in Service |-> [at |-> "none", template |-> NoTemplate]]
        /\ vduRow = << >> /\ booted = [v \in VduIds |-> << >>]
        /\ managerInfo = [state |-> "none", of |-> << >>]
    BY DEF TablesInit
  <1>2. TemplatesHalf
    BY <1>1, FS_EmptySet DEF TemplatesHalf, TemplatesListed, ConfiguredWholly
  <1>3. DOMAIN vduRow = {}
    BY <1>1
  <1>4. ServiceTypes
    <2>1. vduRow \in [DOMAIN vduRow -> VduRows]
      BY <1>1, <1>3
    <2>2. << >> \in Seq(Machine)
      OBVIOUS
    <2>3. booted \in [VduIds -> Seq(Machine)]
      BY <1>1, <2>2
    <2>. QED
      BY <1>1, <1>3, <2>1, <2>3 DEF ServiceTypes
  <1>5. RowsListed
    BY <1>1 DEF RowsListed
  <1>6. NoOrphans /\ BootedAsDescribed /\ MachinesKept
    BY <1>3 DEF NoOrphans, BootedAsDescribed, MachinesKept
  <1>. QED
    BY <1>1, <1>2, <1>4, <1>5, <1>6 DEF ServicesHalf, InfoState

LEMMA TemplatesKept ==
  ASSUME TemplatesHalf, NEW t \in Template,
         \/ PopulateTemplateDetails(t) \/ PopulateVduConfiguration(t)
         \/ DeleteTemplateInfo(t) \/ DeleteTemplateRow(t)
  PROVE  TemplatesHalf'
  <1>. DEFINE Ups == {"none", "row", "over", "failed", "removing", "gone"}
  <1>1. /\ templateRows \subseteq Template /\ IsFiniteSet(templateRows)
        /\ configRows \subseteq AllConfigs /\ upload \in [Template -> Ups]
        /\ templateRows = {u \in Template : upload[u] \in {"row", "over", "failed", "removing"}}
    BY DEF TemplatesHalf, TemplatesListed
  <1>2. /\ \A c \in configRows : c.template \in templateRows
        /\ \A u \in templateRows : \/ {c \in configRows : c.template = u} = ConfigsOf(u)
                                   \/ {c \in configRows : c.template = u} = {} /\ upload[u] # "over"
    BY DEF TemplatesHalf, ConfiguredWholly
  <1>3. ASSUME PopulateTemplateDetails(t) PROVE TemplatesHalf'
    <2>1. /\ upload[t] = "none" /\ templateRows' = templateRows \cup {t}
          /\ upload' = [upload EXCEPT ![t] = "row"] /\ configRows' = configRows
      BY <1>3 DEF PopulateTemplateDetails
    <2>2. IsFiniteSet(templateRows')
      BY <1>1, <2>1, FS_AddElement
    <2>3. upload' \in [Template -> Ups]
      BY <1>1, <2>1
    <2>4. TemplatesListed'
      BY <1>1, <2>1 DEF TemplatesListed
    <2>5. t \notin templateRows
      BY <1>1, <2>1
    <2>6. {c \in configRows : c.template = t} = {}
      BY <1>2, <2>5
    <2>7. ConfiguredWholly'
      BY <1>1, <1>2, <2>1, <2>5, <2>6 DEF ConfiguredWholly
    <2>. QED
      BY <1>1, <2>1, <2>2, <2>3, <2>4, <2>7 DEF TemplatesHalf
  <1>4. ASSUME PopulateVduConfiguration(t) PROVE TemplatesHalf'
    <2>1. upload[t] = "row" /\ templateRows' = templateRows /\ t \in templateRows
      BY <1>1, <1>4 DEF PopulateVduConfiguration
    <2>2. CASE KeysApart(ConfigsOf(t))
      <3>1. /\ configRows' = configRows \cup ConfigsOf(t)
            /\ upload' = [upload EXCEPT ![t] = "over"]
        BY <1>4, <2>2 DEF PopulateVduConfiguration
      <3>2. upload' \in [Template -> Ups]
        BY <1>1, <3>1
      <3>3. TemplatesListed'
        BY <1>1, <2>1, <3>1 DEF TemplatesListed
      <3>4. {c \in configRows' : c.template = t} = ConfigsOf(t)
        BY <1>2, <2>1, <3>1, ConfigsHave
      <3>5. \A u \in templateRows \ {t} :
              {c \in configRows' : c.template = u} = {c \in configRows : c.template = u}
        BY <3>1, ConfigsHave
      <3>6. \A c \in configRows' : c.template \in templateRows
        BY <1>2, <2>1, <3>1, ConfigsHave
      <3>7. ConfiguredWholly'
        BY <1>1, <1>2, <2>1, <3>1, <3>4, <3>5, <3>6 DEF ConfiguredWholly
      <3>8. configRows' \subseteq AllConfigs
        BY <1>1, <3>1, ConfigsHave
      <3>. QED
        BY <1>1, <2>1, <3>2, <3>3, <3>7, <3>8 DEF TemplatesHalf
    <2>3. CASE ~ KeysApart(ConfigsOf(t))
      <3>1. configRows' = configRows /\ upload' = [upload EXCEPT ![t] = "failed"]
        BY <1>4, <2>3 DEF PopulateVduConfiguration
      <3>2. upload' \in [Template -> Ups]
        BY <1>1, <3>1
      <3>3. TemplatesListed'
        BY <1>1, <2>1, <3>1 DEF TemplatesListed
      <3>4. ConfiguredWholly'
        BY <1>1, <1>2, <2>1, <3>1 DEF ConfiguredWholly
      <3>. QED
        BY <1>1, <2>1, <3>1, <3>2, <3>3, <3>4 DEF TemplatesHalf
    <2>. QED
      BY <2>2, <2>3
  <1>5. ASSUME DeleteTemplateInfo(t) PROVE TemplatesHalf'
    <2>1. /\ upload[t] \in {"over", "failed"} /\ upload' = [upload EXCEPT ![t] = "removing"]
          /\ configRows' = {c \in configRows : c.template # t} /\ templateRows' = templateRows
      BY <1>5 DEF DeleteTemplateInfo
    <2>2. upload' \in [Template -> Ups]
      BY <1>1, <2>1
    <2>3. TemplatesListed'
      BY <1>1, <2>1 DEF TemplatesListed
    <2>4. \A u \in templateRows \ {t} :
            {c \in configRows' : c.template = u} = {c \in configRows : c.template = u}
      BY <2>1
    <2>5. {c \in configRows' : c.template = t} = {}
      BY <2>1
    <2>6. ConfiguredWholly'
      BY <1>1, <1>2, <2>1, <2>4, <2>5 DEF ConfiguredWholly
    <2>. QED
      BY <1>1, <2>1, <2>2, <2>3, <2>6 DEF TemplatesHalf
  <1>6. ASSUME DeleteTemplateRow(t) PROVE TemplatesHalf'
    <2>1. /\ upload[t] = "removing" /\ upload' = [upload EXCEPT ![t] = "gone"]
          /\ configRows' = {c \in configRows : c.template # t}
          /\ templateRows' = templateRows \ {t}
      BY <1>6 DEF DeleteTemplateRow
    <2>2. IsFiniteSet(templateRows')
      BY <1>1, <2>1, FS_RemoveElement
    <2>3. upload' \in [Template -> Ups]
      BY <1>1, <2>1
    <2>4. TemplatesListed'
      BY <1>1, <2>1 DEF TemplatesListed
    <2>5. \A u \in templateRows' :
            {c \in configRows' : c.template = u} = {c \in configRows : c.template = u}
      BY <2>1
    <2>6. ConfiguredWholly'
      BY <1>1, <1>2, <2>1, <2>5 DEF ConfiguredWholly
    <2>. QED
      BY <1>1, <2>1, <2>2, <2>3, <2>4, <2>6 DEF TemplatesHalf
  <1>. QED
    BY <1>3, <1>4, <1>5, <1>6


Ats == {"none", "entered", "removing", "cut", "gone"}

(* What a service lists follows its own row alone.                         *)
LEMMA ListedFollows ==
  ASSUME NEW s \in Service, serviceRow'[s].template = serviceRow[s].template
  PROVE  ListedVdus(s)' = ListedVdus(s)
  BY DEF ListedVdus

(* Services that move on, with their VDUs as they are.                     *)
LEMMA ServicesMove ==
  ASSUME ServicesHalf, UNCHANGED <<vduRow, booted>>,
         serviceRow' \in [Service -> [at : Ats, template : Template \cup {NoTemplate}]],
         \A s \in Service : /\ serviceRow'[s].template = serviceRow[s].template
                            /\ \/ serviceRow'[s].at = serviceRow[s].at
                               \/ serviceRow'[s].at \in {"removing", "cut", "gone"},
         \A v \in DOMAIN vduRow : Live(v[1])'
  PROVE  ServicesHalf'
  <1>1. ServiceTypes'
    BY DEF ServicesHalf, ServiceTypes, Ats
  <1>2. \A s \in Service : ListedVdus(s)' = ListedVdus(s)
    BY ListedFollows
  <1>3. \A v \in VduIds : v[1] \in Service
    BY DEF VduIds
  <1>4. RowsListed'
    BY <1>2 DEF ServicesHalf, RowsListed
  <1>5. \A v \in DOMAIN vduRow : v[1] \in Service
    BY <1>3 DEF ServicesHalf, ServiceTypes
  <1>6. NoOrphans'
    BY <1>2, <1>5 DEF ServicesHalf, NoOrphans
  <1>7. BootedAsDescribed'
    BY <1>5 DEF ServicesHalf, BootedAsDescribed
  <1>8. MachinesKept'
    BY DEF ServicesHalf, MachinesKept
  <1>. QED
    BY <1>1, <1>4, <1>6, <1>7, <1>8 DEF ServicesHalf

LEMMA CreateKeeps ==
  ASSUME TemplatesHalf, ServicesHalf, NEW s \in Service, CreateServiceModel(s)
  PROVE  ServicesHalf'
  <1>1. PICK t \in TemplateIds(WantedType[s]) :
          LET names == {c.vdu : c \in {d \in ConfigsOf(t) : d.flavour = WantedFlavour[s]}}
          IN /\ names # {}
             /\ serviceRow' = [serviceRow EXCEPT ![s] = [at |-> "entered", template |-> t]]
             /\ vduRow' = WithVdus({s} \X names)
    BY DEF CreateServiceModel
  <1>2. PICK V : V = {s} \X {c.vdu : c \in {d \in ConfigsOf(t) : d.flavour = WantedFlavour[s]}}
    OBVIOUS
  <1>3. PICK fresh : fresh = [machines |-> << >>, flavor |-> NotYet, image |-> NotYet]
    OBVIOUS
  <1>4. /\ serviceRow' = [serviceRow EXCEPT ![s] = [at |-> "entered", template |-> t]]
        /\ vduRow' = WithVdus(V)
        /\ booted' = booted /\ serviceRow[s].at = "none"
    BY <1>1, <1>2, <1>3 DEF CreateServiceModel
  <1>5. /\ serviceRow \in [Service -> [at : Ats, template : Template \cup {NoTemplate}]]
        /\ DOMAIN vduRow \subseteq VduIds /\ vduRow \in [DOMAIN vduRow -> VduRows]
        /\ booted \in [VduIds -> Seq(Machine)]
    BY DEF ServicesHalf, ServiceTypes, Ats
  <1>6. t \in Template
    BY DEF TemplateIds, OfType, TemplatesHalf
  <1>7. V \subseteq VduIds
    <2>1. \A c \in ConfigsOf(t) : c.vdu \in {d.vdu : d \in AllConfigs}
      BY <1>6, ConfigsHave
    <2>. QED
      BY <1>2, <2>1 DEF VduIds
  <1>8. /\ serviceRow'[s].at = "entered" /\ serviceRow'[s].template = t
        /\ \A r \in Service \ {s} : serviceRow'[r] = serviceRow[r]
    BY <1>4, <1>5
  <1>9. /\ ListedVdus(s)' = V
        /\ \A r \in Service \ {s} : ListedVdus(r)' = ListedVdus(r)
    BY <1>2, <1>8 DEF ListedVdus
  <1>10. \A v \in DOMAIN vduRow : v[1] \in Service \ {s}
    <2>1. \A v \in VduIds : v[1] \in Service
      BY DEF VduIds
    <2>2. \A v \in DOMAIN vduRow : Live(v[1])
      BY DEF ServicesHalf, NoOrphans
    <2>. QED
      BY <1>4, <1>5, <2>1, <2>2 DEF Live
  <1>11. \A v \in V : v[1] = s /\ v \in VduIds
    BY <1>2, <1>7
  <1>12. /\ DOMAIN vduRow' = DOMAIN vduRow \cup V
         /\ \A v \in DOMAIN vduRow : vduRow'[v] = vduRow[v]
         /\ \A v \in V : vduRow'[v] = fresh
    <2>1. vduRow' = [v \in DOMAIN vduRow \cup V |->
                       IF v \in DOMAIN vduRow THEN vduRow[v] ELSE fresh]
      BY <1>3, <1>4 DEF WithVdus
    <2>2. \A v \in V : v \notin DOMAIN vduRow
      BY <1>10, <1>11
    <2>. QED
      BY <2>1, <2>2
  <1>13. fresh \in VduRows
    <2>1. << >> \in Seq(Machine)
      OBVIOUS
    <2>. QED
      BY <1>3, <2>1 DEF VduRows
  <1>14. ServiceTypes'
    <2>1. serviceRow' \in [Service -> [at : Ats, template : Template \cup {NoTemplate}]]
      BY <1>4, <1>5, <1>6 DEF Ats
    <2>2. \A v \in DOMAIN vduRow' : vduRow'[v] \in VduRows
      BY <1>5, <1>12, <1>13
    <2>3. vduRow' = [v \in DOMAIN vduRow' |-> vduRow'[v]]
      BY <1>4 DEF WithVdus
    <2>4. vduRow' \in [DOMAIN vduRow' -> VduRows]
      BY <2>2, <2>3
    <2>5. DOMAIN vduRow' \subseteq VduIds
      BY <1>5, <1>7, <1>12
    <2>. QED
      BY <1>4, <1>5, <2>1, <2>4, <2>5 DEF ServiceTypes, Ats
  <1>15. RowsListed'
    BY <1>4, <1>8, <1>9, <1>12 DEF ServicesHalf, RowsListed
  <1>16. NoOrphans'
    <2>1. \A v \in DOMAIN vduRow : Live(v[1]) /\ v \in ListedVdus(v[1])
      BY DEF ServicesHalf, NoOrphans
    <2>2. \A v \in DOMAIN vduRow : Live(v[1])' /\ v \in ListedVdus(v[1])'
      BY <1>8, <1>9, <1>10, <2>1 DEF Live
    <2>3. \A v \in V : Live(v[1])' /\ v \in ListedVdus(v[1])'
      BY <1>8, <1>9, <1>11 DEF Live
    <2>. QED
      BY <1>12, <2>2, <2>3 DEF NoOrphans
  <1>17. BootedAsDescribed'
    <2>1. \A v \in V : vduRow'[v].flavor = NotYet
      BY <1>3, <1>12
    <2>2. \A v \in DOMAIN vduRow : vduRow'[v] = vduRow[v]
                                   /\ serviceRow'[v[1]] = serviceRow[v[1]]
      BY <1>8, <1>10, <1>12
    <2>. QED
      BY <1>12, <2>1, <2>2 DEF ServicesHalf, BootedAsDescribed
  <1>18. MachinesKept'
    <2>1. \A v \in V : vduRow'[v].machines = << >> /\ booted[v] = << >>
      BY <1>3, <1>4, <1>11, <1>12 DEF ServicesHalf, RowsListed
    <2>. QED
      BY <1>4, <1>12, <2>1 DEF ServicesHalf, MachinesKept
  <1>. QED
    BY <1>14, <1>15, <1>16, <1>17, <1>18 DEF ServicesHalf

LEMMA DetailsKeep ==
  ASSUME TemplatesHalf, ServicesHalf, NEW v \in VduIds, UpdateVduDetails(v)
  PROVE  ServicesHalf'
  <1>1. PICK c \in VduDetails(serviceRow[v[1]].template, v[2], WantedFlavour[v[1]]) :
          vduRow' = [vduRow EXCEPT ![v].flavor = c.flavor, ![v].image = c.image]
    BY DEF UpdateVduDetails
  <1>2. v \in DOMAIN vduRow /\ UNCHANGED <<serviceRow, booted>>
    BY DEF UpdateVduDetails
  <1>3. /\ c \in configRows /\ c.template = serviceRow[v[1]].template /\ c.vdu = v[2]
        /\ c.flavour = WantedFlavour[v[1]]
    BY DEF VduDetails
  <1>4. c \in AllConfigs /\ c \in ConfigsOf(serviceRow[v[1]].template)
    BY <1>3, ConfigsHave DEF TemplatesHalf
  <1>5. /\ DOMAIN vduRow \subseteq VduIds /\ vduRow \in [DOMAIN vduRow -> VduRows]
    BY DEF ServicesHalf, ServiceTypes
  <1>6. vduRow[v] \in VduRows
    BY <1>2, <1>5
  <1>7. /\ DOMAIN vduRow' = DOMAIN vduRow
        /\ \A w \in DOMAIN vduRow \ {v} : vduRow'[w] = vduRow[w]
        /\ vduRow'[v] = [vduRow[v] EXCEPT !.flavor = c.flavor, !.image = c.image]
    BY <1>1, <1>2, <1>5
  <1>8. /\ vduRow'[v] \in VduRows /\ vduRow'[v].flavor = c.flavor
        /\ vduRow'[v].image = c.image /\ vduRow'[v].machines = vduRow[v].machines
    BY <1>4, <1>6, <1>7 DEF VduRows
  <1>9. ServiceTypes'
    <2>1. vduRow' \in [DOMAIN vduRow' -> VduRows]
      BY <1>1, <1>5, <1>7, <1>8
    <2>. QED
      BY <1>2, <1>5, <1>7, <2>1 DEF ServicesHalf, ServiceTypes
  <1>10. \A s \in Service : ListedVdus(s)' = ListedVdus(s)
    BY <1>2 DEF ListedVdus
  <1>11. RowsListed'
    BY <1>2, <1>7, <1>10 DEF ServicesHalf, RowsListed
  <1>12. NoOrphans'
    <2>1. \A w \in DOMAIN vduRow : ListedVdus(w[1])' = ListedVdus(w[1])
      BY <1>2 DEF ListedVdus
    <2>. QED
      BY <1>2, <1>7, <2>1 DEF ServicesHalf, NoOrphans, Live
  <1>13. BootedAsDescribed'
    <2>1. \A w \in DOMAIN vduRow \ {v} : vduRow'[w] = vduRow[w] /\ serviceRow'[w[1]] = serviceRow[w[1]]
      BY <1>2, <1>7
    <2>2. \E d \in ConfigsOf(serviceRow'[v[1]].template) :
            /\ d.flavour = WantedFlavour[v[1]] /\ d.vdu = v[2]
            /\ d.flavor = vduRow'[v].flavor /\ d.image = vduRow'[v].image
      BY <1>2, <1>3, <1>4, <1>8
    <2>3. \A w \in DOMAIN vduRow : vduRow[w].flavor # NotYet =>
            \E d \in ConfigsOf(serviceRow[w[1]].template) :
              /\ d.flavour = WantedFlavour[w[1]] /\ d.vdu = w[2]
              /\ d.flavor = vduRow[w].flavor /\ d.image = vduRow[w].image
      BY DEF ServicesHalf, BootedAsDescribed
    <2>4. \A w \in DOMAIN vduRow \ {v} : vduRow'[w].flavor # NotYet =>
            \E d \in ConfigsOf(serviceRow'[w[1]].template) :
              /\ d.flavour = WantedFlavour[w[1]] /\ d.vdu = w[2]
              /\ d.flavor = vduRow'[w].flavor /\ d.image = vduRow'[w].image
      BY <2>1, <2>3
    <2>. QED
      BY <1>7, <2>2, <2>4 DEF BootedAsDescribed
  <1>14. MachinesKept'
    BY <1>2, <1>7, <1>8 DEF ServicesHalf, MachinesKept
  <1>. QED
    BY <1>9, <1>11, <1>12, <1>13, <1>14 DEF ServicesHalf

LEMMA MachineKeeps ==
  ASSUME ServicesHalf, NEW v \in VduIds, NEW m \in Machine, UpdateVduInstanceDetails(v, m)
  PROVE  ServicesHalf'
  <1>1. /\ v \in DOMAIN vduRow /\ serviceRow[v[1]].at = "entered" /\ serviceRow' = serviceRow
        /\ vduRow' = [vduRow EXCEPT ![v].machines = Append(@, m)]
        /\ booted' = [booted EXCEPT ![v] = Append(@, m)]
    BY DEF UpdateVduInstanceDetails
  <1>2. /\ DOMAIN vduRow \subseteq VduIds /\ vduRow \in [DOMAIN vduRow -> VduRows]
        /\ booted \in [VduIds -> Seq(Machine)]
    BY DEF ServicesHalf, ServiceTypes
  <1>3. vduRow[v] \in VduRows
    BY <1>1, <1>2
  <1>4. /\ DOMAIN vduRow' = DOMAIN vduRow
        /\ \A w \in DOMAIN vduRow \ {v} : vduRow'[w] = vduRow[w]
        /\ vduRow'[v] = [vduRow[v] EXCEPT !.machines = Append(vduRow[v].machines, m)]
    BY <1>1, <1>2
  <1>5. vduRow[v].machines \in Seq(Machine) /\ booted[v] \in Seq(Machine)
    BY <1>2, <1>3 DEF VduRows
  <1>6. Append(vduRow[v].machines, m) \in Seq(Machine) /\ Append(booted[v], m) \in Seq(Machine)
    BY <1>5
  <1>7. /\ vduRow'[v] \in VduRows /\ vduRow'[v].flavor = vduRow[v].flavor
        /\ vduRow'[v].image = vduRow[v].image
        /\ vduRow'[v].machines = Append(vduRow[v].machines, m)
    BY <1>3, <1>4, <1>6 DEF VduRows
  <1>8. /\ booted' \in [VduIds -> Seq(Machine)] /\ booted'[v] = Append(booted[v], m)
        /\ \A w \in VduIds \ {v} : booted'[w] = booted[w]
    BY <1>1, <1>2, <1>6
  <1>9. ServiceTypes'
    <2>1. vduRow' \in [DOMAIN vduRow' -> VduRows]
      BY <1>1, <1>2, <1>4, <1>7
    <2>. QED
      BY <1>1, <1>2, <1>4, <1>8, <2>1 DEF ServicesHalf, ServiceTypes
  <1>10. RowsListed'
    <2>1. \A s \in Service : ListedVdus(s)' = ListedVdus(s)
      BY <1>1 DEF ListedVdus
    <2>2. \A w \in VduIds : serviceRow[w[1]].at = "none" => booted'[w] = booted[w]
      BY <1>1, <1>8
    <2>. QED
      BY <1>1, <1>4, <2>1, <2>2 DEF ServicesHalf, RowsListed
  <1>11. NoOrphans'
    <2>1. \A w \in DOMAIN vduRow : ListedVdus(w[1])' = ListedVdus(w[1])
      BY <1>1 DEF ListedVdus
    <2>. QED
      BY <1>1, <1>4, <2>1 DEF ServicesHalf, NoOrphans, Live
  <1>12. BootedAsDescribed'
    <2>1. \A w \in DOMAIN vduRow : /\ vduRow'[w].flavor = vduRow[w].flavor
                                   /\ vduRow'[w].image = vduRow[w].image
      BY <1>4, <1>7
    <2>. QED
      BY <1>1, <1>4, <2>1 DEF ServicesHalf, BootedAsDescribed
  <1>13. MachinesKept'
    BY <1>1, <1>2, <1>4, <1>7, <1>8 DEF ServicesHalf, MachinesKept
  <1>. QED
    BY <1>9, <1>10, <1>11, <1>12, <1>13 DEF ServicesHalf

LEMMA VduGoes ==
  ASSUME ServicesHalf, NEW v \in VduIds, DeleteVduRow(v)
  PROVE  ServicesHalf'
  <1>1. /\ v \in DOMAIN vduRow /\ serviceRow[v[1]].at = "removing"
        /\ UNCHANGED <<serviceRow, booted>>
        /\ vduRow' = [w \in DOMAIN vduRow \ {v} |-> vduRow[w]]
    BY DEF DeleteVduRow
  <1>2. /\ DOMAIN vduRow \subseteq VduIds /\ vduRow \in [DOMAIN vduRow -> VduRows]
    BY DEF ServicesHalf, ServiceTypes
  <1>3. /\ DOMAIN vduRow' = DOMAIN vduRow \ {v}
        /\ \A w \in DOMAIN vduRow' : vduRow'[w] = vduRow[w]
    BY <1>1
  <1>4. ServiceTypes'
    <2>1. vduRow' \in [DOMAIN vduRow' -> VduRows]
      BY <1>1, <1>2, <1>3
    <2>. QED
      BY <1>1, <1>2, <1>3, <2>1 DEF ServicesHalf, ServiceTypes
  <1>5. RowsListed'
    <2>1. \A s : \A w \in ListedVdus(s) : w[1] = s
      BY DEF ListedVdus
    <2>2. \A s \in Service : ListedVdus(s)' = ListedVdus(s)
      BY <1>1 DEF ListedVdus
    <2>3. \A s \in Service : serviceRow[s].at = "entered" => v \notin ListedVdus(s)
      BY <1>1, <2>1
    <2>. QED
      BY <1>1, <1>3, <2>2, <2>3 DEF ServicesHalf, RowsListed
  <1>6. NoOrphans'
    <2>1. \A w \in DOMAIN vduRow : ListedVdus(w[1])' = ListedVdus(w[1])
      BY <1>1 DEF ListedVdus
    <2>. QED
      BY <1>1, <1>3, <2>1 DEF ServicesHalf, NoOrphans, Live
  <1>7. BootedAsDescribed'
    BY <1>1, <1>3 DEF ServicesHalf, BootedAsDescribed
  <1>8. MachinesKept'
    BY <1>1, <1>3 DEF ServicesHalf, MachinesKept
  <1>. QED
    BY <1>4, <1>5, <1>6, <1>7, <1>8 DEF ServicesHalf

LEMMA ServiceMoves ==
  ASSUME ServicesHalf,
         \/ Crash
         \/ \E s \in Service : DeleteDbDict(s) \/ DeleteServiceRow(s)
  PROVE  ServicesHalf'
  <1>1. serviceRow \in [Service -> [at : Ats, template : Template \cup {NoTemplate}]]
    BY DEF ServicesHalf, ServiceTypes, Ats
  <1>2. \A v \in DOMAIN vduRow : v[1] \in Service /\ Live(v[1])
    BY DEF ServicesHalf, ServiceTypes, NoOrphans, VduIds
  <1>3. CASE Crash
    <2>1. /\ serviceRow' = [s \in Service |->
               IF serviceRow[s].at = "removing" THEN [serviceRow[s] EXCEPT !.at = "cut"]
               ELSE serviceRow[s]]
          /\ UNCHANGED <<vduRow, booted>>
      BY <1>3 DEF Crash
    <2>2. \A s \in Service : /\ serviceRow'[s] \in [at : Ats, template : Template \cup {NoTemplate}]
                             /\ serviceRow'[s].template = serviceRow[s].template
                             /\ \/ serviceRow'[s].at = serviceRow[s].at
                                \/ serviceRow[s].at = "removing" /\ serviceRow'[s].at = "cut"
      BY <1>1, <2>1 DEF Ats
    <2>3. serviceRow' \in [Service -> [at : Ats, template : Template \cup {NoTemplate}]]
      BY <2>1, <2>2
    <2>4. \A v \in DOMAIN vduRow : Live(v[1])'
      BY <1>2, <2>2 DEF Live
    <2>. QED
      BY <2>1, <2>2, <2>3, <2>4, ServicesMove
  <1>4. ASSUME NEW s \in Service, DeleteDbDict(s) PROVE ServicesHalf'
    <2>1. /\ serviceRow' = [serviceRow EXCEPT ![s].at = "removing"]
          /\ UNCHANGED <<vduRow, booted>>
      BY <1>4 DEF DeleteDbDict
    <2>2. serviceRow' \in [Service -> [at : Ats, template : Template \cup {NoTemplate}]]
      BY <1>1, <2>1 DEF Ats
    <2>3. /\ \A r \in Service : serviceRow'[r].template = serviceRow[r].template
          /\ serviceRow'[s].at = "removing"
          /\ \A r \in Service \ {s} : serviceRow'[r] = serviceRow[r]
      BY <1>1, <2>1
    <2>4. \A v \in DOMAIN vduRow : Live(v[1])'
      BY <1>2, <2>3 DEF Live
    <2>. QED
      BY <2>1, <2>2, <2>3, <2>4, ServicesMove
  <1>5. ASSUME NEW s \in Service, DeleteServiceRow(s) PROVE ServicesHalf'
    <2>1. /\ serviceRow' = [serviceRow EXCEPT ![s].at = "gone"]
          /\ \A v \in DOMAIN vduRow : v[1] # s
          /\ UNCHANGED <<vduRow, booted>>
      BY <1>5 DEF DeleteServiceRow
    <2>2. serviceRow' \in [Service -> [at : Ats, template : Template \cup {NoTemplate}]]
      BY <1>1, <2>1 DEF Ats
    <2>3. /\ \A r \in Service : serviceRow'[r].template = serviceRow[r].template
          /\ serviceRow'[s].at = "gone"
          /\ \A r \in Service \ {s} : serviceRow'[r] = serviceRow[r]
      BY <1>1, <2>1
    <2>4. \A v \in DOMAIN vduRow : Live(v[1])'
      BY <1>2, <2>1, <2>3 DEF Live
    <2>. QED
      BY <2>1, <2>2, <2>3, <2>4, ServicesMove
  <1>. QED
    BY <1>3, <1>4, <1>5

LEMMA ServicesSame ==
  ASSUME ServicesHalf, UNCHANGED <<serviceRow, vduRow, booted>>
  PROVE  ServicesHalf'
  <1>1. ServiceTypes'
    BY DEF ServicesHalf, ServiceTypes
  <1>2. \A s : ListedVdus(s)' = ListedVdus(s) /\ Live(s)' = Live(s)
    BY DEF ListedVdus, Live
  <1>3. RowsListed' /\ NoOrphans'
    BY <1>2 DEF ServicesHalf, RowsListed, NoOrphans
  <1>4. BootedAsDescribed' /\ MachinesKept'
    BY DEF ServicesHalf, BootedAsDescribed, MachinesKept
  <1>. QED
    BY <1>1, <1>3, <1>4 DEF ServicesHalf

LEMMA TemplatesSame ==
  ASSUME TemplatesHalf, UNCHANGED <<templateRows, configRows, upload>>
  PROVE  TemplatesHalf'
  BY DEF TemplatesHalf, TemplatesListed, ConfiguredWholly

LEMMA TablesKept == TablesInv /\ [TablesNext]_tableVars => TablesInv'
  <1>. SUFFICES ASSUME TemplatesHalf, ServicesHalf, InfoState, [TablesNext]_tableVars
                PROVE  TemplatesHalf' /\ ServicesHalf' /\ InfoState'
    <2>1. TablesInv' <=> TemplatesHalf' /\ ServicesHalf' /\ InfoState'
      BY TablesHalves, PTL
    <2>. QED
      BY <2>1, TablesHalves
  <1>1. ASSUME NEW t \in Template,
               \/ PopulateTemplateDetails(t) \/ PopulateVduConfiguration(t)
               \/ DeleteTemplateInfo(t) \/ DeleteTemplateRow(t)
        PROVE  TemplatesHalf' /\ ServicesHalf' /\ InfoState'
    <2>1. UNCHANGED <<serviceRow, vduRow, booted, managerInfo>>
      BY <1>1 DEF PopulateTemplateDetails, PopulateVduConfiguration, DeleteTemplateInfo,
                  DeleteTemplateRow
    <2>2. TemplatesHalf'
      BY <1>1, TemplatesKept
    <2>3. ServicesHalf'
      BY <2>1, ServicesSame
    <2>. QED
      BY <2>1, <2>2, <2>3 DEF InfoState
  <1>2. ASSUME \/ Crash
               \/ \E s \in Service : CreateServiceModel(s) \/ DeleteDbDict(s) \/ DeleteServiceRow(s)
               \/ \E v \in VduIds : UpdateVduDetails(v) \/ DeleteVduRow(v)
                                    \/ \E m \in Machine : UpdateVduInstanceDetails(v, m)
        PROVE  TemplatesHalf' /\ ServicesHalf' /\ InfoState'
    <2>1. UNCHANGED <<templateRows, configRows, upload, managerInfo>>
      BY <1>2 DEF Crash, CreateServiceModel, DeleteDbDict, DeleteServiceRow, UpdateVduDetails,
                  DeleteVduRow, UpdateVduInstanceDetails
    <2>2. ServicesHalf'
      BY <1>2, CreateKeeps, DetailsKeep, MachineKeeps, VduGoes, ServiceMoves
    <2>3. TemplatesHalf'
      BY <2>1, TemplatesSame
    <2>. QED
      BY <2>1, <2>2, <2>3 DEF InfoState
  <1>3. ASSUME GetManagerInfo PROVE TemplatesHalf' /\ ServicesHalf' /\ InfoState'
    <2>1. UNCHANGED <<templateRows, configRows, upload, serviceRow, vduRow, booted>>
      BY <1>3 DEF GetManagerInfo
    <2>2. InfoState'
      BY <1>3 DEF GetManagerInfo, InfoState
    <2>. QED
      BY <2>1, <2>2, ServicesSame, TemplatesSame
  <1>4. ASSUME UNCHANGED tableVars PROVE TemplatesHalf' /\ ServicesHalf' /\ InfoState'
    <2>1. UNCHANGED <<templateRows, configRows, upload, serviceRow, vduRow, booted, managerInfo>>
      BY <1>4 DEF tableVars
    <2>. QED
      BY <2>1, ServicesSame, TemplatesSame DEF InfoState
  <1>. QED
    BY <1>1, <1>2, <1>3, <1>4 DEF TablesNext

LEMMA OneTemplateStep ==
  ASSUME TablesInv, [TablesNext]_tableVars, NEW s \in Service,
         serviceRow[s].at = "none", serviceRow'[s].at = "entered",
         NEW t \in templateRows, TypeOf[t] = WantedType[s]
  PROVE  t = serviceRow'[s].template
  <1>1. /\ serviceRow \in [Service -> [at : Ats, template : Template \cup {NoTemplate}]]
        /\ IsFiniteSet(templateRows)
    BY DEF TablesInv, TablesTypeOK, Ats
  <1>2. CASE \E v \in VduIds : UpdateVduDetails(v) \/ DeleteVduRow(v)
                               \/ \E m \in Machine : UpdateVduInstanceDetails(v, m)
    BY <1>2 DEF UpdateVduDetails, DeleteVduRow, UpdateVduInstanceDetails
  <1>3. CASE \E r \in Service : CreateServiceModel(r)
    <2>1. PICK r \in Service : CreateServiceModel(r)
      BY <1>3
    <2>2. PICK u \in OfType(WantedType[r]) :
            serviceRow' = [serviceRow EXCEPT ![r] = [at |-> "entered", template |-> u]]
      BY <2>1 DEF CreateServiceModel, TemplateIds
    <2>3. r = s
      BY <1>1, <2>2
    <2>4. Cardinality(OfType(WantedType[s])) = 1
      BY <2>1, <2>3 DEF CreateServiceModel, TemplateModel
    <2>5. IsFiniteSet(OfType(WantedType[s]))
      BY <1>1, FS_Subset DEF OfType
    <2>6. PICK x : OfType(WantedType[s]) = {x}
      BY <2>4, <2>5, FS_Singleton
    <2>7. t \in OfType(WantedType[s])
      BY DEF OfType
    <2>. QED
      BY <1>1, <2>2, <2>3, <2>6, <2>7
  <1>4. CASE \E r \in Service : DeleteDbDict(r) \/ DeleteServiceRow(r)
    BY <1>1, <1>4 DEF DeleteDbDict, DeleteServiceRow
  <1>5. CASE Crash
    BY <1>1, <1>5 DEF Crash
  <1>6. CASE GetManagerInfo
    BY <1>6 DEF GetManagerInfo
  <1>7. CASE \E u \in Template : PopulateTemplateDetails(u) \/ PopulateVduConfiguration(u)
                                 \/ DeleteTemplateInfo(u) \/ DeleteTemplateRow(u)
    BY <1>7 DEF PopulateTemplateDetails, PopulateVduConfiguration, DeleteTemplateInfo,
                DeleteTemplateRow
  <1>8. CASE UNCHANGED tableVars
    BY <1>8 DEF tableVars
  <1>. QED
    BY <1>2, <1>3, <1>4, <1>5, <1>6, <1>7, <1>8 DEF TablesNext


(* What the machines' rows say is what was booted.                         *)
LEMMA InstancesMeant ==
  ASSUME TablesInv, NEW v \in DOMAIN vduRow
  PROVE  InstanceList(vduRow[v]) = IF booted[v] = << >> THEN {Phantom} ELSE Range(booted[v])
  BY DEF TablesInv, MachinesKept, InstanceList

LEMMA InfoStep ==
  ASSUME TablesInv, [TablesNext]_tableVars, managerInfo' # managerInfo
  PROVE  /\ managerInfo'.state = "given" =>
              \A s \in DOMAIN managerInfo'.of :
                managerInfo'.of[s] = UNION {IF booted[v] = << >> THEN {Phantom} ELSE Range(booted[v]) :
                                              v \in ListedVdus(s)}
         /\ managerInfo'.state = "error" =>
              \E s \in Service : serviceRow[s].at \in {"removing", "cut"}
  <1>1. GetManagerInfo
    BY DEF TablesNext, tableVars, PopulateTemplateDetails, PopulateVduConfiguration,
           DeleteTemplateInfo, DeleteTemplateRow, CreateServiceModel, DeleteDbDict,
           DeleteServiceRow, UpdateVduDetails, DeleteVduRow, UpdateVduInstanceDetails, Crash
  <1>2. CASE \E s \in Service : Live(s) /\ ~ ListedVdus(s) \subseteq DOMAIN vduRow
    <2>1. managerInfo' = [state |-> "error", of |-> << >>]
      BY <1>1, <1>2 DEF GetManagerInfo
    <2>2. PICK s \in Service : Live(s) /\ ~ ListedVdus(s) \subseteq DOMAIN vduRow
      BY <1>2
    <2>3. serviceRow[s].at \in {"removing", "cut"}
      BY <2>2 DEF Live, TablesInv, RowsListed
    <2>. QED
      BY <2>1, <2>3
  <1>3. CASE ~ \E s \in Service : Live(s) /\ ~ ListedVdus(s) \subseteq DOMAIN vduRow
    <2>1. managerInfo' = [state |-> "given",
                          of |-> [s \in {s \in Service : Live(s)} |->
                                    UNION {InstanceList(vduRow[v]) : v \in ListedVdus(s)}]]
      BY <1>1, <1>3 DEF GetManagerInfo
    <2>2. /\ managerInfo'.state = "given" /\ DOMAIN managerInfo'.of = {s \in Service : Live(s)}
          /\ \A s \in DOMAIN managerInfo'.of :
               managerInfo'.of[s] = UNION {InstanceList(vduRow[v]) : v \in ListedVdus(s)}
      BY <2>1
    <2>3. SUFFICES ASSUME NEW s \in DOMAIN managerInfo'.of
                   PROVE  managerInfo'.of[s] =
                            UNION {IF booted[v] = << >> THEN {Phantom} ELSE Range(booted[v]) :
                                     v \in ListedVdus(s)}
      BY <2>2
    <2>4. ListedVdus(s) \subseteq DOMAIN vduRow
      BY <1>3, <2>2
    <2>5. {InstanceList(vduRow[v]) : v \in ListedVdus(s)} =
            {IF booted[v] = << >> THEN {Phantom} ELSE Range(booted[v]) : v \in ListedVdus(s)}
      BY <2>4, InstancesMeant
    <2>. QED
      BY <2>2, <2>5
  <1>. QED
    BY <1>2, <1>3
=============================================================================

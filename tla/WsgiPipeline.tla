---------------------------- MODULE WsgiPipeline ----------------------------
(***************************************************************************)
(* A request on its way through the WSGI pipeline of the server: down the  *)
(* filters to the router and an application, which decodes its body, calls *)
(* a method and encodes what comes of it, and up again as a response or as *)
(* an exception. Besides Resource of the API, wsgi.py has a Resource and a *)
(* Controller of its own for extensions.                                   *)
(***************************************************************************)
EXTENDS Naturals, Sequences

CONSTANTS
  Pipelines,  \* sequences of filters before the router; the deployed one and others
  MaxLength,  \* bound: the length of a body
  BodyLimit   \* max_request_body_size

Filter == {"request_id", "catch_errors", "authtoken", "keystonecontext", "sizelimit", "middleware"}
(* Each pipeline tags first of all, and has the filters that the paste     *)
(* file has for the API.                                                   *)
ASSUME PipelineAssumption ==
  /\ Pipelines \subseteq Seq(Filter) /\ MaxLength \in Nat \ {0} /\ BodyLimit \in Nat
  /\ \A p \in Pipelines :
       /\ p # << >> /\ p[1] = "request_id"
       /\ \A f \in {"catch_errors", "authtoken", "keystonecontext"} :
            \E k \in DOMAIN p : p[k] = f

VARIABLES
  pipeline, \* the filters
  http,     \* the request
  pos,      \* how many filters it has passed
  way,      \* "idle" | "down" | "up" | "answered"
  env,      \* what filters note in the environment
  reply,    \* the response, or "raised"
  called    \* the type its body was decoded as for the method, or "no"

httpVars == <<pipeline, http, pos, way, env, reply, called>>

Kind == {"json", "xml"}
App == {"versions", "index", "resource", "extension", "controller", "nowhere"}
Outcome == {"ok", "path", "none", "notfound", "unmapped", "http", "notimpl",
            "badargs", "crash", "badresult"}
Action == {"show", "create", "delete"}
Response(status, type, shape) == [status |-> status, type |-> type, shape |-> shape, id |-> FALSE]
NoReply == Response(0, "", "none")
Plain(status) == Response(status, "text", "plain")
Raised == Response(0, "", "raised")
NoHttp == [app |-> "nowhere", action |-> "show", ext |-> "none", ctype |-> "none",
           accept |-> "json", body |-> "none", length |-> 0, sized |-> TRUE,
           token |-> "valid", user |-> TRUE, blocked |-> FALSE, outcome |-> "ok"]

(* The requests webob may make of what is sent. The length of a body is    *)
(* declared if it is sized.                                                *)
Http == [app : App, action : Action, ext : Kind \cup {"none", "other"},
         ctype : Kind \cup {"none", "other"}, accept : Kind \cup {"other"},
         body : Kind \cup {"none", "dtd"}, length : 0 .. MaxLength, sized : BOOLEAN,
         token : {"valid", "invalid"}, user : BOOLEAN, blocked : BOOLEAN, outcome : Outcome]

Env == [context : BOOLEAN, limited : BOOLEAN, read : Nat]
Status == {0, 200, 201, 204, 400, 401, 404, 413, 500, 501}
Shape == {"none", "plain", "result", "fault", "raised"}
Reply == [status : Status, type : Kind \cup {"", "text"}, shape : Shape, id : BOOLEAN]

(* Request, place in the pipeline and response keep their types.           *)
HttpTypeOK ==
  /\ pipeline \in Pipelines /\ pos \in 0 .. Len(pipeline)
  /\ http \in Http
  /\ way \in {"idle", "down", "up", "answered"}
  /\ env \in Env /\ reply \in Reply
  /\ called \in Kind \cup {"no", "bodiless"}
  /\ reply.shape = "fault" => reply.type \in Kind

HttpInit ==
  /\ pipeline \in Pipelines
  /\ http = NoHttp /\ pos = 0 /\ way = "idle"
  /\ env = [context |-> FALSE, limited |-> FALSE, read |-> 0]
  /\ reply = NoReply /\ called = "no"

-----------------------------------------------------------------------------
(* Arrival *)

HttpReceive(r) ==
  /\ way = "idle"
  /\ http' = r
  /\ way' = "down"
  /\ UNCHANGED <<pipeline, pos, env, reply, called>>

(* Requests that differ in what comes of them, in the types they name, or  *)
(* in their sender and the length of their body.                           *)
Sent ==
  [app : App, action : Action, ext : {"none", "xml"}, ctype : {"none"}, accept : {"json"},
   body : {"none"}, length : {0}, sized : {TRUE},
   token : {"valid"}, user : {TRUE}, blocked : {FALSE}, outcome : Outcome]
  \cup
  [app : App, action : {"show"}, ext : Kind \cup {"none", "other"},
   ctype : Kind \cup {"none", "other"}, accept : Kind \cup {"other"},
   body : Kind \cup {"dtd"}, length : {1}, sized : {TRUE},
   token : {"valid"}, user : {TRUE}, blocked : {FALSE}, outcome : {"ok"}]
  \cup
  [app : App, action : {"show"}, ext : {"none"}, ctype : {"none"}, accept : {"json"},
   body : {"json"}, length : 1 .. MaxLength, sized : BOOLEAN,
   token : {"valid", "invalid"}, user : BOOLEAN, blocked : BOOLEAN, outcome : {"ok"}]

HttpArrive == \E r \in Sent : HttpReceive(r)

(* best_match_content_type *)
BestMatch ==
  IF http.ext \in Kind THEN http.ext
  ELSE IF http.ctype \in Kind THEN http.ctype
  ELSE IF http.accept \in Kind THEN http.accept ELSE "json"

-----------------------------------------------------------------------------
(* Down the filters *)

Here == pipeline[pos + 1]
Turn(r) == way' = "up" /\ reply' = r /\ UNCHANGED <<pos, env>>
Pass == pos' = pos + 1 /\ UNCHANGED <<way, reply>>

(* The limit is kept by what is declared, or else while the body is read.  *)
SizeLimit ==
  IF http.sized
    THEN IF http.length > BodyLimit THEN Turn(Plain(413)) ELSE Pass /\ UNCHANGED env
    ELSE Pass /\ env' = [env EXCEPT !.limited = TRUE]

(* Mutant: a request without a user goes on as that of nobody.             *)
KeystoneContextNobody ==
  Pass /\ env' = [env EXCEPT !.context = http.user]

KeystoneContext ==
  IF http.user THEN Pass /\ env' = [env EXCEPT !.context = TRUE] ELSE Turn(Plain(401))

(* keystonemiddleware refuses a token that is not valid.                   *)
AuthToken == IF http.token = "valid" THEN Pass /\ UNCHANGED env ELSE Turn(Plain(401))

(* process_request of a Middleware may answer itself.                      *)
Middleware == IF http.blocked THEN Turn(Plain(400)) ELSE Pass /\ UNCHANGED env

FilterDown ==
  /\ way = "down" /\ http.app # "versions" /\ pos < Len(pipeline)
  /\ CASE Here = "sizelimit" -> SizeLimit
       [] Here = "keystonecontext" -> KeystoneContext
       [] Here = "authtoken" -> AuthToken
       [] Here = "middleware" -> Middleware
       [] OTHER -> Pass /\ UNCHANGED env
  /\ UNCHANGED <<pipeline, http, called>>

-----------------------------------------------------------------------------
(* Applications *)

Answers(r) == way' = "up" /\ reply' = r /\ UNCHANGED <<pipeline, http, pos, env>>

(* The URL map leads to Versions for whatever is not below /v1.0.          *)
Versions ==
  /\ way = "down" /\ http.app = "versions"
  /\ Answers(IF http.ext # "none" THEN Plain(404) ELSE Response(200, BestMatch, "result"))
  /\ UNCHANGED called

AtRouter == way = "down" /\ http.app # "versions" /\ pos = Len(pipeline)
Routed == /\ http.app # "nowhere" /\ http.ext # "other"
          /\ http.app = "index" => http.ext = "none"
Calls(app) == AtRouter /\ Routed /\ http.app = app

RouterDispatch ==
  /\ AtRouter /\ (http.app = "index" \/ ~Routed)
  /\ Answers(IF Routed THEN Response(200, BestMatch, "result") ELSE Plain(404))
  /\ UNCHANGED called

Fault(status) == Response(status, BestMatch, "fault")

TooLarge(part) == env.limited /\ env.read + part > BodyLimit

(* request.body raises inside the try of the API's Resource only.          *)
TooLargeAnswer == IF http.app = "resource" THEN Fault(413) ELSE Plain(413)

(* A body arrives in parts of any size.                                    *)
ReadBody ==
  /\ Calls("resource") \/ Calls("extension")
  /\ \E part \in 1 .. http.length - env.read :
       IF TooLarge(part)
         THEN Answers(TooLargeAnswer)
         ELSE /\ env' = [env EXCEPT !.read = @ + part]
              /\ UNCHANGED <<pipeline, http, pos, way, reply>>
  /\ UNCHANGED called

DecodeType == BestMatch

Decoded == CASE http.body = "none" -> "bodiless"
             [] http.body = DecodeType -> http.body
             [] http.body = "dtd" /\ DecodeType = "xml" -> "error"
             [] OTHER -> "malformed"

(* Resource of the API: every exception but those of encoding a result is  *)
(* made a fault of the type asked for.                                     *)
Success == CASE http.action = "create" -> 201 [] http.action = "delete" -> 204 [] OTHER -> 200

MethodReply ==
  CASE http.outcome \in {"ok", "none"} -> Response(Success, BestMatch, "result")
    [] http.outcome = "path" -> IF Success = 204 THEN Response(200, "", "result")
                                ELSE Response(Success, BestMatch, "result")
    [] http.outcome = "notfound" -> Fault(404)
    [] http.outcome = "http" -> Fault(400)
    [] http.outcome = "notimpl" -> Fault(501)
    [] http.outcome \in {"unmapped", "crash", "badargs"} -> Fault(500)
    [] http.outcome = "badresult" -> Raised

ResourceReply == CASE Decoded = "malformed" -> Fault(400)
                   [] Decoded = "error" -> Fault(500)
                   [] OTHER -> MethodReply

(* Resource of wsgi.py: an error in decoding other than a malformed body   *)
(* is not caught; wrong arguments are the client's fault.                  *)
ExtensionReply ==
  CASE Decoded = "malformed" -> Fault(400)
    [] Decoded = "error" -> Raised
    [] OTHER ->
      CASE http.outcome \in {"ok", "path"} -> Response(200, BestMatch, "result")
        [] http.outcome = "none" -> Response(200, BestMatch, "none")
        [] http.outcome \in {"http", "badargs"} -> Fault(400)
        [] http.outcome \in {"notfound", "unmapped", "notimpl", "crash"} -> Fault(500)
        [] http.outcome = "badresult" -> Raised

CallResource ==
  /\ (Calls("resource") \/ Calls("extension")) /\ env.read = http.length
  /\ Answers(IF http.app = "resource" THEN ResourceReply ELSE ExtensionReply)
  /\ called' = IF Decoded \in {"malformed", "error"} THEN "no" ELSE Decoded

(* Controller of wsgi.py leaves the body alone and catches nothing.        *)
CallController ==
  /\ Calls("controller")
  /\ Answers(CASE http.outcome \in {"ok", "path"} -> Response(200, BestMatch, "result")
               [] http.outcome = "none" -> Response(204, "", "none")
               [] http.outcome = "http" -> Plain(400)
               [] OTHER -> Raised)
  /\ called' = "bodiless"

-----------------------------------------------------------------------------
(* Up again *)

CatchErrors(r) == IF r.shape = "raised" THEN Plain(500) ELSE r

FilterUp ==
  /\ way = "up" /\ http.app # "versions" /\ pos > 0
  /\ pos' = pos - 1
  /\ reply' = CASE pipeline[pos] = "catch_errors" -> CatchErrors(reply)
                [] pipeline[pos] = "request_id" /\ reply.shape # "raised" ->
                     [reply EXCEPT !.id = TRUE]
                [] OTHER -> reply
  /\ UNCHANGED <<pipeline, http, way, env, called>>

Answered ==
  /\ way = "up" /\ (pos = 0 \/ http.app = "versions")
  /\ way' = "answered"
  /\ UNCHANGED <<pipeline, http, pos, env, reply, called>>

HttpNext ==
  \/ HttpArrive \/ FilterDown \/ Versions \/ RouterDispatch \/ ReadBody
  \/ CallResource \/ CallController \/ FilterUp \/ Answered

HttpSpec == HttpInit /\ [][HttpNext]_httpVars

-----------------------------------------------------------------------------
Done(app) == way = "answered" /\ http.app = app

(* A method is called for a sender only whose token keystone vouched for,  *)
(* with the context made of it.                                            *)
NoAnonymousCall ==
  called # "no" => http.token = "valid" /\ env.context

(* No exception leaves the API's pipeline, and what it answers carries the *)
(* request's id, errors of every filter and application included.          *)
TaggedAlways ==
  way = "answered" /\ http.app # "versions" => reply.id /\ reply.shape # "raised"

(* The client of the API can read what went wrong in the format it asked   *)
(* for, unless it did not get to the resource or no format could be made.  *)
FaultsInKind ==
  Done("resource") /\ reply.status >= 400 =>
    \/ reply.shape = "fault" /\ reply.type = BestMatch
    \/ called = "no" /\ (http.token # "valid" \/ ~http.user \/ http.blocked)
    \/ reply.status = 413 /\ http.sized
    \/ http.outcome = "badresult" \/ ~Routed

(* A resource is never handed more of a body than the limit.               *)
BodyBounded ==
  \A k \in DOMAIN pipeline : pipeline[k] = "sizelimit" /\ pos >= k => env.read <= BodyLimit

(* A method gets a body that was decoded as what it is, in the type that   *)
(* its result is answered in.                                              *)
DecodedAsAnswered ==
  called \in Kind =>
    http.body = called /\ (reply.shape = "result" => reply.type \in {called, ""})

(* What a request that has come past a filter owes to it, and how much of  *)
(* a body has been read.                                                   *)
PassedFilters ==
  /\ \A k \in 1 .. pos :
       /\ pipeline[k] = "authtoken" => http.token = "valid"
       /\ pipeline[k] = "keystonecontext" => env.context
       /\ pipeline[k] = "sizelimit" =>
            IF http.sized THEN http.length <= BodyLimit ELSE env.limited
  /\ env.read <= http.length /\ (env.limited => env.read <= BodyLimit)
  /\ way \in {"idle", "down"} => called = "no" /\ reply = NoReply
  /\ way = "idle" => pos = 0 /\ env.read = 0
  /\ way = "down" /\ pos < Len(pipeline) => env.read = 0

(* An exception on its way up has the filter before it that catches it,    *)
(* and what has left the first filter is tagged.                           *)
TaggedBehind ==
  way = "up" /\ http.app # "versions" =>
    /\ reply.shape = "raised" => \E k \in 1 .. pos : pipeline[k] = "catch_errors"
    /\ pos = 0 => reply.id /\ reply.shape # "raised"

(* What comes up from the API's Resource as an error is one of these.      *)
FaultsOnTheWay ==
  way \in {"up", "answered"} /\ http.app = "resource"
    /\ (reply.status >= 400 \/ reply.shape = "raised") =>
    \/ reply.shape = "fault" /\ reply.type = BestMatch
    \/ called = "no" /\ (http.token # "valid" \/ ~http.user \/ http.blocked)
    \/ reply.status = 413 /\ reply.shape = "plain" /\ http.sized
    \/ http.outcome = "badresult" \/ ~Routed

(* What each step of a request through the pipeline keeps.                 *)
HttpInv ==
  /\ HttpTypeOK /\ PassedFilters /\ TaggedBehind /\ FaultsOnTheWay
  /\ NoAnonymousCall /\ TaggedAlways /\ FaultsInKind /\ BodyBounded /\ DecodedAsAnswered
=============================================================================

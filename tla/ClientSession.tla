--------------------------- MODULE ClientSession ---------------------------
(***************************************************************************)
(* A call of the Python client: v1_0/client.py with its retries and its    *)
(* format, client.py with the token, the endpoint and the second attempt   *)
(* after a 401. A connection may fail before the server has executed the   *)
(* request or after, and the client cannot tell.                           *)
(***************************************************************************)
EXTENDS Naturals

CONSTANT Retries   \* Client.retries

ASSUME RetriesAssumption == Retries \in Nat

VARIABLES
  client,   \* what the Client and its HTTPClient keep between calls
  call      \* the call at hand, or the last one

sessionVars == <<client, call>>

Methods == {"GET", "POST", "PUT", "DELETE"}
Formats == {"json", "xml"}

Phases == {"idle", "fetch", "endpoint", "login", "ready", "send", "relogin", "resend"}
Outcomes == {"none", "ok", "Unauthorized", "ConnectionFailed", "NoAuthURLProvided",
             "EndpointNotFound", "RequestURITooLong", "AttributeError",
             "VNFSvcClientException", "SessionError"}

ClientState == [kind : {"http", "session"}, strategy : {"keystone", "noauth", "other"},
                authUrl : BOOLEAN, token : {"none", "good", "stale"},
                endpoint : BOOLEAN, format : Formats]
CallState == [method : Methods, saved : Formats, long : BOOLEAN, phase : Phases,
              attempt : 1 .. Retries + 1, fresh : BOOLEAN, ran : 0 .. Retries + 1,
              outcome : Outcomes]

(* Token, tries and answer of a call keep their types.                     *)
SessionTypeOK == client \in ClientState /\ call \in CallState

Idle == [method |-> "GET", saved |-> "json", long |-> FALSE, phase |-> "idle",
         attempt |-> 1, fresh |-> FALSE, ran |-> 0, outcome |-> "none"]

(* A token given to the constructor may be stale already.                  *)
SessionInit ==
  /\ client \in [kind : {"http"}, strategy : {"keystone", "noauth", "other"},
                 authUrl : BOOLEAN, token : {"none", "good", "stale"},
                 endpoint : BOOLEAN, format : {"json"}]
               \cup [kind : {"session"}, strategy : {"keystone"}, authUrl : {TRUE},
                     token : {"none"}, endpoint : {FALSE}, format : {"json"}]
  /\ call = Idle

MoveTo(p) == call' = [call EXCEPT !.phase = p]

Raise(exc) ==
  /\ call' = [call EXCEPT !.phase = "idle", !.outcome = exc]
  /\ UNCHANGED client

(* Keystone ends a token at any time.                                      *)
Expire ==
  /\ client.token = "good"
  /\ client' = [client EXCEPT !.token = "stale"]
  /\ UNCHANGED call

-----------------------------------------------------------------------------
(* v1_0: APIParamsCall, and retry_request around do_request                *)

Call ==
  /\ call.phase = "idle"
  /\ \E m \in Methods, f \in {client.format, "json", "xml"}, long \in BOOLEAN :
       /\ call' = [Idle EXCEPT !.method = m, !.saved = client.format, !.long = long,
                               !.phase = "fetch"]
       /\ client' = [client EXCEPT !.format = f]

(* Only what can be repeated without harm goes through retry_request.      *)
Retried(m) == m # "POST"

(* ConnectionFailed, wherever it comes from: the whole attempt is made     *)
(* again, or the exception goes to the caller. n is 1 when the server had  *)
(* executed the request.                                                   *)
ConnectionLost(n) ==
  /\ call' = IF Retried(call.method) /\ call.attempt <= Retries
               THEN [call EXCEPT !.phase = "fetch", !.attempt = @ + 1, !.ran = @ + n,
                                 !.fresh = FALSE]
               ELSE [call EXCEPT !.phase = "idle", !.ran = @ + n,
                                 !.outcome = "ConnectionFailed"]
  /\ UNCHANGED client

(* What needs get_attr_metadata fails in XML, as the client has no         *)
(* list_extensions, and leaves the format json behind.                     *)
NoMetadata(n) ==
  /\ call' = [call EXCEPT !.phase = "idle", !.ran = @ + n, !.outcome = "AttributeError"]
  /\ client' = [client EXCEPT !.format = "json"]

(* do_request up to the sending: the length of the URI, then serialize.    *)
Ready ==
  /\ call.phase = "ready"
  /\ \/ call.long /\ Raise("RequestURITooLong")
     \/ /\ ~call.long /\ client.format = "xml" /\ call.method \in {"POST", "PUT"}
        /\ NoMetadata(0)
     \/ /\ ~call.long /\ ~(client.format = "xml" /\ call.method \in {"POST", "PUT"})
        /\ MoveTo("send") /\ UNCHANGED client

Return ==
  /\ call' = [call EXCEPT !.phase = "idle", !.ran = @ + 1, !.outcome = "ok"]
  /\ client' = [client EXCEPT !.format = call.saved]

(* The answer to a DELETE has no body to deserialize.                      *)
Succeeded ==
  IF client.format = "xml" /\ call.method # "DELETE" THEN NoMetadata(1) ELSE Return

(* The server names its errors VnfsvcError and the client looks for        *)
(* VNFSvcError: whatever the status, the exception is the general one. The *)
(* attempt to read an XML error leaves the format json behind. n is 1 when *)
(* the server had changed something all the same.                          *)
ErrorAnswer(n) ==
  /\ call' = [call EXCEPT !.phase = "idle", !.ran = @ + n, !.outcome = "VNFSvcClientException"]
  /\ client' = [client EXCEPT !.format = "json"]

-----------------------------------------------------------------------------
(* HTTPClient *)

(* authenticate_and_fetch_endpoint_url: with neither a token nor an        *)
(* endpoint, the first is asked for and brings the second.                 *)
Fetch ==
  /\ call.phase = "fetch" /\ client.kind = "http"
  /\ MoveTo(IF client.token = "none" THEN "login"
            ELSE IF ~client.endpoint THEN "endpoint" ELSE "ready")
  /\ UNCHANGED client

(* _get_endpoint_url: when the given token has just expired, log in.       *)
GetEndpointUrl ==
  /\ call.phase = "endpoint"
  /\ \/ ~client.authUrl /\ Raise("NoAuthURLProvided")
     \/ client.authUrl /\ ConnectionLost(0)
     \/ client.authUrl /\ client.token = "stale" /\ MoveTo("login") /\ UNCHANGED client
     \/ client.authUrl /\ client.token = "good" /\ Raise("EndpointNotFound")
     \/ /\ client.authUrl /\ client.token = "good"
        /\ MoveTo("ready")
        /\ client' = [client EXCEPT !.endpoint = TRUE]

LoggedIn == call' = [call EXCEPT !.phase = IF @ = "login" THEN "ready" ELSE "resend",
                                 !.fresh = TRUE]

(* authenticate: Keystone gives a token and, where none is known yet, the  *)
(* endpoint; its catalog may lack the service, when the token is kept.     *)
Authenticate ==
  /\ call.phase \in {"login", "relogin"}
  /\ \/ client.strategy = "other" /\ Raise("Unauthorized")
     \/ client.strategy = "noauth" /\ ~client.endpoint /\ Raise("Unauthorized")
     \/ client.strategy = "noauth" /\ client.endpoint /\ LoggedIn /\ UNCHANGED client
     \/ /\ client.strategy = "keystone"
        /\ \/ ~client.authUrl /\ Raise("NoAuthURLProvided")
           \/ client.authUrl /\ ConnectionLost(0)
           \/ /\ client.authUrl
              /\ call' = [call EXCEPT !.phase = "idle", !.fresh = TRUE,
                                      !.outcome = "Unauthorized"]
              /\ UNCHANGED client
           \/ /\ client.authUrl /\ LoggedIn
              /\ client' = [client EXCEPT !.token = "good", !.endpoint = TRUE]
           \/ /\ client.authUrl /\ ~client.endpoint
              /\ call' = [call EXCEPT !.phase = "idle", !.outcome = "EndpointNotFound"]
              /\ client' = [client EXCEPT !.token = "good"]

(* Mutant: the 401 goes to the caller at once.                             *)
UnauthorizedAtOnce == Raise("Unauthorized")

(* A 401 is taken for an expired token once, then for an answer.           *)
Unauthorized ==
  IF call.phase = "send" THEN MoveTo("relogin") /\ UNCHANGED client
  ELSE Raise("Unauthorized")

(* Without Keystone the client has no token, and a server may want one.    *)
Admitted == client.token = "good" \/ client.strategy # "keystone"

Send ==
  /\ call.phase \in {"send", "resend"} /\ client.kind = "http"
  /\ \/ \E n \in {0, 1} : (n = 1 => client.token # "stale") /\ ConnectionLost(n)
     \/ client.token # "good" /\ Unauthorized
     \/ Admitted /\ Succeeded
     \/ Admitted /\ \E n \in {0, 1} : ErrorAnswer(n)

-----------------------------------------------------------------------------
(* SessionClient: the session of keystoneclient has the token, repeats     *)
(* after a 401 by itself, and raises exceptions of its own, which          *)
(* retry_request does not know.                                            *)
SessionFetch ==
  /\ call.phase = "fetch" /\ client.kind = "session"
  /\ \/ MoveTo("ready") /\ client' = [client EXCEPT !.endpoint = TRUE]
     \/ Raise("SessionError")

SessionSend ==
  /\ call.phase = "send" /\ client.kind = "session"
  /\ \/ Succeeded
     \/ \E n \in {0, 1} :
          /\ call' = [call EXCEPT !.phase = "idle", !.ran = n, !.outcome = "SessionError"]
          /\ UNCHANGED client

SessionStep == Fetch \/ GetEndpointUrl \/ Authenticate \/ Ready \/ Send
               \/ SessionFetch \/ SessionSend

SessionNext == Call \/ SessionStep \/ Expire

SessionSpec == SessionInit /\ [][SessionNext]_sessionVars

-----------------------------------------------------------------------------
(* The server executes what is posted at most once for a call, whatever    *)
(* fails on the way, and the other methods once for each attempt.          *)
RunsBounded == call.ran <= IF call.method = "POST" THEN 1 ELSE Retries + 1

(* A call that returns was executed.                                       *)
SuccessRan == call.outcome = "ok" => call.ran > 0

(* The caller is told of a failed connection when all attempts are used    *)
(* up, and of a refused token when Keystone was asked for a new one in the *)
(* same attempt.                                                           *)
GivesUpLate ==
  /\ call.outcome = "ConnectionFailed" /\ Retried(call.method)
       => call.attempt = Retries + 1
  /\ call.outcome = "Unauthorized" /\ client.strategy = "keystone" => call.fresh

(* What was named for one call does not change the next, when the call     *)
(* returns; an exception leaves the format of the call in place.           *)
FormatRestored == call.outcome = "ok" => client.format = call.saved

(* While a call is under way it has run for earlier attempts only, and a   *)
(* second sending has a token just asked for: with that, every step keeps  *)
(* what is said above.                                                     *)
UnderWaySound ==
  /\ call.phase # "idle" =>
       call.outcome = "none" /\ call.ran < call.attempt /\ (call.method = "POST" => call.ran = 0)
  /\ call.ran <= call.attempt
  /\ call.phase = "resend" /\ client.strategy = "keystone" => call.fresh

SessionInv ==
  /\ SessionTypeOK /\ UnderWaySound
  /\ RunsBounded /\ SuccessRan /\ GivesUpLate /\ FormatRestored

(* Every call ends, though tokens expire while it is under way.            *)
CallEnds == call.phase # "idle" ~> call.phase = "idle"
=============================================================================

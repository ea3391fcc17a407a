--------------------------------- MODULE Api ---------------------------------
(***************************************************************************)
(* A request to one of the HTTP APIs, from the client, the function of the *)
(* SDK or the command of the CLI that sends it to the answer it gets.  The *)
(* services are tables (ThingsApi, UsersApi, ...); the steps are go-kit's: *)
(* decode, validate, serve, encode.                                        *)
(* The auth and things services are asked over gRPC on the way, and may be *)
(* out of reach; the answer may be lost.  A statement the database reports *)
(* as failed has changed nothing.                                          *)
(***************************************************************************)
EXTENDS ApiErrors, FiniteSets

CONSTANT MaxFlaws      \* how many things may be wrong with one request

ASSUME MaxFlawsAssumption == MaxFlaws \in Nat

T == INSTANCE ThingsApi
U == INSTANCE UsersApi
A == INSTANCE AuthApi
B == INSTANCE BootstrapApi
W == INSTANCE TwinsApi
C == INSTANCE CertsApi
P == INSTANCE ProvisionApi
K == INSTANCE AccessApi
M == INSTANCE MessagesApi
R == INSTANCE ReadersApi
O == INSTANCE OpcuaApi
S == INSTANCE Sdk
L == INSTANCE Cli

VARIABLES
  phase,     \* where the request is
  sent,      \* the request: by which function, to which service and route, its flaws and token
  result,    \* why it failed, or "done"; "dropped" when an error went unnoticed
  err,       \* the error on its way to encodeError
  code,      \* the code answered
  verdict,   \* what the SDK function returns: "nil" or "error"
  cmd,       \* the command of the CLI that runs, or "none"
  made,      \* its calls of the SDK so far: the operation (partly) done or "none", answered or not
  shown      \* what it printed at its end, or "none"

request == <<phase, sent, result, err, code, verdict>>
cli == <<cmd, made, shown>>
vars == <<request, cli>>

(***************************************************************************)
(* The services                                                            *)
(***************************************************************************)
Of(routes, decoders, requests, endpoints, responses, service) ==
    [routes |-> routes, decoders |-> decoders, requests |-> requests,
     endpoints |-> endpoints, responses |-> responses, service |-> service]

Apis ==
    [things |-> Of(T!Routes, T!Decoders, T!Requests, T!Endpoints, T!Responses, T!Service),
     users |-> Of(U!Routes, U!Decoders, U!Requests, U!Endpoints, U!Responses, U!Service),
     auth |-> Of(A!Routes, A!Decoders, A!Requests, A!Endpoints, A!Responses, A!Service),
     bootstrap |-> Of(B!Routes, B!Decoders, B!Requests, B!Endpoints, B!Responses, B!Service),
     twins |-> Of(W!Routes, W!Decoders, W!Requests, W!Endpoints, W!Responses, W!Service),
     certs |-> Of(C!Routes, C!Decoders, C!Requests, C!Endpoints, C!Responses, C!Service),
     provision |-> Of(P!Routes, P!Decoders, P!Requests, P!Endpoints, P!Responses, P!Service),
     access |-> Of(K!Routes, K!Decoders, K!Requests, K!Endpoints, K!Responses, K!Service),
     http |-> Of(M!Routes, M!Decoders, M!Requests, M!Endpoints, M!Responses, M!Service),
     readers |-> Of(R!Routes, R!Decoders, R!Requests, R!Endpoints, R!Responses, R!Service),
     opcua |-> Of(O!Routes, O!Decoders, O!Requests, O!Endpoints, O!Responses, O!Service)]

EncodeError(service, e) ==
    CASE service = "things" -> T!EncodeError(e)
      [] service = "users" -> U!EncodeError(e)
      [] service = "auth" -> A!EncodeError(e)
      [] service = "bootstrap" -> B!EncodeError(e)
      [] service = "twins" -> W!EncodeError(e)
      [] service = "certs" -> C!EncodeError(e)
      [] service = "provision" -> P!EncodeError(e)
      [] service = "access" -> K!EncodeError(e)
      [] service = "http" -> M!EncodeError(e)
      [] service = "readers" -> R!EncodeError(e)
      [] service = "opcua" -> O!EncodeError(e)

(* A route is <<method, path, endpoint, decoder>>; NoRoute is what a       *)
(* request meets that no route matches.                                    *)
NoRoute == <<"none", <<>>, "none", "none">>
Decoder(service, route) == Apis[service].decoders[route[4]]
EndpointOf(service, route) == Apis[service].endpoints[route[3]]
RequestOf(service, route) == Apis[service].requests[EndpointOf(service, route).req]
MethodOf(service, route) == Apis[service].service[EndpointOf(service, route).call]

(***************************************************************************)
(* Requests                                                                *)
(***************************************************************************)
AllFlaws(service, route) ==
    Flaws(Decoder(service, route)) \cup Flaws(RequestOf(service, route))
        \cup Flaws(MethodOf(service, route).checks) \cup Flaws(MethodOf(service, route).then)

TokensFor(by) ==
    CASE by \in {"auth", "login", "Identify"} -> A!Tokens \cup {"none"}
      [] by = "things" -> K!Keys \cup {"none"}
      [] by = "none" -> {"user_key", "none"}

(* The body has one flaw at most, and the token is missing when it is.     *)
Wrong(service, route, token) ==
    {f \cup (IF token = "none" THEN {"token"} ELSE {}) :
        f \in {g \in SUBSET (AllFlaws(service, route) \ {"token"}) :
                  /\ Cardinality(g) <= MaxFlaws
                  /\ Cardinality(g \cap BodyFlaws) <= 1
                  /\ "no_thing_no_token" \in g => token = "none"}}

Request(fn, service, route, flaws, token) ==
    [fn |-> fn, service |-> service, route |-> route, flaws |-> flaws, token |-> token]

(* Every service and route, as any client may ask.                         *)
Requests ==
    UNION {UNION {UNION {{Request("client", s, r, f, t) : f \in Wrong(s, r, t)} :
                            t \in TokensFor(MethodOf(s, r).by)} :
                     r \in Apis[s].routes} :
              s \in DOMAIN Apis}

RoutesOf(fn) ==
    LET f == S!Functions[fn]
        found == {r \in Apis[f.service].routes : r[1] = f.method /\ r[2] = f.path}
    IN  IF found = {} THEN {NoRoute} ELSE found

(* A function of the SDK encodes its body itself, and names its type.      *)
SdkRequests(fn) ==
    LET s == S!Functions[fn].service
    IN  UNION {IF r = NoRoute THEN {Request(fn, s, r, {}, "user_key")}
               ELSE UNION {{Request(fn, s, r, f, t) :
                               f \in {g \in Wrong(s, r, t) : g \cap (BodyFlaws \cup {"content_type"}) = {}}} :
                              t \in TokensFor(MethodOf(s, r).by)} :
                  r \in RoutesOf(fn)}

NoRequest == Request("client", "none", NoRoute, {}, "none")
Init ==
    /\ phase = "idle" /\ sent = NoRequest
    /\ result = "none" /\ err = <<>> /\ code = 0 /\ verdict = "none"
    /\ cmd = "none" /\ made = <<>> /\ shown = "none"

(* A new request; a function of the SDK refuses nothing itself but what    *)
(* Whitelist does without the id of a thing.                               *)
Send(r) ==
    /\ phase = "idle"
    /\ r.fn = "Whitelist" => "id" \notin r.flaws
    /\ phase' = "decode" /\ sent' = r
    /\ UNCHANGED <<result, err, code, verdict, cli>>

(***************************************************************************)
(* The steps of a handler.  Advance goes on, Refuse has the error encoded. *)
(***************************************************************************)
Advance(to) == phase' = to /\ UNCHANGED <<sent, result, err, code, verdict, cli>>
Refuse(why, e) ==
    /\ phase' = "failed" /\ result' = why /\ err' = e
    /\ UNCHANGED <<sent, code, verdict, cli>>

(* The router answers a request it has no handler for.                     *)
NotFound ==
    /\ phase = "decode" /\ sent.route = NoRoute
    /\ phase' = "answered" /\ result' = "refused" /\ code' = 404
    /\ UNCHANGED <<sent, err, verdict, cli>>

Decode ==
    /\ phase = "decode" /\ sent.route # NoRoute
    /\ LET e == FirstError(Decoder(sent.service, sent.route), sent.flaws)
       IN  IF e = <<>> THEN Advance("validate") ELSE Refuse("refused", e)

Validate ==
    /\ phase = "validate"
    /\ LET e == FirstError(RequestOf(sent.service, sent.route), sent.flaws)
       IN  IF e = <<>> THEN Advance("check")
           ELSE Refuse("refused", Wrap(EndpointOf(sent.service, sent.route).invalid, e))

(* An error of the service passes the endpoint.                            *)
Fail(why, e) == Refuse(why, Wrap(EndpointOf(sent.service, sent.route).failed, e))

Check ==
    /\ phase = "check"
    /\ LET e == FirstError(MethodOf(sent.service, sent.route).checks, sent.flaws)
       IN  IF e = <<>> THEN Advance("identify") ELSE Fail("refused", e)

(* The errors the service may get when it asks who the caller is.          *)
IdentifyErrors(by, token) ==
    LET Status(st) == IF st = "OK" THEN <<>> ELSE <<Raw, st>>
    IN  CASE by = "none" -> {<<>>}
          [] by = "login" -> {A!login(token)}
          [] by = "Identify" -> {A!Identify(token)}
          [] by = "auth" -> {Status(st) : st \in A!GrpcIdentify(token)}
          [] by = "things" -> {Status(st) : st \in K!GrpcCanAccessByKey(token)}

OutOfReach == {<<Raw, "Unavailable">>, <<Raw, "DeadlineExceeded">>}

(* Identification by a token the call itself refuses, or by none at all;   *)
(* a failure of the things service is none of the key.                     *)
Identify ==
    /\ phase = "identify"
    /\ LET m == MethodOf(sent.service, sent.route)
       IN  \E e \in IdentifyErrors(m.by, sent.token) :
              IF e = <<>> THEN Advance("then")
              ELSE Fail(IF e \in OutOfReach \/ sent.token = "connected_key" THEN "unavailable" ELSE "denied",
                        IF m.keeps THEN Wrap(m.layers, e) ELSE m.layers)

Then ==
    /\ phase = "then"
    /\ LET e == FirstError(MethodOf(sent.service, sent.route).then, sent.flaws)
       IN  IF e = <<>> THEN Advance("serve") ELSE Fail("refused", e)

Serve ==
    /\ phase = "serve" /\ MethodOf(sent.service, sent.route).works
    /\ phase' = "answered" /\ result' = "done"
    /\ code' = Apis[sent.service].responses[EndpointOf(sent.service, sent.route).res]
    /\ UNCHANGED <<sent, err, verdict, cli>>

ServeFails ==
    /\ phase = "serve"
    /\ \E f \in MethodOf(sent.service, sent.route).fails : Fail(f[1], f[2])

(* An error of the database goes unnoticed: the answer is that of a        *)
(* success, though the rows were not changed, or not all of them read.     *)
ServeUnnoticed ==
    /\ phase = "serve" /\ MethodOf(sent.service, sent.route).drops
    /\ phase' = "answered" /\ result' = "dropped"
    /\ code' = Apis[sent.service].responses[EndpointOf(sent.service, sent.route).res]
    /\ UNCHANGED <<sent, err, verdict, cli>>

(* encodeError, or the response of an endpoint that masks the error.       *)
Masks(why) ==
    /\ why # "refused"
    /\ EndpointOf(sent.service, sent.route).masked
Encode ==
    /\ phase = "failed"
    /\ phase' = "answered"
    /\ code' = IF Masks(result) THEN Apis[sent.service].responses.masked
               ELSE EncodeError(sent.service, err)
    /\ UNCHANGED <<sent, result, err, verdict, cli>>

(* The answer arrives, or it is lost: the connection breaks before it is   *)
(* whole, or its body cannot be read or unmarshalled.                      *)
Receive ==
    /\ phase = "answered"
    /\ phase' = "received"
    /\ verdict' = IF sent.fn = "client" THEN "none"
                  ELSE IF code \in S!Functions[sent.fn].want THEN "nil" ELSE "error"
    /\ UNCHANGED <<sent, result, err, code, cli>>

LoseAnswer ==
    /\ phase = "answered"
    /\ phase' = "lost"
    /\ verdict' = IF sent.fn = "client" THEN "none" ELSE "error"
    /\ UNCHANGED <<sent, result, err, code, cli>>

Finish ==
    /\ phase' = "idle" /\ sent' = NoRequest
    /\ result' = "none" /\ err' = <<>> /\ code' = 0 /\ verdict' = "none"

Return ==
    /\ phase \in {"received", "lost"} /\ cmd = "none"
    /\ Finish
    /\ UNCHANGED cli

(***************************************************************************)
(* The CLI                                                                 *)
(***************************************************************************)
Run(c) ==
    /\ phase = "idle" /\ cmd = "none"
    /\ cmd' = c /\ made' = <<>>
    /\ shown' \in {"none"} \cup L!Inputs[L!Commands[c].input]
    /\ UNCHANGED request

(* The next call.  The requests of "provision test" are well-formed, and   *)
(* its token is a new one.                                                 *)
Call ==
    /\ cmd # "none" /\ shown = "none"
    /\ \E r \in SdkRequests(L!Commands[cmd].calls[Len(made) + 1]) :
          /\ cmd = "provision_test" => r.flaws = {} /\ r.token = "user_key"
          /\ Send(r)

(* The operation, if at least a part of it was done.                       *)
Outcome ==
    <<IF result \in {"done", "part"} THEN EndpointOf(sent.service, sent.route).call ELSE "none",
      phase = "received">>

(* Mutant: the command ends well whatever the last call returned.          *)
CallReturnsUnchecked ==
    /\ cmd # "none" /\ phase \in {"received", "lost"}
    /\ made' = Append(made, Outcome)
    /\ shown' = IF Len(made') = Len(L!Commands[cmd].calls) THEN L!Commands[cmd].prints
                ELSE IF verdict = "error" THEN "error" ELSE "none"
    /\ UNCHANGED cmd
    /\ Finish

(* logError and return, or on to the next call, or the end.                *)
CallReturns ==
    /\ cmd # "none" /\ phase \in {"received", "lost"}
    /\ made' = Append(made, Outcome)
    /\ shown' = IF verdict = "error" THEN "error"
                ELSE IF Len(made') = Len(L!Commands[cmd].calls) THEN L!Commands[cmd].prints
                ELSE "none"
    /\ UNCHANGED cmd
    /\ Finish

Exit ==
    /\ shown # "none"
    /\ cmd' = "none" /\ made' = <<>> /\ shown' = "none"
    /\ UNCHANGED request

Next ==
    \/ \E r \in Requests : cmd = "none" /\ Send(r)
    \/ \E fn \in DOMAIN S!Functions : \E r \in SdkRequests(fn) : cmd = "none" /\ Send(r)
    \/ \E c \in DOMAIN L!Commands : Run(c)
    \/ Call \/ CallReturns \/ Exit
    \/ NotFound \/ Decode \/ Validate \/ Check \/ Identify \/ Then
    \/ Serve \/ ServeFails \/ ServeUnnoticed \/ Encode \/ Receive \/ LoseAnswer \/ Return

Spec == Init /\ [][Next]_vars

(***************************************************************************)
(* Properties                                                              *)
(***************************************************************************)

(* The operations whose repository drops an error: the DELETE of a channel *)
(* (things), the Commit of a config or its connections (bootstrap) or of a *)
(* certificate (certs), and the reading of rows, of which nobody asks      *)
(* whether it came to the end.                                             *)
ErrorsUnnoticed ==
    {"RemoveChannel", "Add", "UpdateConnections", "ChangeState", "IssueCert"}
        \cup {"View", "List", "Bootstrap", "SecureBootstrap", "ListCerts", "ReadAll"}
        \cup {"ListThings", "ListThingsByChannel", "ListChannels", "ListChannelsByThing", "ListUsers"}
        \cup {"ListGroups", "ListParents", "ListChildren", "ListMembers", "ListMemberships"}

(* The operations of several steps: when a later one fails, what the       *)
(* earlier ones did stays (a document of MongoDB without its cache entry;  *)
(* a thing, connections; a certificate issued or revoked).                 *)
LeavesPart ==
    {"AddTwin", "UpdateTwin", "RemoveTwin", "Add", "UpdateConnections", "ChangeState",
     "IssueCert", "RevokeCert"}

(* A success answered is a success, and a success is answered as one: the  *)
(* code is 2xx when the operation was done, and otherwise only where the   *)
(* repository drops errors, or where the endpoint masks them (issueCert of *)
(* certs, doProvision of provision answer 201 with the error in the body). *)
(* After any other code nothing was done, but for the parts LeavesPart     *)
(* tells of.                                                               *)
AnswersTruthful ==
    phase = "answered" =>
        LET call == EndpointOf(sent.service, sent.route).call
        IN  IF code \in 200..299
            THEN \/ result = "done"
                 \/ sent.route # NoRoute /\ Masks(result)
                 \/ result = "dropped" /\ call \in ErrorsUnnoticed
            ELSE /\ result \notin {"done", "dropped"}
                 /\ result = "part" => call \in LeavesPart

(* What a function of the SDK returns is true of the operation it is for.  *)
(* nil: that operation was done (sdk.User is the exception: it gets a page *)
(* of users for a user), or is one of those whose errors go unnoticed.  An *)
(* error: it was not done, but perhaps in part, or the answer was lost or  *)
(* could not be read.  IssueCert holds it although its endpoint masks      *)
(* errors: the error comes with 201, and the function takes only 200.      *)
SdkTruthful ==
    (phase \in {"received", "lost"} /\ sent.fn # "client") =>
        LET call == EndpointOf(sent.service, sent.route).call
        IN  /\ verdict = "nil" =>
                  /\ result = "done" \/ (result = "dropped" /\ call \in ErrorsUnnoticed)
                  /\ call = S!Functions[sent.fn].for \/ sent.fn = "User"
            /\ (verdict = "error" /\ phase = "received" /\ sent.route # NoRoute) =>
                  /\ result # "done"
                  /\ result = "part" => call \in LeavesPart

(* What a command prints is true of the operations behind it, across its   *)
(* calls, the SDK, the API and a lost answer.  A result or "ok": every     *)
(* operation the command is for was done, in order ("users get" apart,     *)
(* which gets a page of users), or is one of those whose errors go         *)
(* unnoticed.  An error: the calls before the last one did their work,     *)
(* which stays, and the last did not, or in part only, or was not          *)
(* answered.                                                               *)
CommandsTruthful ==
    shown # "none" =>
        LET calls == L!Commands[cmd].calls
            Done(i) == \/ made[i][1] = S!Functions[calls[i]].for
                       \/ calls[i] = "User" /\ made[i][1] = "ListUsers"
                       \/ made[i][1] = "none" /\ S!Functions[calls[i]].for \in ErrorsUnnoticed
                       \/ calls[i] = "User" /\ made[i][1] = "none"
        IN  /\ shown = "usage" => made = <<>>
            /\ shown \notin {"usage", "error"} => /\ Len(made) = Len(calls)
                                                 /\ \A i \in 1..Len(made) : Done(i) /\ made[i][2]
            /\ shown = "error" => \A i \in 1..Len(made) :
                                     IF i < Len(made) THEN Done(i) /\ made[i][2]
                                     ELSE made[i][1] \in {"none"} \cup LeavesPart \/ ~made[i][2]

(* The messages encodeError of a service has no case for (certs and        *)
(* provision compare errors that are not the ones returned; http and       *)
(* readers never see PermissionDenied, the one status they know).          *)
Unclassified ==
    [things |-> {"malformed_entity", "unauthorized_access", "failed_decode"},
     auth |-> {"malformed_entity", "failed_decode", "invalid_query", "expired_key", "expired_API_key"},
     users |-> {"invalid_query", "missing_reset_token", Raw},
     certs |-> {"credentials", "api_credentials", "invalid_query", "malformed_specification",
                "unexpected_EOF"},
     provision |-> {"unauthorized", "api_credentials", "unexpected_EOF"},
     http |-> {"InvalidArgument", "NotFound", "Internal"},
     readers |-> {"NotFound", "Internal"},
     bootstrap |-> {}, twins |-> {}, access |-> {}, opcua |-> {}]

(* A request that is wrong, or whose caller is not let in, is answered as  *)
(* the client's fault, never as the server's, but for the messages listed. *)
RefusalsClassified ==
    (phase = "answered" /\ result \in {"refused", "denied"}) =>
        \/ code \in 400..499
        \/ Masks(result)
        \/ \E m \in Unclassified[sent.service] : Contains(err, m)

(* What anyone may ask for.                                                *)
OpenToAll ==
    {"Register", "Login", "GenerateResetToken", "tmpKey", "Bootstrap", "SecureBootstrap",
     "Provision", "Identify", "CanAccessByKey", "CanAccessByID", "Browse"}

(* An operation that is not open to all is done only for a caller with a   *)
(* token the auth service takes, one to reset a password among them (the   *)
(* key of a connected thing for messages); keys are managed with a user's  *)
(* key only.                                                               *)
CallersIdentified ==
    (phase = "answered" /\ result = "done") =>
        LET call == EndpointOf(sent.service, sent.route).call
        IN  \/ call \in OpenToAll
            \/ call \in {"userKey", "RetrieveKey", "Revoke"} /\ sent.token = "user_key"
            \/ call \in {"Publish", "ReadAll"} /\ sent.token = "connected_key"
            \/ call \notin {"userKey", "RetrieveKey", "Revoke", "Publish", "ReadAll"}
                  /\ sent.token \in {"user_key", "API_key", "recovery_key"}
==============================================================================

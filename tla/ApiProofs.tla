------------------------------ MODULE ApiProofs ------------------------------
(***************************************************************************)
(* Proofs about the HTTP APIs, the functions of the Go SDK and the         *)
(* commands of the CLI, for any number of things wrong with a request      *)
(* (MaxFlaws). A step of Api only looks up the tables of a service, so     *)
(* what is proved of the tables first, entry by entry and service by       *)
(* service, is what the steps need: names lead to names that exist,        *)
(* encodeError answers no error as a success, every operation that is not  *)
(* open to all identifies its caller, and every error of a refusal has a   *)
(* case of its own or is one of those listed as having none. The inductive *)
(* invariant then says what a request has come through (HandlerInv), what  *)
(* the function that sent it returns (SdkInv), what the command has to     *)
(* print (CliInv) and which error it carries (RefusedInv).                 *)
(***************************************************************************)
EXTENDS Api, WellFoundedInduction, TLAPS

(***************************************************************************)
(* The methods of the services                                             *)
(***************************************************************************)
(* What a login key is asked for, what a thing's key is asked for, and who *)
(* tells the caller of an operation, then.                                 *)
LoginCalls == {"userKey", "RetrieveKey", "Revoke"}
ThingCalls == {"Publish", "ReadAll"}
Guarded(call, by) ==
    \/ call \in OpenToAll /\ by = "none"
    \/ call \in LoginCalls /\ by = "login"
    \/ call \in ThingCalls /\ by = "things"
    \/ call \notin LoginCalls \cup ThingCalls /\ by \in {"auth", "Identify"}

(* Why a method fails, and what is in order about a method.                *)
Reasons == {"malformed", "missing", "conflict", "denied", "failure", "unavailable", "part"}
MethodOK(call, m, bys) ==
    /\ Guarded(call, m.by) /\ m.by \in bys
    /\ \A f \in m.fails : f[1] \in Reasons /\ (f[1] = "part" => call \in LeavesPart)
    /\ m.drops => call \in ErrorsUnnoticed

(* The auth service tells callers itself, the others ask it or things.     *)
Ask == {"none", "auth", "things"}
Tell == {"none", "login", "Identify"}
By(s) == IF s = "auth" THEN Tell ELSE Ask

(* The methods of every service are in order.                              *)
LEMMA ThingsMethods == \A c \in DOMAIN T!Service : MethodOK(c, T!Service[c], Ask)
<1> USE DEF MethodOK, Ask, Tell, Guarded, LoginCalls, ThingCalls, OpenToAll, Reasons, LeavesPart,
            ErrorsUnnoticed,
            T!Method, T!Unchecked, T!Identified, T!Malformed, T!Missing, T!Conflict, T!Failure
<1>1. \A c \in DOMAIN T!ThingMethods : MethodOK(c, T!ThingMethods[c], Ask)
    BY DEF T!ThingMethods
<1>2. \A c \in DOMAIN T!ChannelMethods : MethodOK(c, T!ChannelMethods[c], Ask)
    BY DEF T!ChannelMethods
<1>3. \A c \in DOMAIN T!GroupMethods : MethodOK(c, T!GroupMethods[c], Ask)
    BY DEF T!GroupMethods, T!Raw
<1>4. \A c \in DOMAIN T!MemberMethods : MethodOK(c, T!MemberMethods[c], Ask)
    BY DEF T!MemberMethods
<1>5. QED
    BY <1>1, <1>2, <1>3, <1>4 DEF T!Service, T!@@

LEMMA UsersMethods == \A c \in DOMAIN U!Service : MethodOK(c, U!Service[c], Ask)
<1> USE DEF MethodOK, Ask, Tell, Guarded, LoginCalls, ThingCalls, OpenToAll, Reasons, LeavesPart,
            ErrorsUnnoticed,
            U!Method, U!Unchecked, U!Open, U!Identified, U!Wrapped, U!Malformed, U!Missing, U!NoUser,
            U!Failure
<1>1. \A c \in DOMAIN U!UserMethods : MethodOK(c, U!UserMethods[c], Ask)
    BY DEF U!UserMethods
<1>2. \A c \in DOMAIN U!PasswordMethods : MethodOK(c, U!PasswordMethods[c], Ask)
    BY DEF U!PasswordMethods
<1>3. \A c \in DOMAIN U!GroupMethods : MethodOK(c, U!GroupMethods[c], Ask)
    BY DEF U!GroupMethods
<1>4. QED
    BY <1>1, <1>2, <1>3 DEF U!Service, U!@@

LEMMA AuthMethods == \A c \in DOMAIN A!Service : MethodOK(c, A!Service[c], Tell)
<1> USE DEF MethodOK, Ask, Tell, Guarded, LoginCalls, ThingCalls, OpenToAll, Reasons, LeavesPart,
            ErrorsUnnoticed,
            A!Method, A!Unchecked, A!Failure
<1>1. \A c \in DOMAIN A!KeyMethods : MethodOK(c, A!KeyMethods[c], Tell)
    BY DEF A!KeyMethods
<1>2. \A c \in DOMAIN A!GroupMethods : MethodOK(c, A!GroupMethods[c], Tell)
    BY DEF A!GroupMethods, A!Raw
<1>3. QED
    BY <1>1, <1>2 DEF A!Service, A!@@

(* The fields of the methods of bootstrap and readers.                     *)
Fields(m, by, layers, fails, drops) ==
    /\ m.checks = <<>> /\ m.then = <<>> /\ m.by = by /\ m.layers = layers
    /\ m.fails = fails /\ m.drops = drops
LEMMA BootstrapFields ==
    \A fails : /\ Fields(B!Identified(fails), "auth", <<"credentials">>, fails, FALSE)
               /\ Fields(B!Unchecked(B!Identified(fails)), "auth", <<"credentials">>, fails, TRUE)
               /\ Fields(B!Unchecked(B!Method("none", <<>>, fails)), "none", <<>>, fails, TRUE)
    BY DEF Fields, B!Method, B!Unchecked, B!Identified

LEMMA BootstrapMethods == \A c \in DOMAIN B!Service : MethodOK(c, B!Service[c], Ask)
<1> USE DEF MethodOK, Ask, Tell, Guarded, LoginCalls, ThingCalls, OpenToAll, Reasons, LeavesPart,
            ErrorsUnnoticed, Fields, B!Part, B!Failure, B!Missing, B!NoThings
<1>1. \A c \in DOMAIN B!ConfigMethods : MethodOK(c, B!ConfigMethods[c], Ask)
    BY BootstrapFields DEF B!ConfigMethods, B!Raw
<1>2. \A c \in DOMAIN B!DeviceMethods : MethodOK(c, B!DeviceMethods[c], Ask)
    BY BootstrapFields DEF B!DeviceMethods, B!Raw
<1>3. QED
    BY <1>1, <1>2 DEF B!Service, B!@@

LEMMA OtherMethods ==
    /\ \A c \in DOMAIN W!Service : MethodOK(c, W!Service[c], Ask)
    /\ \A c \in DOMAIN C!Service : MethodOK(c, C!Service[c], Ask)
    /\ \A c \in DOMAIN P!Service : MethodOK(c, P!Service[c], Ask)
    /\ \A c \in DOMAIN K!Service : MethodOK(c, K!Service[c], Ask)
    /\ \A c \in DOMAIN M!Service : MethodOK(c, M!Service[c], Ask)
    /\ \A c \in DOMAIN R!Service : MethodOK(c, R!Service[c], Ask)
    /\ \A c \in DOMAIN O!Service : MethodOK(c, O!Service[c], Ask)
<1> USE DEF MethodOK, Ask, Tell, Guarded, LoginCalls, ThingCalls, OpenToAll, Reasons, LeavesPart,
            ErrorsUnnoticed
<1>1. \A c \in DOMAIN W!Service : MethodOK(c, W!Service[c], Ask)
    BY DEF W!Service, W!Method, W!Part, W!Raw
<1>2. \A c \in DOMAIN C!Service : MethodOK(c, C!Service[c], Ask)
    BY DEF C!Service, C!Method, C!Unchecked, C!Part, C!Raw
<1>3. \A c \in DOMAIN P!Service : MethodOK(c, P!Service[c], Ask)
    BY DEF P!Service, P!Method
<1>4. \A c \in DOMAIN K!Service : MethodOK(c, K!Service[c], Ask)
    BY DEF K!Service, K!Method, K!Raw
<1>5. \A c \in DOMAIN M!Service : MethodOK(c, M!Service[c], Ask)
    BY DEF M!Service, M!Method, M!Raw
<1>6. \A c \in DOMAIN R!Service : MethodOK(c, R!Service[c], Ask)
    <2>1. DOMAIN R!Service = {"ReadAll"}
        BY DEF R!Service
    <2>2. /\ R!Service.ReadAll.by = "things"
          /\ R!Service.ReadAll.fails = {R!Failure("read_messages")}
        BY DEF R!Service, R!authorize, R!Method, R!Unchecked
    <2>3. QED
        BY <2>1, <2>2 DEF R!Failure
<1>7. \A c \in DOMAIN O!Service : MethodOK(c, O!Service[c], Ask)
    BY DEF O!Service, O!Method
<1>8. QED
    BY <1>1, <1>2, <1>3, <1>4, <1>5, <1>6, <1>7

(***************************************************************************)
(* Every name that a route, an endpoint uses is one of the tables.         *)
(***************************************************************************)
RouteOK(r, decoders, endpoints) == r[3] \in DOMAIN endpoints /\ r[4] \in DOMAIN decoders
EndpointOK(e, requests, calls, responses) ==
    e.req \in DOMAIN requests /\ e.call \in calls /\ e.res \in DOMAIN responses

(* The same for every service, whose responses are all successes.          *)
LEMMA ThingsEndpoints ==
    \A n \in DOMAIN T!Endpoints :
        /\ EndpointOK(T!Endpoints[n], T!Requests, DOMAIN T!Service, T!Responses)
        /\ T!Endpoints[n].masked = FALSE
<1> DEFINE OK(e) == EndpointOK(e, T!Requests, DOMAIN T!Service, T!Responses) /\ e.masked = FALSE
<1>1. DOMAIN T!Requests =
          DOMAIN T!WriteRequests \cup DOMAIN T!ReadRequests \cup DOMAIN T!G!Requests
    BY DEF T!Requests, T!@@
<1>2. DOMAIN T!Service = DOMAIN T!ThingMethods \cup DOMAIN T!ChannelMethods
                             \cup DOMAIN T!GroupMethods \cup DOMAIN T!MemberMethods
    BY DEF T!Service, T!@@
<1>3. DOMAIN T!Responses =
          DOMAIN T!ThingResponses \cup DOMAIN T!ChannelResponses \cup DOMAIN T!G!Responses
    BY DEF T!Responses, T!@@
<1> USE DEF EndpointOK, T!Endpoint, T!Wrapping
<1>4. \A n \in DOMAIN T!ThingEndpoints : OK(T!ThingEndpoints[n])
    BY <1>1, <1>2, <1>3 DEF T!ThingEndpoints, T!WriteRequests, T!ReadRequests,
       T!ThingMethods, T!ThingResponses
<1>5. \A n \in DOMAIN T!ThingListEndpoints : OK(T!ThingListEndpoints[n])
    BY <1>1, <1>2, <1>3 DEF T!ThingListEndpoints, T!ReadRequests, T!ThingMethods, T!ThingResponses
<1>6. \A n \in DOMAIN T!ChannelEndpoints : OK(T!ChannelEndpoints[n])
    BY <1>1, <1>2, <1>3 DEF T!ChannelEndpoints, T!WriteRequests, T!ReadRequests,
       T!ChannelMethods, T!ChannelResponses
<1>7. \A n \in DOMAIN T!ConnectionEndpoints : OK(T!ConnectionEndpoints[n])
    BY <1>1, <1>2, <1>3 DEF T!ConnectionEndpoints, T!ReadRequests,
       T!ChannelMethods, T!ChannelResponses, T!ThingResponses
<1>8. \A n \in DOMAIN T!G!GroupEndpoints : OK(T!G!GroupEndpoints[n])
    BY <1>1, <1>2, <1>3 DEF T!G!GroupEndpoints, T!G!Wrapping, T!G!Endpoint, T!G!Requests,
       T!GroupMethods, T!MemberMethods, T!G!Responses
<1>9. \A n \in DOMAIN T!G!MemberEndpoints : OK(T!G!MemberEndpoints[n])
    BY <1>1, <1>2, <1>3 DEF T!G!MemberEndpoints, T!G!Wrapping, T!G!Endpoint, T!G!Requests,
       T!GroupMethods, T!MemberMethods, T!G!Responses
<1> HIDE DEF OK
<1>10. \A n \in DOMAIN T!Endpoints : OK(T!Endpoints[n])
    BY <1>4, <1>5, <1>6, <1>7, <1>8, <1>9 DEF T!Endpoints, T!@@
<1>11. QED
    BY <1>10 DEF OK

LEMMA ThingsRoutes == \A r \in T!Routes : RouteOK(r, T!Decoders, T!Endpoints)
<1>1. DOMAIN T!Endpoints =
          DOMAIN T!ThingEndpoints \cup DOMAIN T!ThingListEndpoints \cup DOMAIN T!ChannelEndpoints
              \cup DOMAIN T!ConnectionEndpoints
              \cup DOMAIN T!G!GroupEndpoints \cup DOMAIN T!G!MemberEndpoints
    BY DEF T!Endpoints, T!@@
<1>2. DOMAIN T!Decoders = DOMAIN T!BodyDecoders \cup DOMAIN T!ReadDecoders
                              \cup DOMAIN T!G!ListDecoders \cup DOMAIN T!G!GroupDecoders
    BY DEF T!Decoders, T!@@
<1> USE DEF RouteOK
<1>3. \A r \in T!ThingRoutes : RouteOK(r, T!Decoders, T!Endpoints)
    BY <1>1, <1>2 DEF T!ThingRoutes, T!ThingEndpoints, T!ThingListEndpoints,
       T!ConnectionEndpoints, T!BodyDecoders, T!ReadDecoders
<1>4. \A r \in T!ChannelRoutes : RouteOK(r, T!Decoders, T!Endpoints)
    BY <1>1, <1>2 DEF T!ChannelRoutes, T!ThingListEndpoints, T!ChannelEndpoints,
       T!ConnectionEndpoints, T!BodyDecoders, T!ReadDecoders
<1>5. \A r \in T!GroupRoutes : RouteOK(r, T!Decoders, T!Endpoints)
    BY <1>1, <1>2 DEF T!GroupRoutes, T!G!GroupEndpoints, T!G!MemberEndpoints,
       T!G!ListDecoders, T!G!GroupDecoders
<1>6. QED
    BY <1>3, <1>4, <1>5 DEF T!Routes

LEMMA ThingsResponses == \A n \in DOMAIN T!Responses : T!Responses[n] \in 200..299
<1>1. \A n \in DOMAIN T!ThingResponses : T!ThingResponses[n] \in 200..299
    BY DEF T!ThingResponses
<1>2. \A n \in DOMAIN T!ChannelResponses : T!ChannelResponses[n] \in 200..299
    BY DEF T!ChannelResponses
<1>3. \A n \in DOMAIN T!G!Responses : T!G!Responses[n] \in 200..299
    BY DEF T!G!Responses
<1>4. QED
    BY <1>1, <1>2, <1>3 DEF T!Responses, T!@@

LEMMA UsersRoutes == \A r \in U!Routes : RouteOK(r, U!Decoders, U!Endpoints)
<1>1. DOMAIN U!Endpoints =
          DOMAIN U!UserEndpoints \cup DOMAIN U!GroupEndpoints \cup DOMAIN U!GroupViewEndpoints
    BY DEF U!Endpoints, U!@@
<1>2. DOMAIN U!Decoders = DOMAIN U!UserDecoders \cup DOMAIN U!GroupDecoders
    BY DEF U!Decoders, U!@@
<1> USE DEF RouteOK
<1>3. \A r \in U!UserRoutes \cup U!TokenRoutes : RouteOK(r, U!Decoders, U!Endpoints)
    BY <1>1, <1>2 DEF U!UserRoutes, U!TokenRoutes, U!UserEndpoints, U!GroupEndpoints,
       U!UserDecoders, U!GroupDecoders
<1>4. \A r \in U!GroupRoutes : RouteOK(r, U!Decoders, U!Endpoints)
    BY <1>1, <1>2 DEF U!GroupRoutes, U!GroupEndpoints, U!GroupViewEndpoints, U!GroupDecoders
<1>5. QED
    BY <1>3, <1>4 DEF U!Routes

LEMMA UsersEndpoints ==
    \A n \in DOMAIN U!Endpoints :
        /\ EndpointOK(U!Endpoints[n], U!Requests, DOMAIN U!Service, U!Responses)
        /\ U!Endpoints[n].masked = FALSE
<1> DEFINE OK(e) == EndpointOK(e, U!Requests, DOMAIN U!Service, U!Responses) /\ e.masked = FALSE
<1>1. DOMAIN U!Requests = DOMAIN U!UserRequests \cup DOMAIN U!GroupRequests
    BY DEF U!Requests, U!@@
<1>2. DOMAIN U!Service =
          DOMAIN U!UserMethods \cup DOMAIN U!PasswordMethods \cup DOMAIN U!GroupMethods
    BY DEF U!Service, U!@@
<1>3. DOMAIN U!Responses = DOMAIN U!UserResponses \cup DOMAIN U!GroupResponses
    BY DEF U!Responses, U!@@
<1> USE DEF EndpointOK, U!Endpoint, U!Wrapping
<1>4. \A n \in DOMAIN U!UserEndpoints : OK(U!UserEndpoints[n])
    BY <1>1, <1>2, <1>3 DEF U!UserEndpoints, U!UserRequests, U!UserMethods,
       U!PasswordMethods, U!UserResponses, U!GroupResponses
<1>5. \A n \in DOMAIN U!GroupEndpoints : OK(U!GroupEndpoints[n])
    BY <1>1, <1>2, <1>3 DEF U!GroupEndpoints, U!UserRequests, U!GroupRequests,
       U!UserMethods, U!PasswordMethods, U!GroupMethods, U!UserResponses, U!GroupResponses
<1>6. \A n \in DOMAIN U!GroupViewEndpoints : OK(U!GroupViewEndpoints[n])
    BY <1>1, <1>2, <1>3 DEF U!GroupViewEndpoints, U!GroupRequests, U!GroupMethods, U!GroupResponses
<1> HIDE DEF OK
<1>7. \A n \in DOMAIN U!Endpoints : OK(U!Endpoints[n])
    BY <1>4, <1>5, <1>6 DEF U!Endpoints, U!@@
<1>8. QED
    BY <1>7 DEF OK

LEMMA UsersResponses == \A n \in DOMAIN U!Responses : U!Responses[n] \in 200..299
<1>1. \A n \in DOMAIN U!UserResponses : U!UserResponses[n] \in 200..299
    BY DEF U!UserResponses
<1>2. \A n \in DOMAIN U!GroupResponses : U!GroupResponses[n] \in 200..299
    BY DEF U!GroupResponses
<1>3. QED
    BY <1>1, <1>2 DEF U!Responses, U!@@

LEMMA AuthRoutes == \A r \in A!Routes : RouteOK(r, A!Decoders, A!Endpoints)
<1>1. DOMAIN A!Endpoints =
          DOMAIN A!KeyEndpoints \cup DOMAIN A!G!GroupEndpoints \cup DOMAIN A!G!MemberEndpoints
    BY DEF A!Endpoints, A!@@
<1>2. DOMAIN A!Decoders =
          DOMAIN A!KeyDecoders \cup DOMAIN A!G!ListDecoders \cup DOMAIN A!G!GroupDecoders
    BY DEF A!Decoders, A!@@
<1>3. QED
    BY <1>1, <1>2 DEF RouteOK, A!Routes, A!KeyEndpoints, A!G!GroupEndpoints, A!G!MemberEndpoints,
       A!KeyDecoders, A!G!ListDecoders, A!G!GroupDecoders

LEMMA AuthEndpoints ==
    \A n \in DOMAIN A!Endpoints :
        /\ EndpointOK(A!Endpoints[n], A!Requests, DOMAIN A!Service, A!Responses)
        /\ A!Endpoints[n].masked = FALSE
<1> DEFINE OK(e) == EndpointOK(e, A!Requests, DOMAIN A!Service, A!Responses) /\ e.masked = FALSE
<1>1. DOMAIN A!Requests = DOMAIN A!KeyRequests \cup DOMAIN A!G!Requests
    BY DEF A!Requests, A!@@
<1>2. DOMAIN A!Service = DOMAIN A!KeyMethods \cup DOMAIN A!GroupMethods
    BY DEF A!Service, A!@@
<1>3. DOMAIN A!Responses = DOMAIN A!KeyResponses \cup DOMAIN A!G!Responses
    BY DEF A!Responses, A!@@
<1> USE DEF EndpointOK
<1>4. \A n \in DOMAIN A!KeyEndpoints : OK(A!KeyEndpoints[n])
    BY <1>1, <1>2, <1>3 DEF A!Endpoint, A!Wrapping, A!KeyEndpoints, A!KeyRequests, A!KeyMethods,
       A!KeyResponses
<1> USE DEF A!G!Endpoint, A!G!Wrapping
<1>5. \A n \in DOMAIN A!G!GroupEndpoints : OK(A!G!GroupEndpoints[n])
    BY <1>1, <1>2, <1>3 DEF A!G!GroupEndpoints, A!G!Requests, A!GroupMethods, A!G!Responses
<1>6. \A n \in DOMAIN A!G!MemberEndpoints : OK(A!G!MemberEndpoints[n])
    BY <1>1, <1>2, <1>3 DEF A!G!MemberEndpoints, A!G!Requests, A!GroupMethods, A!G!Responses
<1> HIDE DEF OK
<1>7. \A n \in DOMAIN A!Endpoints : OK(A!Endpoints[n])
    BY <1>4, <1>5, <1>6 DEF A!Endpoints, A!@@
<1>8. QED
    BY <1>7 DEF OK

LEMMA AuthResponses == \A n \in DOMAIN A!Responses : A!Responses[n] \in 200..299
<1>1. \A n \in DOMAIN A!KeyResponses : A!KeyResponses[n] \in 200..299
    BY DEF A!KeyResponses
<1>2. \A n \in DOMAIN A!G!Responses : A!G!Responses[n] \in 200..299
    BY DEF A!G!Responses
<1>3. QED
    BY <1>1, <1>2 DEF A!Responses, A!@@

LEMMA BootstrapTables ==
    /\ \A r \in B!Routes : RouteOK(r, B!Decoders, B!Endpoints)
    /\ \A n \in DOMAIN B!Endpoints :
          /\ EndpointOK(B!Endpoints[n], B!Requests, DOMAIN B!Service, B!Responses)
          /\ B!Endpoints[n].masked = FALSE
    /\ \A n \in DOMAIN B!Responses : B!Responses[n] \in 200..299
<1> DEFINE OK(e) == EndpointOK(e, B!Requests, DOMAIN B!Service, B!Responses) /\ e.masked = FALSE
<1>1. DOMAIN B!Endpoints = DOMAIN B!WriteEndpoints \cup DOMAIN B!ReadEndpoints
    BY DEF B!Endpoints, B!@@
<1>2. DOMAIN B!Service = DOMAIN B!ConfigMethods \cup DOMAIN B!DeviceMethods
    BY DEF B!Service, B!@@
<1>3. \A r \in B!Routes : RouteOK(r, B!Decoders, B!Endpoints)
    BY <1>1 DEF RouteOK, B!Routes, B!Decoders, B!WriteEndpoints, B!ReadEndpoints
<1> USE DEF EndpointOK, B!Endpoint, B!Wrapping
<1>4. \A n \in DOMAIN B!WriteEndpoints : OK(B!WriteEndpoints[n])
    BY <1>2 DEF B!WriteEndpoints, B!Requests, B!ConfigMethods, B!Responses
<1>5. \A n \in DOMAIN B!ReadEndpoints : OK(B!ReadEndpoints[n])
    BY <1>2 DEF B!ReadEndpoints, B!Requests, B!DeviceMethods, B!Responses
<1> HIDE DEF OK
<1>6. \A n \in DOMAIN B!Endpoints : OK(B!Endpoints[n])
    BY <1>4, <1>5 DEF B!Endpoints, B!@@
<1>7. \A n \in DOMAIN B!Responses : B!Responses[n] \in 200..299
    BY DEF B!Responses
<1>8. QED
    BY <1>3, <1>6, <1>7 DEF OK

LEMMA TwinsTables ==
    /\ \A r \in W!Routes : RouteOK(r, W!Decoders, W!Endpoints)
    /\ \A n \in DOMAIN W!Endpoints :
          /\ EndpointOK(W!Endpoints[n], W!Requests, DOMAIN W!Service, W!Responses)
          /\ W!Endpoints[n].masked = FALSE
    /\ \A n \in DOMAIN W!Responses : W!Responses[n] \in 200..299
<1> DEFINE OK(e) == EndpointOK(e, W!Requests, DOMAIN W!Service, W!Responses) /\ e.masked = FALSE
<1>1. DOMAIN W!Endpoints = DOMAIN W!TwinEndpoints \cup DOMAIN W!ListEndpoints
    BY DEF W!Endpoints, W!@@
<1>2. DOMAIN W!Decoders = DOMAIN W!BodyDecoders \cup DOMAIN W!ReadDecoders
    BY DEF W!Decoders, W!@@
<1>3. \A r \in W!Routes : RouteOK(r, W!Decoders, W!Endpoints)
    BY <1>1, <1>2 DEF RouteOK, W!Routes, W!BodyDecoders, W!ReadDecoders, W!TwinEndpoints,
       W!ListEndpoints
<1> USE DEF EndpointOK, W!Endpoint, W!Wrapping
<1>4. \A n \in DOMAIN W!TwinEndpoints : OK(W!TwinEndpoints[n])
    BY DEF W!TwinEndpoints, W!Requests, W!Service, W!Responses
<1>5. \A n \in DOMAIN W!ListEndpoints : OK(W!ListEndpoints[n])
    BY DEF W!ListEndpoints, W!Requests, W!Service, W!Responses
<1> HIDE DEF OK
<1>6. \A n \in DOMAIN W!Endpoints : OK(W!Endpoints[n])
    BY <1>4, <1>5 DEF W!Endpoints, W!@@
<1>7. \A n \in DOMAIN W!Responses : W!Responses[n] \in 200..299
    BY DEF W!Responses
<1>8. QED
    BY <1>3, <1>6, <1>7 DEF OK

LEMMA CertsTables ==
    /\ \A r \in C!Routes : RouteOK(r, C!Decoders, C!Endpoints)
    /\ \A n \in DOMAIN C!Endpoints :
          EndpointOK(C!Endpoints[n], C!Requests, DOMAIN C!Service, C!Responses)
    /\ \A n \in DOMAIN C!Responses : C!Responses[n] \in 200..299
    /\ "masked" \in DOMAIN C!Responses
<1>1. \A r \in C!Routes : RouteOK(r, C!Decoders, C!Endpoints)
    BY DEF RouteOK, C!Routes, C!Decoders, C!Endpoints
<1>2. \A n \in DOMAIN C!Endpoints :
          EndpointOK(C!Endpoints[n], C!Requests, DOMAIN C!Service, C!Responses)
    BY DEF EndpointOK, C!Endpoints, C!Endpoint, C!Wrapping, C!Masking, C!Requests, C!Service,
       C!Responses
<1>3. /\ \A n \in DOMAIN C!Responses : C!Responses[n] \in 200..299
      /\ "masked" \in DOMAIN C!Responses
    BY DEF C!Responses
<1>4. QED
    BY <1>1, <1>2, <1>3

LEMMA ProvisionTables ==
    /\ \A r \in P!Routes : RouteOK(r, P!Decoders, P!Endpoints)
    /\ \A n \in DOMAIN P!Endpoints :
          EndpointOK(P!Endpoints[n], P!Requests, DOMAIN P!Service, P!Responses)
    /\ \A n \in DOMAIN P!Responses : P!Responses[n] \in 200..299
    /\ "masked" \in DOMAIN P!Responses
<1>1. \A r \in P!Routes : RouteOK(r, P!Decoders, P!Endpoints)
    BY DEF RouteOK, P!Routes, P!Decoders, P!Endpoints
<1>2. \A n \in DOMAIN P!Endpoints :
          EndpointOK(P!Endpoints[n], P!Requests, DOMAIN P!Service, P!Responses)
    BY DEF EndpointOK, P!Endpoints, P!Endpoint, P!Wrapping, P!Masking, P!Requests, P!Service,
       P!Responses
<1>3. /\ \A n \in DOMAIN P!Responses : P!Responses[n] \in 200..299
      /\ "masked" \in DOMAIN P!Responses
    BY DEF P!Responses
<1>4. QED
    BY <1>1, <1>2, <1>3

LEMMA AccessTables ==
    /\ \A r \in K!Routes : RouteOK(r, K!Decoders, K!Endpoints)
    /\ \A n \in DOMAIN K!Endpoints :
          /\ EndpointOK(K!Endpoints[n], K!Requests, DOMAIN K!Service, K!Responses)
          /\ K!Endpoints[n].masked = FALSE
    /\ \A n \in DOMAIN K!Responses : K!Responses[n] \in 200..299
<1>1. \A r \in K!Routes : RouteOK(r, K!Decoders, K!Endpoints)
    BY DEF RouteOK, K!Routes, K!Decoders, K!Endpoints
<1>2. \A n \in DOMAIN K!Endpoints :
          /\ EndpointOK(K!Endpoints[n], K!Requests, DOMAIN K!Service, K!Responses)
          /\ K!Endpoints[n].masked = FALSE
    BY DEF EndpointOK, K!Endpoints, K!Endpoint, K!Wrapping, K!Requests, K!Service, K!Responses
<1>3. \A n \in DOMAIN K!Responses : K!Responses[n] \in 200..299
    BY DEF K!Responses
<1>4. QED
    BY <1>1, <1>2, <1>3

LEMMA MessagesTables ==
    /\ \A r \in M!Routes : RouteOK(r, M!Decoders, M!Endpoints)
    /\ \A n \in DOMAIN M!Endpoints :
          /\ EndpointOK(M!Endpoints[n], M!Requests, DOMAIN M!Service, M!Responses)
          /\ M!Endpoints[n].masked = FALSE
    /\ \A n \in DOMAIN M!Responses : M!Responses[n] \in 200..299
<1>1. \A r \in M!Routes : RouteOK(r, M!Decoders, M!Endpoints)
    BY DEF RouteOK, M!Routes, M!Decoders, M!Endpoints
<1>2. \A n \in DOMAIN M!Endpoints :
          /\ EndpointOK(M!Endpoints[n], M!Requests, DOMAIN M!Service, M!Responses)
          /\ M!Endpoints[n].masked = FALSE
    BY DEF EndpointOK, M!Endpoints, M!Endpoint, M!Wrapping, M!Requests, M!Service, M!Responses
<1>3. \A n \in DOMAIN M!Responses : M!Responses[n] \in 200..299
    BY DEF M!Responses
<1>4. QED
    BY <1>1, <1>2, <1>3

LEMMA ReadersTables ==
    /\ \A r \in R!Routes : RouteOK(r, R!Decoders, R!Endpoints)
    /\ \A n \in DOMAIN R!Endpoints :
          /\ EndpointOK(R!Endpoints[n], R!Requests, DOMAIN R!Service, R!Responses)
          /\ R!Endpoints[n].masked = FALSE
    /\ \A n \in DOMAIN R!Responses : R!Responses[n] \in 200..299
<1>1. \A r \in R!Routes : RouteOK(r, R!Decoders, R!Endpoints)
    BY DEF RouteOK, R!Routes, R!Decoders, R!Endpoints
<1>2. \A n \in DOMAIN R!Endpoints :
          /\ EndpointOK(R!Endpoints[n], R!Requests, DOMAIN R!Service, R!Responses)
          /\ R!Endpoints[n].masked = FALSE
    BY DEF EndpointOK, R!Endpoints, R!Endpoint, R!Wrapping, R!Requests, R!Service, R!Responses
<1>3. \A n \in DOMAIN R!Responses : R!Responses[n] \in 200..299
    BY DEF R!Responses
<1>4. QED
    BY <1>1, <1>2, <1>3

LEMMA OpcuaTables ==
    /\ \A r \in O!Routes : RouteOK(r, O!Decoders, O!Endpoints)
    /\ \A n \in DOMAIN O!Endpoints :
          /\ EndpointOK(O!Endpoints[n], O!Requests, DOMAIN O!Service, O!Responses)
          /\ O!Endpoints[n].masked = FALSE
    /\ \A n \in DOMAIN O!Responses : O!Responses[n] \in 200..299
<1>1. \A r \in O!Routes : RouteOK(r, O!Decoders, O!Endpoints)
    BY DEF RouteOK, O!Routes, O!Decoders, O!Endpoints
<1>2. \A n \in DOMAIN O!Endpoints :
          /\ EndpointOK(O!Endpoints[n], O!Requests, DOMAIN O!Service, O!Responses)
          /\ O!Endpoints[n].masked = FALSE
    BY DEF EndpointOK, O!Endpoints, O!Endpoint, O!Wrapping, O!Requests, O!Service, O!Responses
<1>3. \A n \in DOMAIN O!Responses : O!Responses[n] \in 200..299
    BY DEF O!Responses
<1>4. QED
    BY <1>1, <1>2, <1>3

(***************************************************************************)
(* encodeError                                                             *)
(***************************************************************************)
(* The least of a set of numbers is one of them.                           *)
LEMMA FirstIsLeast ==
    ASSUME NEW D \in SUBSET Nat, D # {}
    PROVE  First(D) \in D /\ \A j \in D : First(D) <= j
<1>1. PICK i \in D : \A j \in D : ~(<<j, i>> \in OpToRel(<, Nat))
    BY NatLessThanWellFounded, WFMin
<1>2. \A j \in D : i <= j
  <2> SUFFICES ASSUME NEW j \in D PROVE i <= j
      OBVIOUS
  <2>1. i \in Nat /\ j \in Nat
      OBVIOUS
  <2>2. ~(j < i)
      BY <1>1, <2>1 DEF OpToRel
  <2>3. QED
      BY <2>1, <2>2
<1>3. QED
    BY <1>1, <1>2 DEF First

(* What encodeError answers is no success, and a code of a client's fault  *)
(* for an error that matches one of the first K cases.                     *)
Coded(code_, matched) == code_ \in 400..503 /\ (matched => code_ \in 400..499)

(* The code of encodeError, for each service.                              *)
LEMMA ThingsCodes ==
    \A e : Coded(T!EncodeError(e), \E i \in 1..9 : \E m \in T!ErrorCodes[i][1] :
                                      e[1] # Raw /\ Contains(e, m))
<1> SUFFICES ASSUME NEW e
             PROVE  Coded(T!EncodeError(e), \E i \in 1..9 : \E m \in T!ErrorCodes[i][1] :
                                                e[1] # Raw /\ Contains(e, m))
    OBVIOUS
<1> DEFINE hits == {i \in 1..10 : \E m \in T!ErrorCodes[i][1] : e[1] # Raw /\ Contains(e, m)}
<1>1. /\ Len(T!ErrorCodes) = 10
      /\ \A i \in 1..10 : T!ErrorCodes[i][2] \in 400..503
      /\ \A i \in 1..9 : T!ErrorCodes[i][2] \in 400..499
    BY DEF T!ErrorCodes
<1>2. T!EncodeError(e) = IF hits = {} THEN 500 ELSE T!ErrorCodes[First(hits)][2]
    BY <1>1 DEF T!EncodeError, T!FirstCode, T!First, First, T!Raw, Raw, T!Contains, Contains
<1>3. /\ hits \subseteq 1..10
      /\ (\E i \in 1..9 : \E m \in T!ErrorCodes[i][1] : e[1] # Raw /\ Contains(e, m))
             => \E i \in hits : i <= 9
    OBVIOUS
<1> DEFINE first == First(hits)
<1> HIDE DEF hits
<1>4. hits # {} => first \in hits /\ \A j \in hits : first <= j
  <2>1. hits \in SUBSET Nat
      BY <1>3
  <2>2. QED
      BY <2>1, FirstIsLeast
<1> HIDE DEF first
<1>5. T!EncodeError(e) = IF hits = {} THEN 500 ELSE T!ErrorCodes[first][2]
    BY <1>2 DEF first
<1>6. hits # {} => first \in 1..10
    BY <1>3, <1>4
<1>7. (\E i \in hits : i <= 9) => hits # {} /\ first \in 1..9
    BY <1>3, <1>4, <1>6
<1>8. /\ T!EncodeError(e) \in 400..503
      /\ (\E i \in hits : i <= 9) => T!EncodeError(e) \in 400..499
    BY <1>1, <1>5, <1>6, <1>7
<1>9. QED
    BY <1>3, <1>8 DEF Coded

LEMMA UsersCodes ==
    \A e : Coded(U!EncodeError(e), \E i \in 1..10 : \E m \in U!ErrorCodes[i][1] :
                                      e[1] # Raw /\ Contains(e, m))
<1> SUFFICES ASSUME NEW e
             PROVE  Coded(U!EncodeError(e), \E i \in 1..10 : \E m \in U!ErrorCodes[i][1] :
                                                e[1] # Raw /\ Contains(e, m))
    OBVIOUS
<1> DEFINE hits == {i \in 1..10 : \E m \in U!ErrorCodes[i][1] : e[1] # Raw /\ Contains(e, m)}
<1>1. /\ Len(U!ErrorCodes) = 10
      /\ \A i \in 1..10 : U!ErrorCodes[i][2] \in 400..503
      /\ \A i \in 1..10 : U!ErrorCodes[i][2] \in 400..499
    BY DEF U!ErrorCodes
<1>2. U!EncodeError(e) = IF hits = {} THEN 500 ELSE U!ErrorCodes[First(hits)][2]
    BY <1>1 DEF U!EncodeError, U!FirstCode, U!First, First, U!Raw, Raw, U!Contains, Contains
<1>3. /\ hits \subseteq 1..10
      /\ (\E i \in 1..10 : \E m \in U!ErrorCodes[i][1] : e[1] # Raw /\ Contains(e, m))
             => \E i \in hits : i <= 10
    OBVIOUS
<1> DEFINE first == First(hits)
<1> HIDE DEF hits
<1>4. hits # {} => first \in hits /\ \A j \in hits : first <= j
  <2>1. hits \in SUBSET Nat
      BY <1>3
  <2>2. QED
      BY <2>1, FirstIsLeast
<1> HIDE DEF first
<1>5. U!EncodeError(e) = IF hits = {} THEN 500 ELSE U!ErrorCodes[first][2]
    BY <1>2 DEF first
<1>6. hits # {} => first \in 1..10
    BY <1>3, <1>4
<1>7. (\E i \in hits : i <= 10) => hits # {} /\ first \in 1..10
    BY <1>3, <1>4, <1>6
<1>8. /\ U!EncodeError(e) \in 400..503
      /\ (\E i \in hits : i <= 10) => U!EncodeError(e) \in 400..499
    BY <1>1, <1>5, <1>6, <1>7
<1>9. QED
    BY <1>3, <1>8 DEF Coded

LEMMA AuthCodes ==
    \A e : Coded(A!EncodeError(e), \E i \in 1..7 : \E m \in A!ErrorCodes[i][1] :
                                      Contains(e, m))
<1> SUFFICES ASSUME NEW e
             PROVE  Coded(A!EncodeError(e), \E i \in 1..7 : \E m \in A!ErrorCodes[i][1] :
                                                Contains(e, m))
    OBVIOUS
<1> DEFINE hits == {i \in 1..7 : \E m \in A!ErrorCodes[i][1] : Contains(e, m)}
<1>1. /\ Len(A!ErrorCodes) = 7
      /\ \A i \in 1..7 : A!ErrorCodes[i][2] \in 400..503
      /\ \A i \in 1..7 : A!ErrorCodes[i][2] \in 400..499
    BY DEF A!ErrorCodes
<1>2. A!EncodeError(e) = IF hits = {} THEN 500 ELSE A!ErrorCodes[First(hits)][2]
    BY <1>1 DEF A!EncodeError, A!FirstCode, A!First, First, A!Raw, Raw, A!Contains, Contains
<1>3. /\ hits \subseteq 1..7
      /\ (\E i \in 1..7 : \E m \in A!ErrorCodes[i][1] : Contains(e, m))
             => \E i \in hits : i <= 7
    OBVIOUS
<1> DEFINE first == First(hits)
<1> HIDE DEF hits
<1>4. hits # {} => first \in hits /\ \A j \in hits : first <= j
  <2>1. hits \in SUBSET Nat
      BY <1>3
  <2>2. QED
      BY <2>1, FirstIsLeast
<1> HIDE DEF first
<1>5. A!EncodeError(e) = IF hits = {} THEN 500 ELSE A!ErrorCodes[first][2]
    BY <1>2 DEF first
<1>6. hits # {} => first \in 1..7
    BY <1>3, <1>4
<1>7. (\E i \in hits : i <= 7) => hits # {} /\ first \in 1..7
    BY <1>3, <1>4, <1>6
<1>8. /\ A!EncodeError(e) \in 400..503
      /\ (\E i \in hits : i <= 7) => A!EncodeError(e) \in 400..499
    BY <1>1, <1>5, <1>6, <1>7
<1>9. QED
    BY <1>3, <1>8 DEF Coded

LEMMA BootstrapCodes ==
    \A e : Coded(B!EncodeError(e), \E i \in 1..6 : \E m \in B!ErrorCodes[i][1] :
                                      e[1] # Raw /\ Contains(e, m))
<1> SUFFICES ASSUME NEW e
             PROVE  Coded(B!EncodeError(e), \E i \in 1..6 : \E m \in B!ErrorCodes[i][1] :
                                                e[1] # Raw /\ Contains(e, m))
    OBVIOUS
<1> DEFINE hits == {i \in 1..9 : \E m \in B!ErrorCodes[i][1] : e[1] # Raw /\ Contains(e, m)}
<1>1. /\ Len(B!ErrorCodes) = 9
      /\ \A i \in 1..9 : B!ErrorCodes[i][2] \in 400..503
      /\ \A i \in 1..6 : B!ErrorCodes[i][2] \in 400..499
    BY DEF B!ErrorCodes
<1>2. B!EncodeError(e) = IF hits = {} THEN 500 ELSE B!ErrorCodes[First(hits)][2]
    BY <1>1 DEF B!EncodeError, B!FirstCode, B!First, First, B!Raw, Raw, B!Contains, Contains
<1>3. /\ hits \subseteq 1..9
      /\ (\E i \in 1..6 : \E m \in B!ErrorCodes[i][1] : e[1] # Raw /\ Contains(e, m))
             => \E i \in hits : i <= 6
    OBVIOUS
<1> DEFINE first == First(hits)
<1> HIDE DEF hits
<1>4. hits # {} => first \in hits /\ \A j \in hits : first <= j
  <2>1. hits \in SUBSET Nat
      BY <1>3
  <2>2. QED
      BY <2>1, FirstIsLeast
<1> HIDE DEF first
<1>5. B!EncodeError(e) = IF hits = {} THEN 500 ELSE B!ErrorCodes[first][2]
    BY <1>2 DEF first
<1>6. hits # {} => first \in 1..9
    BY <1>3, <1>4
<1>7. (\E i \in hits : i <= 6) => hits # {} /\ first \in 1..6
    BY <1>3, <1>4, <1>6
<1>8. /\ B!EncodeError(e) \in 400..503
      /\ (\E i \in hits : i <= 6) => B!EncodeError(e) \in 400..499
    BY <1>1, <1>5, <1>6, <1>7
<1>9. QED
    BY <1>3, <1>8 DEF Coded

LEMMA TwinsCodes ==
    \A e : Coded(W!EncodeError(e), \E i \in 1..9 : \E m \in W!ErrorCodes[i][1] :
                                      e \in {<<m>>, <<Raw, m>>})
<1> SUFFICES ASSUME NEW e
             PROVE  Coded(W!EncodeError(e), \E i \in 1..9 : \E m \in W!ErrorCodes[i][1] :
                                                e \in {<<m>>, <<Raw, m>>})
    OBVIOUS
<1> DEFINE hits == {i \in 1..9 : \E m \in W!ErrorCodes[i][1] : e \in {<<m>>, <<Raw, m>>}}
<1>1. /\ Len(W!ErrorCodes) = 9
      /\ \A i \in 1..9 : W!ErrorCodes[i][2] \in 400..503
      /\ \A i \in 1..9 : W!ErrorCodes[i][2] \in 400..499
    BY DEF W!ErrorCodes
<1>2. W!EncodeError(e) = IF hits = {} THEN 500 ELSE W!ErrorCodes[First(hits)][2]
    BY <1>1 DEF W!EncodeError, W!FirstCode, W!First, First, W!Raw, Raw, W!Contains, Contains
<1>3. /\ hits \subseteq 1..9
      /\ (\E i \in 1..9 : \E m \in W!ErrorCodes[i][1] : e \in {<<m>>, <<Raw, m>>})
             => \E i \in hits : i <= 9
    OBVIOUS
<1> DEFINE first == First(hits)
<1> HIDE DEF hits
<1>4. hits # {} => first \in hits /\ \A j \in hits : first <= j
  <2>1. hits \in SUBSET Nat
      BY <1>3
  <2>2. QED
      BY <2>1, FirstIsLeast
<1> HIDE DEF first
<1>5. W!EncodeError(e) = IF hits = {} THEN 500 ELSE W!ErrorCodes[first][2]
    BY <1>2 DEF first
<1>6. hits # {} => first \in 1..9
    BY <1>3, <1>4
<1>7. (\E i \in hits : i <= 9) => hits # {} /\ first \in 1..9
    BY <1>3, <1>4, <1>6
<1>8. /\ W!EncodeError(e) \in 400..503
      /\ (\E i \in hits : i <= 9) => W!EncodeError(e) \in 400..499
    BY <1>1, <1>5, <1>6, <1>7
<1>9. QED
    BY <1>3, <1>8 DEF Coded

LEMMA CertsCodes ==
    \A e : Coded(C!EncodeError(e), \E i \in 1..4 : \E m \in C!ErrorCodes[i][1] :
                                      e \in {<<m>>, <<Raw, m>>})
<1> SUFFICES ASSUME NEW e
             PROVE  Coded(C!EncodeError(e), \E i \in 1..4 : \E m \in C!ErrorCodes[i][1] :
                                                e \in {<<m>>, <<Raw, m>>})
    OBVIOUS
<1> DEFINE hits == {i \in 1..4 : \E m \in C!ErrorCodes[i][1] : e \in {<<m>>, <<Raw, m>>}}
<1>1. /\ Len(C!ErrorCodes) = 4
      /\ \A i \in 1..4 : C!ErrorCodes[i][2] \in 400..503
      /\ \A i \in 1..4 : C!ErrorCodes[i][2] \in 400..499
    BY DEF C!ErrorCodes
<1>2. C!EncodeError(e) = IF hits = {} THEN 500 ELSE C!ErrorCodes[First(hits)][2]
    BY <1>1 DEF C!EncodeError, C!FirstCode, C!First, First, C!Raw, Raw, C!Contains, Contains
<1>3. /\ hits \subseteq 1..4
      /\ (\E i \in 1..4 : \E m \in C!ErrorCodes[i][1] : e \in {<<m>>, <<Raw, m>>})
             => \E i \in hits : i <= 4
    OBVIOUS
<1> DEFINE first == First(hits)
<1> HIDE DEF hits
<1>4. hits # {} => first \in hits /\ \A j \in hits : first <= j
  <2>1. hits \in SUBSET Nat
      BY <1>3
  <2>2. QED
      BY <2>1, FirstIsLeast
<1> HIDE DEF first
<1>5. C!EncodeError(e) = IF hits = {} THEN 500 ELSE C!ErrorCodes[first][2]
    BY <1>2 DEF first
<1>6. hits # {} => first \in 1..4
    BY <1>3, <1>4
<1>7. (\E i \in hits : i <= 4) => hits # {} /\ first \in 1..4
    BY <1>3, <1>4, <1>6
<1>8. /\ C!EncodeError(e) \in 400..503
      /\ (\E i \in hits : i <= 4) => C!EncodeError(e) \in 400..499
    BY <1>1, <1>5, <1>6, <1>7
<1>9. QED
    BY <1>3, <1>8 DEF Coded

LEMMA ProvisionCodes ==
    \A e : Coded(P!EncodeError(e), \E i \in 1..4 : \E m \in P!ErrorCodes[i][1] :
                                      e \in {<<m>>, <<Raw, m>>})
<1> SUFFICES ASSUME NEW e
             PROVE  Coded(P!EncodeError(e), \E i \in 1..4 : \E m \in P!ErrorCodes[i][1] :
                                                e \in {<<m>>, <<Raw, m>>})
    OBVIOUS
<1> DEFINE hits == {i \in 1..4 : \E m \in P!ErrorCodes[i][1] : e \in {<<m>>, <<Raw, m>>}}
<1>1. /\ Len(P!ErrorCodes) = 4
      /\ \A i \in 1..4 : P!ErrorCodes[i][2] \in 400..503
      /\ \A i \in 1..4 : P!ErrorCodes[i][2] \in 400..499
    BY DEF P!ErrorCodes
<1>2. P!EncodeError(e) = IF hits = {} THEN 500 ELSE P!ErrorCodes[First(hits)][2]
    BY <1>1 DEF P!EncodeError, P!FirstCode, P!First, First, P!Raw, Raw, P!Contains, Contains
<1>3. /\ hits \subseteq 1..4
      /\ (\E i \in 1..4 : \E m \in P!ErrorCodes[i][1] : e \in {<<m>>, <<Raw, m>>})
             => \E i \in hits : i <= 4
    OBVIOUS
<1> DEFINE first == First(hits)
<1> HIDE DEF hits
<1>4. hits # {} => first \in hits /\ \A j \in hits : first <= j
  <2>1. hits \in SUBSET Nat
      BY <1>3
  <2>2. QED
      BY <2>1, FirstIsLeast
<1> HIDE DEF first
<1>5. P!EncodeError(e) = IF hits = {} THEN 500 ELSE P!ErrorCodes[first][2]
    BY <1>2 DEF first
<1>6. hits # {} => first \in 1..4
    BY <1>3, <1>4
<1>7. (\E i \in hits : i <= 4) => hits # {} /\ first \in 1..4
    BY <1>3, <1>4, <1>6
<1>8. /\ P!EncodeError(e) \in 400..503
      /\ (\E i \in hits : i <= 4) => P!EncodeError(e) \in 400..499
    BY <1>1, <1>5, <1>6, <1>7
<1>9. QED
    BY <1>3, <1>8 DEF Coded

LEMMA AccessCodes ==
    \A e : Coded(K!EncodeError(e), \E i \in 1..7 : \E m \in K!ErrorCodes[i][1] :
                                      e \in {<<m>>, <<Raw, m>>})
<1> SUFFICES ASSUME NEW e
             PROVE  Coded(K!EncodeError(e), \E i \in 1..7 : \E m \in K!ErrorCodes[i][1] :
                                                e \in {<<m>>, <<Raw, m>>})
    OBVIOUS
<1> DEFINE hits == {i \in 1..7 : \E m \in K!ErrorCodes[i][1] : e \in {<<m>>, <<Raw, m>>}}
<1>1. /\ Len(K!ErrorCodes) = 7
      /\ \A i \in 1..7 : K!ErrorCodes[i][2] \in 400..503
      /\ \A i \in 1..7 : K!ErrorCodes[i][2] \in 400..499
    BY DEF K!ErrorCodes
<1>2. K!EncodeError(e) = IF hits = {} THEN 500 ELSE K!ErrorCodes[First(hits)][2]
    BY <1>1 DEF K!EncodeError, K!FirstCode, K!First, First, K!Raw, Raw, K!Contains, Contains
<1>3. /\ hits \subseteq 1..7
      /\ (\E i \in 1..7 : \E m \in K!ErrorCodes[i][1] : e \in {<<m>>, <<Raw, m>>})
             => \E i \in hits : i <= 7
    OBVIOUS
<1> DEFINE first == First(hits)
<1> HIDE DEF hits
<1>4. hits # {} => first \in hits /\ \A j \in hits : first <= j
  <2>1. hits \in SUBSET Nat
      BY <1>3
  <2>2. QED
      BY <2>1, FirstIsLeast
<1> HIDE DEF first
<1>5. K!EncodeError(e) = IF hits = {} THEN 500 ELSE K!ErrorCodes[first][2]
    BY <1>2 DEF first
<1>6. hits # {} => first \in 1..7
    BY <1>3, <1>4
<1>7. (\E i \in hits : i <= 7) => hits # {} /\ first \in 1..7
    BY <1>3, <1>4, <1>6
<1>8. /\ K!EncodeError(e) \in 400..503
      /\ (\E i \in hits : i <= 7) => K!EncodeError(e) \in 400..499
    BY <1>1, <1>5, <1>6, <1>7
<1>9. QED
    BY <1>3, <1>8 DEF Coded

LEMMA MessagesCodes ==
    \A e : Coded(M!EncodeError(e), \E i \in 1..2 : \E m \in M!ErrorCodes[i][1] :
                                      e = <<Raw, m>>)
<1> SUFFICES ASSUME NEW e
             PROVE  Coded(M!EncodeError(e), \E i \in 1..2 : \E m \in M!ErrorCodes[i][1] :
                                                e = <<Raw, m>>)
    OBVIOUS
<1> DEFINE hits == {i \in 1..3 : \E m \in M!ErrorCodes[i][1] : e = <<Raw, m>>}
<1>1. /\ Len(M!ErrorCodes) = 3
      /\ \A i \in 1..3 : M!ErrorCodes[i][2] \in 400..503
      /\ \A i \in 1..2 : M!ErrorCodes[i][2] \in 400..499
    BY DEF M!ErrorCodes
<1>2. M!EncodeError(e) = IF hits = {} THEN 500 ELSE M!ErrorCodes[First(hits)][2]
    BY <1>1 DEF M!EncodeError, M!FirstCode, M!First, First, M!Raw, Raw, M!Contains, Contains
<1>3. /\ hits \subseteq 1..3
      /\ (\E i \in 1..2 : \E m \in M!ErrorCodes[i][1] : e = <<Raw, m>>)
             => \E i \in hits : i <= 2
    OBVIOUS
<1> DEFINE first == First(hits)
<1> HIDE DEF hits
<1>4. hits # {} => first \in hits /\ \A j \in hits : first <= j
  <2>1. hits \in SUBSET Nat
      BY <1>3
  <2>2. QED
      BY <2>1, FirstIsLeast
<1> HIDE DEF first
<1>5. M!EncodeError(e) = IF hits = {} THEN 500 ELSE M!ErrorCodes[first][2]
    BY <1>2 DEF first
<1>6. hits # {} => first \in 1..3
    BY <1>3, <1>4
<1>7. (\E i \in hits : i <= 2) => hits # {} /\ first \in 1..2
    BY <1>3, <1>4, <1>6
<1>8. /\ M!EncodeError(e) \in 400..503
      /\ (\E i \in hits : i <= 2) => M!EncodeError(e) \in 400..499
    BY <1>1, <1>5, <1>6, <1>7
<1>9. QED
    BY <1>3, <1>8 DEF Coded

LEMMA ReadersCodes ==
    \A e : Coded(R!EncodeError(e), \E i \in 1..2 : \E m \in R!ErrorCodes[i][1] :
                                      (e[1] # Raw /\ Contains(e, m)) \/ e = <<Raw, m>>)
<1> SUFFICES ASSUME NEW e
             PROVE  Coded(R!EncodeError(e), \E i \in 1..2 : \E m \in R!ErrorCodes[i][1] :
                                                (e[1] # Raw /\ Contains(e, m)) \/ e = <<Raw, m>>)
    OBVIOUS
<1> DEFINE hits == {i \in 1..2 : \E m \in R!ErrorCodes[i][1] :
                       (e[1] # Raw /\ Contains(e, m)) \/ e = <<Raw, m>>}
<1>1. /\ Len(R!ErrorCodes) = 2
      /\ \A i \in 1..2 : R!ErrorCodes[i][2] \in 400..503
      /\ \A i \in 1..2 : R!ErrorCodes[i][2] \in 400..499
    BY DEF R!ErrorCodes
<1>2. R!EncodeError(e) = IF hits = {} THEN 500 ELSE R!ErrorCodes[First(hits)][2]
    BY <1>1 DEF R!EncodeError, R!FirstCode, R!First, First, R!Raw, Raw, R!Contains, Contains
<1>3. /\ hits \subseteq 1..2
      /\ (\E i \in 1..2 : \E m \in R!ErrorCodes[i][1] :
             (e[1] # Raw /\ Contains(e, m)) \/ e = <<Raw, m>>)
             => \E i \in hits : i <= 2
    OBVIOUS
<1> DEFINE first == First(hits)
<1> HIDE DEF hits
<1>4. hits # {} => first \in hits /\ \A j \in hits : first <= j
  <2>1. hits \in SUBSET Nat
      BY <1>3
  <2>2. QED
      BY <2>1, FirstIsLeast
<1> HIDE DEF first
<1>5. R!EncodeError(e) = IF hits = {} THEN 500 ELSE R!ErrorCodes[first][2]
    BY <1>2 DEF first
<1>6. hits # {} => first \in 1..2
    BY <1>3, <1>4
<1>7. (\E i \in hits : i <= 2) => hits # {} /\ first \in 1..2
    BY <1>3, <1>4, <1>6
<1>8. /\ R!EncodeError(e) \in 400..503
      /\ (\E i \in hits : i <= 2) => R!EncodeError(e) \in 400..499
    BY <1>1, <1>5, <1>6, <1>7
<1>9. QED
    BY <1>3, <1>8 DEF Coded

LEMMA OpcuaCodes ==
    \A e : Coded(O!EncodeError(e), \E i \in 1..2 : \E m \in O!ErrorCodes[i][1] :
                                      e = <<Raw, m>>)
<1> SUFFICES ASSUME NEW e
             PROVE  Coded(O!EncodeError(e), \E i \in 1..2 : \E m \in O!ErrorCodes[i][1] :
                                                e = <<Raw, m>>)
    OBVIOUS
<1> DEFINE hits == {i \in 1..2 : \E m \in O!ErrorCodes[i][1] : e = <<Raw, m>>}
<1>1. /\ Len(O!ErrorCodes) = 2
      /\ \A i \in 1..2 : O!ErrorCodes[i][2] \in 400..503
      /\ \A i \in 1..2 : O!ErrorCodes[i][2] \in 400..499
    BY DEF O!ErrorCodes
<1>2. O!EncodeError(e) = IF hits = {} THEN 500 ELSE O!ErrorCodes[First(hits)][2]
    BY <1>1 DEF O!EncodeError, O!FirstCode, O!First, First, O!Raw, Raw, O!Contains, Contains
<1>3. /\ hits \subseteq 1..2
      /\ (\E i \in 1..2 : \E m \in O!ErrorCodes[i][1] : e = <<Raw, m>>)
             => \E i \in hits : i <= 2
    OBVIOUS
<1> DEFINE first == First(hits)
<1> HIDE DEF hits
<1>4. hits # {} => first \in hits /\ \A j \in hits : first <= j
  <2>1. hits \in SUBSET Nat
      BY <1>3
  <2>2. QED
      BY <2>1, FirstIsLeast
<1> HIDE DEF first
<1>5. O!EncodeError(e) = IF hits = {} THEN 500 ELSE O!ErrorCodes[first][2]
    BY <1>2 DEF first
<1>6. hits # {} => first \in 1..2
    BY <1>3, <1>4
<1>7. (\E i \in hits : i <= 2) => hits # {} /\ first \in 1..2
    BY <1>3, <1>4, <1>6
<1>8. /\ O!EncodeError(e) \in 400..503
      /\ (\E i \in hits : i <= 2) => O!EncodeError(e) \in 400..499
    BY <1>1, <1>5, <1>6, <1>7
<1>9. QED
    BY <1>3, <1>8 DEF Coded

(***************************************************************************)
(* The services together                                                   *)
(***************************************************************************)
ServiceNames ==
    {"things", "users", "auth", "bootstrap", "twins", "certs", "provision", "access", "http",
     "readers", "opcua"}
LEMMA ApiNames == DOMAIN Apis = ServiceNames
    BY DEF Apis, ServiceNames

(* What has been shown of the tables of a service, together.               *)
ApiOK(a, bys) ==
    /\ \A r \in a.routes : RouteOK(r, a.decoders, a.endpoints)
    /\ \A n \in DOMAIN a.endpoints :
          /\ EndpointOK(a.endpoints[n], a.requests, DOMAIN a.service, a.responses)
          /\ a.endpoints[n].masked => "masked" \in DOMAIN a.responses
    /\ \A n \in DOMAIN a.responses : a.responses[n] \in 200..299
    /\ \A c \in DOMAIN a.service : MethodOK(c, a.service[c], bys)

LEMMA ApisOK == \A s \in ServiceNames : ApiOK(Apis[s], By(s))
<1>1. ApiOK(Apis.things, By("things"))
  <2>1. Apis.things = Of(T!Routes, T!Decoders, T!Requests, T!Endpoints, T!Responses, T!Service)
      BY DEF Apis
  <2>2. QED
      BY <2>1, ThingsRoutes, ThingsEndpoints, ThingsResponses, ThingsMethods DEF Of, ApiOK, By
<1>2. ApiOK(Apis.users, By("users"))
  <2>1. Apis.users = Of(U!Routes, U!Decoders, U!Requests, U!Endpoints, U!Responses, U!Service)
      BY DEF Apis
  <2>2. QED
      BY <2>1, UsersRoutes, UsersEndpoints, UsersResponses, UsersMethods DEF Of, ApiOK, By
<1>3. ApiOK(Apis.auth, By("auth"))
  <2>1. Apis.auth = Of(A!Routes, A!Decoders, A!Requests, A!Endpoints, A!Responses, A!Service)
      BY DEF Apis
  <2>2. QED
      BY <2>1, AuthRoutes, AuthEndpoints, AuthResponses, AuthMethods DEF Of, ApiOK, By
<1>4. ApiOK(Apis.bootstrap, By("bootstrap"))
  <2>1. Apis.bootstrap = Of(B!Routes, B!Decoders, B!Requests, B!Endpoints, B!Responses, B!Service)
      BY DEF Apis
  <2>2. QED
      BY <2>1, BootstrapTables, BootstrapMethods DEF Of, ApiOK, By
<1>5. ApiOK(Apis.twins, By("twins"))
  <2>1. Apis.twins = Of(W!Routes, W!Decoders, W!Requests, W!Endpoints, W!Responses, W!Service)
      BY DEF Apis
  <2>2. QED
      BY <2>1, TwinsTables, OtherMethods DEF Of, ApiOK, By
<1>6. ApiOK(Apis.certs, By("certs"))
  <2>1. Apis.certs = Of(C!Routes, C!Decoders, C!Requests, C!Endpoints, C!Responses, C!Service)
      BY DEF Apis
  <2>2. QED
      BY <2>1, CertsTables, OtherMethods DEF Of, ApiOK, By
<1>7. ApiOK(Apis.provision, By("provision"))
  <2>1. Apis.provision = Of(P!Routes, P!Decoders, P!Requests, P!Endpoints, P!Responses, P!Service)
      BY DEF Apis
  <2>2. QED
      BY <2>1, ProvisionTables, OtherMethods DEF Of, ApiOK, By
<1>8. ApiOK(Apis.access, By("access"))
  <2>1. Apis.access = Of(K!Routes, K!Decoders, K!Requests, K!Endpoints, K!Responses, K!Service)
      BY DEF Apis
  <2>2. QED
      BY <2>1, AccessTables, OtherMethods DEF Of, ApiOK, By
<1>9. ApiOK(Apis.http, By("http"))
  <2>1. Apis.http = Of(M!Routes, M!Decoders, M!Requests, M!Endpoints, M!Responses, M!Service)
      BY DEF Apis
  <2>2. QED
      BY <2>1, MessagesTables, OtherMethods DEF Of, ApiOK, By
<1>10. ApiOK(Apis.readers, By("readers"))
  <2>1. Apis.readers = Of(R!Routes, R!Decoders, R!Requests, R!Endpoints, R!Responses, R!Service)
      BY DEF Apis
  <2>2. QED
      BY <2>1, ReadersTables, OtherMethods DEF Of, ApiOK, By
<1>11. ApiOK(Apis.opcua, By("opcua"))
  <2>1. Apis.opcua = Of(O!Routes, O!Decoders, O!Requests, O!Endpoints, O!Responses, O!Service)
      BY DEF Apis
  <2>2. QED
      BY <2>1, OpcuaTables, OtherMethods DEF Of, ApiOK, By
<1>12. QED
    BY <1>1, <1>2, <1>3, <1>4, <1>5, <1>6, <1>7, <1>8, <1>9, <1>10, <1>11 DEF ServiceNames

(* No error is answered as a success.                                      *)
LEMMA ErrorCode == \A s \in ServiceNames : \A e : EncodeError(s, e) \in 400..503
<1> SUFFICES ASSUME NEW s \in ServiceNames, NEW e PROVE EncodeError(s, e) \in 400..503
    OBVIOUS
<1>1. /\ T!EncodeError(e) \in 400..503
      /\ U!EncodeError(e) \in 400..503
      /\ A!EncodeError(e) \in 400..503
      /\ B!EncodeError(e) \in 400..503
      /\ W!EncodeError(e) \in 400..503
      /\ C!EncodeError(e) \in 400..503
      /\ P!EncodeError(e) \in 400..503
      /\ K!EncodeError(e) \in 400..503
      /\ M!EncodeError(e) \in 400..503
      /\ R!EncodeError(e) \in 400..503
      /\ O!EncodeError(e) \in 400..503
    BY ThingsCodes, UsersCodes, AuthCodes, BootstrapCodes, TwinsCodes, CertsCodes,
       ProvisionCodes, AccessCodes, MessagesCodes, ReadersCodes, OpcuaCodes DEF Coded
<1>2. QED
    BY <1>1 DEF EncodeError, ServiceNames

(* What holds of every route: its answer and its method are in order.      *)
LEMMA RouteFacts ==
    \A s \in ServiceNames : \A r \in Apis[s].routes :
        /\ Apis[s].responses[EndpointOf(s, r).res] \in 200..299
        /\ EndpointOf(s, r).masked => Apis[s].responses.masked \in 200..299
        /\ MethodOK(EndpointOf(s, r).call, MethodOf(s, r), By(s))
        /\ EndpointOf(s, r).call \in DOMAIN Apis[s].service
<1> SUFFICES ASSUME NEW s \in ServiceNames, NEW r \in Apis[s].routes
             PROVE  /\ Apis[s].responses[EndpointOf(s, r).res] \in 200..299
                    /\ EndpointOf(s, r).masked => Apis[s].responses.masked \in 200..299
                    /\ MethodOK(EndpointOf(s, r).call, MethodOf(s, r), By(s))
                    /\ EndpointOf(s, r).call \in DOMAIN Apis[s].service
    OBVIOUS
<1>1. ApiOK(Apis[s], By(s))
    BY ApisOK
<1>2. r[3] \in DOMAIN Apis[s].endpoints
    BY <1>1 DEF ApiOK, RouteOK
<1>3. /\ EndpointOK(EndpointOf(s, r), Apis[s].requests, DOMAIN Apis[s].service, Apis[s].responses)
      /\ EndpointOf(s, r).masked => "masked" \in DOMAIN Apis[s].responses
    BY <1>1, <1>2 DEF ApiOK, EndpointOf
<1>4. QED
    BY <1>1, <1>3 DEF ApiOK, EndpointOK, MethodOf

(***************************************************************************)
(* The requests that are sent                                              *)
(***************************************************************************)
RequestOK(q) ==
    /\ q.service \in ServiceNames
    /\ q.route # NoRoute =>
          /\ q.route \in Apis[q.service].routes
          /\ q.token \in TokensFor(MethodOf(q.service, q.route).by)
          /\ q.token = "none" => "token" \in q.flaws
    /\ q.fn # "client" =>
          /\ q.fn \in DOMAIN S!Functions
          /\ q.service = S!Functions[q.fn].service
          /\ q.route \in RoutesOf(q.fn)

(* A request without a token misses it.                                    *)
LEMMA TokenMissing ==
    \A s, r, t : \A f \in Wrong(s, r, t) : t = "none" => "token" \in f
    BY DEF Wrong

(* What a client of its own sends.                                         *)
LEMMA RequestsOK == \A q \in Requests : RequestOK(q)
<1> SUFFICES ASSUME NEW q \in Requests PROVE RequestOK(q)
    OBVIOUS
<1>1. PICK s \in DOMAIN Apis :
          q \in UNION {UNION {{Request("client", s, r, f, t) : f \in Wrong(s, r, t)} :
                                 t \in TokensFor(MethodOf(s, r).by)} : r \in Apis[s].routes}
    BY DEF Requests
<1>2. PICK r \in Apis[s].routes :
          q \in UNION {{Request("client", s, r, f, t) : f \in Wrong(s, r, t)} :
                          t \in TokensFor(MethodOf(s, r).by)}
    BY <1>1
<1>3. PICK t \in TokensFor(MethodOf(s, r).by) :
          q \in {Request("client", s, r, f, t) : f \in Wrong(s, r, t)}
    BY <1>2
<1>4. PICK f \in Wrong(s, r, t) : q = Request("client", s, r, f, t)
    BY <1>3
<1>5. /\ q.service = s /\ q.route = r /\ q.token = t /\ q.flaws = f /\ q.fn = "client"
    BY <1>4 DEF Request
<1>6. QED
    BY <1>5, ApiNames, TokenMissing DEF RequestOK

(* A function of the SDK is one of the eleven tables.                      *)
In(x, table, v) == x \in DOMAIN table /\ v = table[x]
LEMMA Merged ==
    \A f, g : \A x \in DOMAIN S!@@(f, g) : In(x, f, S!@@(f, g)[x]) \/ In(x, g, S!@@(f, g)[x])
    BY DEF S!@@, In

LEMMA FunctionTables ==
    \A fn \in DOMAIN S!Functions :
        \/ In(fn, S!ThingFunctions, S!Functions[fn])
        \/ In(fn, S!ThingWriteFunctions, S!Functions[fn])
        \/ In(fn, S!ChannelFunctions, S!Functions[fn])
        \/ In(fn, S!ChannelWriteFunctions, S!Functions[fn])
        \/ In(fn, S!GroupFunctions, S!Functions[fn])
        \/ In(fn, S!GroupViewFunctions, S!Functions[fn])
        \/ In(fn, S!UserFunctions, S!Functions[fn])
        \/ In(fn, S!BootstrapFunctions, S!Functions[fn])
        \/ In(fn, S!BootstrapWriteFunctions, S!Functions[fn])
        \/ In(fn, S!CertFunctions, S!Functions[fn])
        \/ In(fn, S!MessageFunctions, S!Functions[fn])
<1> DEFINE F1 == S!ThingFunctions
           F2 == S!@@(F1, S!ThingWriteFunctions)
           F3 == S!@@(F2, S!ChannelFunctions)
           F4 == S!@@(F3, S!ChannelWriteFunctions)
           F5 == S!@@(F4, S!GroupFunctions)
           F6 == S!@@(F5, S!GroupViewFunctions)
           F7 == S!@@(F6, S!UserFunctions)
           F8 == S!@@(F7, S!BootstrapFunctions)
           F9 == S!@@(F8, S!BootstrapWriteFunctions)
           F10 == S!@@(F9, S!CertFunctions)
           F11 == S!@@(F10, S!MessageFunctions)
<1>1. S!Functions = F11
    BY DEF S!Functions
<1> HIDE DEF F1, F2, F3, F4, F5, F6, F7, F8, F9, F10, F11
<1>2. \A x \in DOMAIN F2 : In(x, F1, F2[x]) \/ In(x, S!ThingWriteFunctions, F2[x])
    BY Merged DEF F2
<1>3. \A x \in DOMAIN F3 : In(x, F2, F3[x]) \/ In(x, S!ChannelFunctions, F3[x])
    BY Merged DEF F3
<1>4. \A x \in DOMAIN F4 : In(x, F3, F4[x]) \/ In(x, S!ChannelWriteFunctions, F4[x])
    BY Merged DEF F4
<1>5. \A x \in DOMAIN F5 : In(x, F4, F5[x]) \/ In(x, S!GroupFunctions, F5[x])
    BY Merged DEF F5
<1>6. \A x \in DOMAIN F6 : In(x, F5, F6[x]) \/ In(x, S!GroupViewFunctions, F6[x])
    BY Merged DEF F6
<1>7. \A x \in DOMAIN F7 : In(x, F6, F7[x]) \/ In(x, S!UserFunctions, F7[x])
    BY Merged DEF F7
<1>8. \A x \in DOMAIN F8 : In(x, F7, F8[x]) \/ In(x, S!BootstrapFunctions, F8[x])
    BY Merged DEF F8
<1>9. \A x \in DOMAIN F9 : In(x, F8, F9[x]) \/ In(x, S!BootstrapWriteFunctions, F9[x])
    BY Merged DEF F9
<1>10. \A x \in DOMAIN F10 : In(x, F9, F10[x]) \/ In(x, S!CertFunctions, F10[x])
    BY Merged DEF F10
<1>11. \A x \in DOMAIN F11 : In(x, F10, F11[x]) \/ In(x, S!MessageFunctions, F11[x])
    BY Merged DEF F11
<1>12. QED
    BY <1>1, <1>2, <1>3, <1>4, <1>5, <1>6, <1>7, <1>8, <1>9, <1>10, <1>11 DEF In, F1

(* A function of the SDK asks a service there is.                          *)
LEMMA FunctionServices ==
    \A fn \in DOMAIN S!Functions : fn # "client" /\ S!Functions[fn].service \in ServiceNames
<1> DEFINE OK(fn, f) == fn # "client" /\ f.service \in ServiceNames
<1> USE DEF S!Sent, ServiceNames
<1>1. \A fn \in DOMAIN S!ThingFunctions : OK(fn, S!ThingFunctions[fn])
    BY DEF S!ThingFunctions
<1>2. \A fn \in DOMAIN S!ThingWriteFunctions : OK(fn, S!ThingWriteFunctions[fn])
    BY DEF S!ThingWriteFunctions
<1>3. \A fn \in DOMAIN S!ChannelFunctions : OK(fn, S!ChannelFunctions[fn])
    BY DEF S!ChannelFunctions
<1>4. \A fn \in DOMAIN S!ChannelWriteFunctions : OK(fn, S!ChannelWriteFunctions[fn])
    BY DEF S!ChannelWriteFunctions
<1>5. \A fn \in DOMAIN S!GroupFunctions : OK(fn, S!GroupFunctions[fn])
    BY DEF S!GroupFunctions
<1>6. \A fn \in DOMAIN S!GroupViewFunctions : OK(fn, S!GroupViewFunctions[fn])
    BY DEF S!GroupViewFunctions
<1>7. \A fn \in DOMAIN S!UserFunctions : OK(fn, S!UserFunctions[fn])
    BY DEF S!UserFunctions
<1>8. \A fn \in DOMAIN S!BootstrapFunctions : OK(fn, S!BootstrapFunctions[fn])
    BY DEF S!BootstrapFunctions
<1>9. \A fn \in DOMAIN S!BootstrapWriteFunctions : OK(fn, S!BootstrapWriteFunctions[fn])
    BY DEF S!BootstrapWriteFunctions
<1>10. \A fn \in DOMAIN S!CertFunctions : OK(fn, S!CertFunctions[fn])
    BY DEF S!CertFunctions
<1>11. \A fn \in DOMAIN S!MessageFunctions : OK(fn, S!MessageFunctions[fn])
    BY DEF S!MessageFunctions
<1> HIDE DEF OK
<1>12. \A fn \in DOMAIN S!Functions : OK(fn, S!Functions[fn])
    BY <1>1, <1>2, <1>3, <1>4, <1>5, <1>6, <1>7, <1>8, <1>9, <1>10, <1>11, FunctionTables DEF In
<1>13. QED
    BY <1>12 DEF OK

(* What a function of the SDK sends.                                       *)
LEMMA SdkRequestsOK ==
    \A fn \in DOMAIN S!Functions : \A q \in SdkRequests(fn) : RequestOK(q) /\ q.fn = fn
<1> SUFFICES ASSUME NEW fn \in DOMAIN S!Functions, NEW q \in SdkRequests(fn)
             PROVE  RequestOK(q) /\ q.fn = fn
    OBVIOUS
<1> DEFINE s == S!Functions[fn].service
<1>1. fn # "client" /\ s \in ServiceNames
    BY FunctionServices
<1>2. PICK r \in RoutesOf(fn) :
          q \in IF r = NoRoute THEN {Request(fn, s, r, {}, "user_key")}
                ELSE UNION {{Request(fn, s, r, f, t) :
                                f \in {g \in Wrong(s, r, t) :
                                    g \cap (BodyFlaws \cup {"content_type"}) = {}}} :
                               t \in TokensFor(MethodOf(s, r).by)}
    BY DEF SdkRequests
<1>3. r # NoRoute => r \in Apis[s].routes
    BY DEF RoutesOf
<1>4. CASE r = NoRoute
  <2>1. q = Request(fn, s, r, {}, "user_key")
      BY <1>2, <1>4
  <2>2. q.service = s /\ q.route = r /\ q.fn = fn
      BY <2>1 DEF Request
  <2>3. QED
      BY <1>1, <1>4, <2>2 DEF RequestOK
<1>5. CASE r # NoRoute
  <2>1. PICK t \in TokensFor(MethodOf(s, r).by) :
            q \in {Request(fn, s, r, f, t) :
                      f \in {g \in Wrong(s, r, t) : g \cap (BodyFlaws \cup {"content_type"}) = {}}}
      BY <1>2, <1>5
  <2>2. PICK f \in Wrong(s, r, t) : q = Request(fn, s, r, f, t)
      BY <2>1
  <2>3. q.service = s /\ q.route = r /\ q.fn = fn /\ q.token = t /\ q.flaws = f
      BY <2>2 DEF Request
  <2>4. QED
      BY <1>1, <1>3, <1>5, <2>3, TokenMissing DEF RequestOK
<1>6. QED
    BY <1>4, <1>5

(***************************************************************************)
(* Checks and callers                                                      *)
(***************************************************************************)
(* The error of a request that fails no check is nil, that of one that     *)
(* fails some is the error of a check it fails.                            *)
LEMMA FirstErrorIs ==
    ASSUME NEW checks, Len(checks) \in Nat, NEW flaws
    PROVE  \/ /\ FirstError(checks, flaws) = <<>>
              /\ \A i \in 1..Len(checks) : checks[i][1] \notin flaws
           \/ \E i \in 1..Len(checks) :
                 /\ checks[i][1] \in flaws
                 /\ FirstError(checks, flaws) = checks[i][2]
<1> DEFINE failed == {i \in 1..Len(checks) : checks[i][1] \in flaws}
<1>1. FirstError(checks, flaws) = IF failed = {} THEN <<>> ELSE checks[First(failed)][2]
    BY DEF FirstError
<1>2. failed # {} => First(failed) \in failed
  <2>1. failed \in SUBSET Nat
      OBVIOUS
  <2> HIDE DEF failed
  <2>2. QED
      BY <2>1, FirstIsLeast
<1>3. QED
    BY <1>1, <1>2

(* The checks of a sequence return the errors of a set only.               *)
Returns(checks, E) == /\ Len(checks) \in Nat
                      /\ \A i \in 1..Len(checks) : checks[i][2] \in E

(* Sequences of checks, as the tables write them.                          *)
LEMMA ReturnsNone == \A E : Returns(<<>>, E)
    BY DEF Returns
LEMMA ReturnsOne == \A E, a : a[2] \in E => Returns(<<a>>, E)
    BY DEF Returns
LEMMA ReturnsTwo == \A E, a, b : a[2] \in E /\ b[2] \in E => Returns(<<a, b>>, E)
    BY DEF Returns
LEMMA ReturnsThree ==
    \A E, a, b, c : a[2] \in E /\ b[2] \in E /\ c[2] \in E => Returns(<<a, b, c>>, E)
    BY DEF Returns
LEMMA ReturnsFive ==
    \A E, a, b, c, d, f : a[2] \in E /\ b[2] \in E /\ c[2] \in E /\ d[2] \in E /\ f[2] \in E
                             => Returns(<<a, b, c, d, f>>, E)
    BY DEF Returns

(* A validation that misses the token refuses the request without one.     *)
TokenChecked(checks) ==
    /\ Len(checks) \in Nat \ {0}
    /\ checks[1][1] = "token"
    /\ \A i \in 1..Len(checks) : checks[i][2] # <<>>

(* Such a validation finds a missing token.                                *)
LEMMA TokenFirst ==
    /\ \A a, b : a[1] = "token" /\ a[2] # <<>> /\ b[2] # <<>> => TokenChecked(<<a, b>>)
    /\ \A a, b, c : a[1] = "token" /\ a[2] # <<>> /\ b[2] # <<>> /\ c[2] # <<>>
                       => TokenChecked(<<a, b, c>>)
    BY DEF TokenChecked

LEMMA TokenNeeded ==
    ASSUME NEW checks, TokenChecked(checks), NEW flaws, "token" \in flaws
    PROVE  FirstError(checks, flaws) # <<>>
    BY FirstErrorIs DEF TokenChecked

(* The requests of the auth service whose method reads the token have such *)
(* a validation.                                                           *)
LEMMA AuthTokens ==
    \A n \in DOMAIN A!Endpoints :
        \/ A!Service[A!Endpoints[n].call].by = "none"
        \/ TokenChecked(A!Requests[A!Endpoints[n].req])
<1> DEFINE OK(e) == A!Service[e.call].by = "none" \/ TokenChecked(A!Requests[e.req])
<1>1. A!Service["tmpKey"].by = "none"
    BY DEF A!Service, A!@@, A!KeyMethods, A!Method, A!Unchecked
<1>2. \A q \in DOMAIN A!G!Requests :
          q \notin DOMAIN A!KeyRequests => A!Requests[q] = A!G!Requests[q]
    BY DEF A!Requests, A!@@
<1>3. \A q \in DOMAIN A!KeyRequests : A!Requests[q] = A!KeyRequests[q]
    BY DEF A!Requests, A!@@
<1>4. \A q \in DOMAIN A!G!Requests : TokenChecked(A!G!Requests[q])
  <2> DEFINE b(f) == <<f, <<"malformed_entity">>>>
             c(f, m) == <<f, <<"malformed_entity", m>>>>
             d(f) == <<f, <<"parent_invariant">>>>
  <2>1. A!G!NoToken[1] = "token" /\ A!G!NoToken[2] # <<>>
      BY DEF A!G!NoToken
  <2>2. /\ \A f : b(f)[2] # <<>>
        /\ \A f, m : c(f, m)[2] # <<>>
        /\ \A f : d(f)[2] # <<>>
      OBVIOUS
  <2>3. DOMAIN A!G!Requests = {"createGroupReq", "updateGroupReq", "listGroupsReq",
                               "listMemberGroupReq", "memberGroupReq", "groupReq"}
      BY DEF A!G!Requests
  <2>4. /\ A!G!Requests.createGroupReq = <<A!G!NoToken, c("name", "bad_name"),
                                           c("type", "missing_type")>>
        /\ A!G!Requests.updateGroupReq = <<A!G!NoToken, b("id"), d("parent")>>
        /\ A!G!Requests.listGroupsReq = <<A!G!NoToken, b("level")>>
        /\ A!G!Requests.listMemberGroupReq = <<A!G!NoToken, b("ids")>>
        /\ A!G!Requests.memberGroupReq = <<A!G!NoToken, b("ids")>>
        /\ A!G!Requests.groupReq = <<A!G!NoToken, b("id")>>
      BY DEF A!G!Requests
  <2> HIDE DEF b, c, d
  <2>5. QED
      BY <2>1, <2>2, <2>3, <2>4, TokenFirst
<1>5. TokenChecked(A!KeyRequests.issueKeyReq_APIKey) /\ TokenChecked(A!KeyRequests.keyReq)
  <2>1. \A f : A!Bad(f)[1] = f /\ A!Bad(f)[2] # <<>>
      BY DEF A!Bad
  <2>2. /\ A!KeyRequests.issueKeyReq_APIKey = <<A!Bad("token"), A!Bad("type")>>
        /\ A!KeyRequests.keyReq = <<A!Bad("token"), A!Bad("id")>>
      BY DEF A!KeyRequests
  <2>3. QED
      BY <2>1, <2>2, TokenFirst
<1>6. \A q \in DOMAIN A!G!Requests : q \notin DOMAIN A!KeyRequests
    BY DEF A!KeyRequests, A!G!Requests
<1>7. \A n \in DOMAIN A!KeyEndpoints : OK(A!KeyEndpoints[n])
  <2>1. DOMAIN A!KeyEndpoints = {"issueUserKey", "issueAPIKey", "retrieve", "revoke"}
      BY DEF A!KeyEndpoints
  <2>2. /\ A!KeyEndpoints.issueUserKey.call = "tmpKey"
        /\ A!KeyEndpoints.issueAPIKey.req = "issueKeyReq_APIKey"
        /\ A!KeyEndpoints.retrieve.req = "keyReq"
        /\ A!KeyEndpoints.revoke.req = "keyReq"
      BY DEF A!KeyEndpoints, A!Endpoint, A!Wrapping
  <2>3. {"issueKeyReq_APIKey", "keyReq"} \subseteq DOMAIN A!KeyRequests
      BY DEF A!KeyRequests
  <2>4. QED
      BY <1>1, <1>3, <1>5, <2>1, <2>2, <2>3
<1>8. \A n \in DOMAIN A!G!GroupEndpoints : OK(A!G!GroupEndpoints[n])
  <2>1. \A n \in DOMAIN A!G!GroupEndpoints : A!G!GroupEndpoints[n].req \in DOMAIN A!G!Requests
      BY DEF A!G!GroupEndpoints, A!G!Requests, A!G!Wrapping, A!G!Endpoint
  <2>2. QED
      BY <1>2, <1>4, <1>6, <2>1
<1>9. \A n \in DOMAIN A!G!MemberEndpoints : OK(A!G!MemberEndpoints[n])
  <2>1. \A n \in DOMAIN A!G!MemberEndpoints : A!G!MemberEndpoints[n].req \in DOMAIN A!G!Requests
      BY DEF A!G!MemberEndpoints, A!G!Requests, A!G!Wrapping, A!G!Endpoint
  <2>2. QED
      BY <1>2, <1>4, <1>6, <2>1
<1> HIDE DEF OK
<1>10. \A n \in DOMAIN A!Endpoints : OK(A!Endpoints[n])
    BY <1>7, <1>8, <1>9 DEF A!Endpoints, A!@@
<1>11. QED
    BY <1>10 DEF OK

(* A request that passes its validation, and one whose caller may be let   *)
(* in.                                                                     *)
Valid(q) == FirstError(RequestOf(q.service, q.route), q.flaws) = <<>>
Known(q) == <<>> \in IdentifyErrors(MethodOf(q.service, q.route).by, q.token)

(* Where the auth service reads the token itself, there is one.            *)
LEMMA TokenGiven ==
    ASSUME NEW q, RequestOK(q), q.route # NoRoute, Valid(q),
           MethodOf(q.service, q.route).by \in {"login", "Identify"}
    PROVE  q.token \in A!Tokens
<1>1. q.service = "auth"
  <2>1. MethodOf(q.service, q.route).by \in By(q.service)
      BY RouteFacts DEF RequestOK, MethodOK
  <2>2. QED
      BY <2>1 DEF By, Ask
<1>2. /\ Apis.auth.endpoints = A!Endpoints
      /\ Apis.auth.requests = A!Requests
      /\ Apis.auth.service = A!Service
    BY DEF Apis, Of
<1>3. q.route[3] \in DOMAIN A!Endpoints
    BY <1>1, <1>2, ApisOK DEF RequestOK, ApiOK, RouteOK
<1>4. TokenChecked(RequestOf(q.service, q.route))
    BY <1>1, <1>2, <1>3, AuthTokens DEF MethodOf, RequestOf, EndpointOf
<1>5. q.token # "none"
    BY <1>4, TokenNeeded DEF RequestOK, Valid
<1>6. QED
    BY <1>5 DEF RequestOK, TokensFor

(* A caller who passes is one with a key.                                  *)
Trusted(by, token) ==
    CASE by = "none" -> TRUE
      [] by = "login" -> token = "user_key"
      [] by = "things" -> token = "connected_key"
      [] OTHER -> token \in {"user_key", "API_key", "recovery_key"}

(* Only a key is taken for a caller.                                       *)
LEMMA KnownIsTrusted ==
    ASSUME NEW q, RequestOK(q), q.route # NoRoute, Valid(q), Known(q)
    PROVE  Trusted(MethodOf(q.service, q.route).by, q.token)
<1> DEFINE by == MethodOf(q.service, q.route).by
           t == q.token
<1>1. by \in Ask \cup Tell /\ t \in TokensFor(by) /\ <<>> \in IdentifyErrors(by, t)
    BY RouteFacts DEF RequestOK, MethodOK, By, Known
<1>2. by \in {"login", "Identify"} => t \in A!Tokens
    BY TokenGiven
<1> SUFFICES Trusted(by, t)
    OBVIOUS
<1> HIDE DEF by, t
<1>3. \A x \in A!Tokens : A!Parse(x) = <<>> => x \in {"user_key", "API_key", "recovery_key"}
    BY DEF A!Tokens, A!Parse
<1>4. \A x \in A!Tokens : A!login(x) = <<>> => x = "user_key"
    BY <1>3 DEF A!login
<1>5. \A x \in A!Tokens : A!Identify(x) = <<>> => x \in {"user_key", "API_key", "recovery_key"}
  <2> SUFFICES ASSUME NEW x \in A!Tokens, x \notin {"user_key", "API_key", "recovery_key"}
               PROVE  A!Identify(x) # <<>>
      OBVIOUS
  <2>1. A!Parse(x) \in {<<"expired_API_key">>, <<"expired_key", "jwt">>,
                        <<"unauthorized_access", "jwt">>}
      BY DEF A!Tokens, A!Parse
  <2>2. QED
      BY <2>1 DEF A!Identify, A!Wrap, A!Raw
<1>6. CASE by = "login"
    BY <1>1, <1>2, <1>4, <1>6 DEF IdentifyErrors, Trusted
<1>7. CASE by = "Identify"
    BY <1>1, <1>2, <1>5, <1>7 DEF IdentifyErrors, Trusted
<1>8. CASE by = "auth"
  <2>1. PICK st \in A!GrpcIdentify(t) : (IF st = "OK" THEN <<>> ELSE <<Raw, st>>) = <<>>
      BY <1>1, <1>8 DEF IdentifyErrors
  <2>2. "OK" \in A!GrpcIdentify(t)
      BY <2>1
  <2>3. A!GrpcStatus(IF t = "none" THEN <<"malformed_specification">> ELSE A!Identify(t)) = "OK"
      BY <2>2 DEF A!GrpcIdentify
  <2>4. \A e : A!GrpcStatus(e) = "OK" => e = <<>>
      BY DEF A!GrpcStatus
  <2>5. t # "none" /\ A!Identify(t) = <<>>
      BY <2>3, <2>4
  <2>6. t \in A!Tokens
      BY <1>1, <1>8, <2>5 DEF TokensFor
  <2>7. QED
      BY <1>5, <1>8, <2>5, <2>6 DEF Trusted
<1>9. CASE by = "things"
  <2>1. PICK st \in K!GrpcCanAccessByKey(t) : (IF st = "OK" THEN <<>> ELSE <<Raw, st>>) = <<>>
      BY <1>1, <1>9 DEF IdentifyErrors
  <2>2. "OK" \in K!GrpcCanAccessByKey(t)
      BY <2>1
  <2>3. \A e : K!GrpcStatus(e) = "OK" => e = <<>>
      BY DEF K!GrpcStatus
  <2>4. t # "none" /\ <<>> \in K!CanAccessByKey(t)
      BY <2>2, <2>3 DEF K!GrpcCanAccessByKey
  <2>5. t \in K!Keys
      BY <1>1, <1>9, <2>4 DEF TokensFor
  <2>6. t = "connected_key"
      BY <2>4, <2>5 DEF K!Keys, K!CanAccessByKey
  <2>7. QED
      BY <1>9, <2>6 DEF Trusted
<1>10. CASE by = "none"
    BY <1>10 DEF Trusted
<1>11. QED
    BY <1>1, <1>6, <1>7, <1>8, <1>9, <1>10 DEF Ask, Tell

(***************************************************************************)
(* The functions of the SDK                                                *)
(***************************************************************************)
(* The route a method and a path lead to, if any, has this endpoint.       *)
Leads(r, method, path, endpoint) == r[1] = method /\ r[2] = path => r[3] = endpoint
Nowhere(r, method, path) == ~(r[1] = method /\ r[2] = path)
(* The operation an endpoint is for, and the code it answers.              *)
Answers(e, responses, call, c) == e.call = call /\ responses[e.res] = c

(* The routes of the things service, path by path, and what their          *)
(* endpoints answer.                                                       *)
LEMMA ThingsPaths ==
    \A r \in T!Routes :
        /\ Leads(r, "POST", <<"things">>, "createThing")
        /\ Leads(r, "POST", <<"things", "bulk">>, "createThings")
        /\ Leads(r, "GET", <<"things">>, "listThings")
        /\ Leads(r, "GET", <<"channels", "*", "things">>, "listThingsByChannel")
        /\ Leads(r, "GET", <<"things", "*">>, "viewThing")
        /\ Leads(r, "PUT", <<"things", "*">>, "updateThing")
        /\ Leads(r, "DELETE", <<"things", "*">>, "removeThing")
        /\ Leads(r, "POST", <<"connect">>, "createConnections")
        /\ Leads(r, "DELETE", <<"channels", "*", "things", "*">>, "disconnect")
        /\ Leads(r, "POST", <<"channels">>, "createChannel")
        /\ Leads(r, "POST", <<"channels", "bulk">>, "createChannels")
        /\ Leads(r, "GET", <<"channels">>, "listChannels")
        /\ Leads(r, "GET", <<"things", "*", "channels">>, "listChannelsByThing")
        /\ Leads(r, "GET", <<"channels", "*">>, "viewChannel")
        /\ Leads(r, "PUT", <<"channels", "*">>, "updateChannel")
        /\ Leads(r, "DELETE", <<"channels", "*">>, "removeChannel")
<1> DEFINE OK(r) ==
             /\ Leads(r, "POST", <<"things">>, "createThing")
             /\ Leads(r, "POST", <<"things", "bulk">>, "createThings")
             /\ Leads(r, "GET", <<"things">>, "listThings")
             /\ Leads(r, "GET", <<"channels", "*", "things">>, "listThingsByChannel")
             /\ Leads(r, "GET", <<"things", "*">>, "viewThing")
             /\ Leads(r, "PUT", <<"things", "*">>, "updateThing")
             /\ Leads(r, "DELETE", <<"things", "*">>, "removeThing")
             /\ Leads(r, "POST", <<"connect">>, "createConnections")
             /\ Leads(r, "DELETE", <<"channels", "*", "things", "*">>, "disconnect")
             /\ Leads(r, "POST", <<"channels">>, "createChannel")
             /\ Leads(r, "POST", <<"channels", "bulk">>, "createChannels")
             /\ Leads(r, "GET", <<"channels">>, "listChannels")
             /\ Leads(r, "GET", <<"things", "*", "channels">>, "listChannelsByThing")
             /\ Leads(r, "GET", <<"channels", "*">>, "viewChannel")
             /\ Leads(r, "PUT", <<"channels", "*">>, "updateChannel")
             /\ Leads(r, "DELETE", <<"channels", "*">>, "removeChannel")
<1> USE DEF Leads, Nowhere
<1>1. \A r \in T!ThingRoutes : OK(r)
    BY DEF T!ThingRoutes
<1>2. \A r \in T!ChannelRoutes : OK(r)
    BY DEF T!ChannelRoutes
<1>3. \A r \in T!GroupRoutes : OK(r)
    BY DEF T!GroupRoutes
<1> HIDE DEF OK
<1>4. \A r \in T!Routes : OK(r)
    BY <1>1, <1>2, <1>3 DEF T!Routes
<1>5. QED
    BY <1>4 DEF OK

LEMMA ThingsAnswers ==
    /\ Answers(T!Endpoints.createThing, T!Responses, "CreateThings", 201)
    /\ Answers(T!Endpoints.createThings, T!Responses, "CreateThings", 201)
    /\ Answers(T!Endpoints.viewThing, T!Responses, "ViewThing", 200)
    /\ Answers(T!Endpoints.updateThing, T!Responses, "UpdateThing", 200)
    /\ Answers(T!Endpoints.listThings, T!Responses, "ListThings", 200)
    /\ Answers(T!Endpoints.listThingsByChannel, T!Responses, "ListThingsByChannel", 200)
    /\ Answers(T!Endpoints.removeThing, T!Responses, "RemoveThing", 204)
    /\ Answers(T!Endpoints.createChannel, T!Responses, "CreateChannels", 201)
    /\ Answers(T!Endpoints.createChannels, T!Responses, "CreateChannels", 201)
    /\ Answers(T!Endpoints.listChannels, T!Responses, "ListChannels", 200)
    /\ Answers(T!Endpoints.viewChannel, T!Responses, "ViewChannel", 200)
    /\ Answers(T!Endpoints.updateChannel, T!Responses, "UpdateChannel", 200)
    /\ Answers(T!Endpoints.createConnections, T!Responses, "Connect", 200)
    /\ Answers(T!Endpoints.disconnect, T!Responses, "Disconnect", 204)
    /\ Answers(T!Endpoints.listChannelsByThing, T!Responses, "ListChannelsByThing", 200)
    /\ Answers(T!Endpoints.removeChannel, T!Responses, "RemoveChannel", 204)
<1>1. /\ T!Responses.thingRes_created = 201
      /\ T!Responses.thingsRes_created = 201
      /\ T!Responses.viewThingRes = 200
      /\ T!Responses.thingRes = 200
      /\ T!Responses.thingsPageRes = 200
      /\ T!Responses.removeRes = 204
      /\ T!Responses.channelRes_created = 201
      /\ T!Responses.channelsRes_created = 201
      /\ T!Responses.channelsPageRes = 200
      /\ T!Responses.viewChannelRes = 200
      /\ T!Responses.channelRes = 200
      /\ T!Responses.createConnectionsRes = 200
      /\ T!Responses.disconnectionRes = 204
    BY DEF T!Responses, T!@@, T!ThingResponses, T!ChannelResponses, T!G!Responses
<1>2. /\ Answers(T!ThingEndpoints.createThing, T!Responses, "CreateThings", 201)
      /\ Answers(T!ThingEndpoints.createThings, T!Responses, "CreateThings", 201)
      /\ Answers(T!ThingEndpoints.viewThing, T!Responses, "ViewThing", 200)
      /\ Answers(T!ThingEndpoints.updateThing, T!Responses, "UpdateThing", 200)
    BY <1>1 DEF T!ThingEndpoints, T!Endpoint, T!Wrapping, Answers
<1>3. /\ Answers(T!ThingListEndpoints.listThings, T!Responses, "ListThings", 200)
      /\ Answers(T!ThingListEndpoints.listThingsByChannel, T!Responses, "ListThingsByChannel", 200)
      /\ Answers(T!ThingListEndpoints.removeThing, T!Responses, "RemoveThing", 204)
    BY <1>1 DEF T!ThingListEndpoints, T!Endpoint, T!Wrapping, Answers
<1>4. /\ Answers(T!ChannelEndpoints.createChannel, T!Responses, "CreateChannels", 201)
      /\ Answers(T!ChannelEndpoints.createChannels, T!Responses, "CreateChannels", 201)
      /\ Answers(T!ChannelEndpoints.listChannels, T!Responses, "ListChannels", 200)
      /\ Answers(T!ChannelEndpoints.viewChannel, T!Responses, "ViewChannel", 200)
      /\ Answers(T!ChannelEndpoints.updateChannel, T!Responses, "UpdateChannel", 200)
    BY <1>1 DEF T!ChannelEndpoints, T!Endpoint, T!Wrapping, Answers
<1>5. /\ Answers(T!ConnectionEndpoints.createConnections, T!Responses, "Connect", 200)
      /\ Answers(T!ConnectionEndpoints.disconnect, T!Responses, "Disconnect", 204)
      /\ Answers(T!ConnectionEndpoints.listChannelsByThing, T!Responses, "ListChannelsByThing", 200)
      /\ Answers(T!ConnectionEndpoints.removeChannel, T!Responses, "RemoveChannel", 204)
    BY <1>1 DEF T!ConnectionEndpoints, T!Endpoint, T!Wrapping, Answers
<1>6. /\ DOMAIN T!ThingEndpoints = {"createThing", "createThings", "updateThing", "updateKey",
              "viewThing"}
      /\ DOMAIN T!ThingListEndpoints = {"listThings", "listThingsByChannel", "removeThing"}
      /\ DOMAIN T!ChannelEndpoints = {"createChannel", "createChannels", "updateChannel",
              "viewChannel", "listChannels"}
      /\ DOMAIN T!ConnectionEndpoints = {"listChannelsByThing", "removeChannel", "connect",
              "createConnections", "disconnect"}
    BY DEF T!ThingEndpoints, T!ThingListEndpoints, T!ChannelEndpoints, T!ConnectionEndpoints
<1>7. /\ \A n \in DOMAIN T!ThingEndpoints :
            T!Endpoints[n] = T!ThingEndpoints[n]
      /\ \A n \in DOMAIN T!ThingListEndpoints \ (DOMAIN T!ThingEndpoints) :
            T!Endpoints[n] = T!ThingListEndpoints[n]
      /\ \A n \in DOMAIN T!ChannelEndpoints \ (DOMAIN T!ThingEndpoints
             \cup DOMAIN T!ThingListEndpoints) :
            T!Endpoints[n] = T!ChannelEndpoints[n]
      /\ \A n \in DOMAIN T!ConnectionEndpoints \ (DOMAIN T!ThingEndpoints
             \cup DOMAIN T!ThingListEndpoints \cup DOMAIN T!ChannelEndpoints) :
            T!Endpoints[n] = T!ConnectionEndpoints[n]
    BY DEF T!Endpoints, T!@@
<1>8. QED
    BY <1>2, <1>3, <1>4, <1>5, <1>6, <1>7

(* The same for the users service.                                         *)
LEMMA UsersPaths ==
    \A r \in U!Routes :
        /\ Leads(r, "POST", <<"groups">>, "createGroup")
        /\ Leads(r, "DELETE", <<"groups", "*">>, "deleteGroup")
        /\ Leads(r, "PUT", <<"groups", "*", "users", "*">>, "assignUserToGroup")
        /\ Leads(r, "DELETE", <<"groups", "*", "users", "*">>, "removeUserFromGroup")
        /\ Leads(r, "GET", <<"groups", "*", "users">>, "listMembers")
        /\ Leads(r, "GET", <<"groups">>, "listGroups")
        /\ Leads(r, "GET", <<"groups", "*", "groups">>, "listGroups")
        /\ Leads(r, "GET", <<"groups", "*">>, "viewGroup")
        /\ Nowhere(r, "PUT", <<"groups", "*">>)
        /\ Leads(r, "POST", <<"users">>, "registration")
        /\ Leads(r, "GET", <<"users">>, "listUsers")
        /\ Leads(r, "POST", <<"tokens">>, "login")
        /\ Leads(r, "PUT", <<"users">>, "updateUser")
        /\ Leads(r, "PATCH", <<"password">>, "passwordChange")
        /\ Leads(r, "GET", <<"users", "*", "groups">>, "listMemberships")
<1> DEFINE OK(r) ==
             /\ Leads(r, "POST", <<"groups">>, "createGroup")
             /\ Leads(r, "DELETE", <<"groups", "*">>, "deleteGroup")
             /\ Leads(r, "PUT", <<"groups", "*", "users", "*">>, "assignUserToGroup")
             /\ Leads(r, "DELETE", <<"groups", "*", "users", "*">>, "removeUserFromGroup")
             /\ Leads(r, "GET", <<"groups", "*", "users">>, "listMembers")
             /\ Leads(r, "GET", <<"groups">>, "listGroups")
             /\ Leads(r, "GET", <<"groups", "*", "groups">>, "listGroups")
             /\ Leads(r, "GET", <<"groups", "*">>, "viewGroup")
             /\ Nowhere(r, "PUT", <<"groups", "*">>)
             /\ Leads(r, "POST", <<"users">>, "registration")
             /\ Leads(r, "GET", <<"users">>, "listUsers")
             /\ Leads(r, "POST", <<"tokens">>, "login")
             /\ Leads(r, "PUT", <<"users">>, "updateUser")
             /\ Leads(r, "PATCH", <<"password">>, "passwordChange")
             /\ Leads(r, "GET", <<"users", "*", "groups">>, "listMemberships")
<1> USE DEF Leads, Nowhere
<1>1. \A r \in U!UserRoutes : OK(r)
    BY DEF U!UserRoutes
<1>2. \A r \in U!GroupRoutes : OK(r)
    BY DEF U!GroupRoutes
<1>3. \A r \in U!TokenRoutes : OK(r)
    BY DEF U!TokenRoutes
<1> HIDE DEF OK
<1>4. \A r \in U!Routes : OK(r)
    BY <1>1, <1>2, <1>3 DEF U!Routes
<1>5. QED
    BY <1>4 DEF OK

LEMMA UsersAnswers ==
    /\ Answers(U!Endpoints.registration, U!Responses, "Register", 201)
    /\ Answers(U!Endpoints.listUsers, U!Responses, "ListUsers", 200)
    /\ Answers(U!Endpoints.updateUser, U!Responses, "UpdateUser", 200)
    /\ Answers(U!Endpoints.createGroup, U!Responses, "CreateGroup", 201)
    /\ Answers(U!Endpoints.assignUserToGroup, U!Responses, "Assign", 204)
    /\ Answers(U!Endpoints.removeUserFromGroup, U!Responses, "Unassign", 204)
    /\ Answers(U!Endpoints.listMembers, U!Responses, "ListMembers", 200)
    /\ Answers(U!Endpoints.login, U!Responses, "Login", 201)
    /\ Answers(U!Endpoints.passwordChange, U!Responses, "ChangePassword", 201)
    /\ Answers(U!Endpoints.listMemberships, U!Responses, "ListMemberships", 200)
    /\ Answers(U!Endpoints.deleteGroup, U!Responses, "RemoveGroup", 204)
    /\ Answers(U!Endpoints.listGroups, U!Responses, "ListGroups", 200)
    /\ Answers(U!Endpoints.viewGroup, U!Responses, "ViewGroup", 200)
<1>1. /\ U!Responses.createUserRes_created = 201
      /\ U!Responses.userPageRes = 200
      /\ U!Responses.updateUserRes = 200
      /\ U!Responses.createGroupRes_created = 201
      /\ U!Responses.assignUserToGroupRes = 204
      /\ U!Responses.removeUserFromGroupRes = 204
      /\ U!Responses.tokenRes = 201
      /\ U!Responses.passwChangeRes = 201
      /\ U!Responses.groupPageRes = 200
      /\ U!Responses.groupDeleteRes = 204
      /\ U!Responses.viewGroupRes = 200
    BY DEF U!Responses, U!@@, U!UserResponses, U!GroupResponses
<1>2. /\ Answers(U!UserEndpoints.registration, U!Responses, "Register", 201)
      /\ Answers(U!UserEndpoints.listUsers, U!Responses, "ListUsers", 200)
      /\ Answers(U!UserEndpoints.updateUser, U!Responses, "UpdateUser", 200)
    BY <1>1 DEF U!UserEndpoints, U!Endpoint, U!Wrapping, Answers
<1>3. /\ Answers(U!GroupEndpoints.createGroup, U!Responses, "CreateGroup", 201)
      /\ Answers(U!GroupEndpoints.assignUserToGroup, U!Responses, "Assign", 204)
      /\ Answers(U!GroupEndpoints.removeUserFromGroup, U!Responses, "Unassign", 204)
      /\ Answers(U!GroupEndpoints.listMembers, U!Responses, "ListMembers", 200)
      /\ Answers(U!GroupEndpoints.login, U!Responses, "Login", 201)
      /\ Answers(U!GroupEndpoints.passwordChange, U!Responses, "ChangePassword", 201)
      /\ Answers(U!GroupEndpoints.listMemberships, U!Responses, "ListMemberships", 200)
    BY <1>1 DEF U!GroupEndpoints, U!Endpoint, U!Wrapping, Answers
<1>4. /\ Answers(U!GroupViewEndpoints.deleteGroup, U!Responses, "RemoveGroup", 204)
      /\ Answers(U!GroupViewEndpoints.listGroups, U!Responses, "ListGroups", 200)
      /\ Answers(U!GroupViewEndpoints.viewGroup, U!Responses, "ViewGroup", 200)
    BY <1>1 DEF U!GroupViewEndpoints, U!Endpoint, U!Wrapping, Answers
<1>5. /\ DOMAIN U!UserEndpoints = {"registration", "passwordResetRequest", "passwordReset",
              "viewUser", "viewProfile", "listUsers", "updateUser"}
      /\ DOMAIN U!GroupEndpoints = {"passwordChange", "login", "createGroup", "assignUserToGroup",
              "removeUserFromGroup", "listMembers", "listMemberships"}
      /\ DOMAIN U!GroupViewEndpoints = {"updateGroup", "viewGroup", "listGroups", "deleteGroup"}
    BY DEF U!UserEndpoints, U!GroupEndpoints, U!GroupViewEndpoints
<1>6. /\ \A n \in DOMAIN U!UserEndpoints :
            U!Endpoints[n] = U!UserEndpoints[n]
      /\ \A n \in DOMAIN U!GroupEndpoints \ (DOMAIN U!UserEndpoints) :
            U!Endpoints[n] = U!GroupEndpoints[n]
      /\ \A n \in DOMAIN U!GroupViewEndpoints \ (DOMAIN U!UserEndpoints
             \cup DOMAIN U!GroupEndpoints) :
            U!Endpoints[n] = U!GroupViewEndpoints[n]
    BY DEF U!Endpoints, U!@@
<1>7. QED
    BY <1>2, <1>3, <1>4, <1>5, <1>6

(* The same for the bootstrap service.                                     *)
LEMMA BootstrapPaths ==
    \A r \in B!Routes :
        /\ Leads(r, "POST", <<"things", "configs">>, "add")
        /\ Leads(r, "PUT", <<"things", "state", "*">>, "state")
        /\ Leads(r, "GET", <<"things", "configs", "*">>, "view")
        /\ Leads(r, "PUT", <<"things", "configs", "*">>, "update")
        /\ Leads(r, "PATCH", <<"things", "configs", "certs", "*">>, "updateCert")
        /\ Leads(r, "DELETE", <<"things", "configs", "*">>, "remove")
        /\ Leads(r, "GET", <<"things", "bootstrap", "*">>, "bootstrap")
    BY DEF B!Routes, Leads, Nowhere

LEMMA BootstrapAnswers ==
    /\ Answers(B!Endpoints.add, B!Responses, "Add", 201)
    /\ Answers(B!Endpoints.view, B!Responses, "View", 200)
    /\ Answers(B!Endpoints.update, B!Responses, "Update", 200)
    /\ Answers(B!Endpoints.updateCert, B!Responses, "UpdateCert", 200)
    /\ Answers(B!Endpoints.state, B!Responses, "ChangeState", 200)
    /\ Answers(B!Endpoints.remove, B!Responses, "Remove", 204)
    /\ Answers(B!Endpoints.bootstrap, B!Responses, "Bootstrap", 200)
<1>1. /\ Answers(B!WriteEndpoints.add, B!Responses, "Add", 201)
      /\ Answers(B!WriteEndpoints.view, B!Responses, "View", 200)
      /\ Answers(B!WriteEndpoints.update, B!Responses, "Update", 200)
      /\ Answers(B!WriteEndpoints.updateCert, B!Responses, "UpdateCert", 200)
    BY DEF B!WriteEndpoints, B!Endpoint, B!Wrapping, B!Responses, Answers
<1>2. /\ Answers(B!ReadEndpoints.state, B!Responses, "ChangeState", 200)
      /\ Answers(B!ReadEndpoints.remove, B!Responses, "Remove", 204)
      /\ Answers(B!ReadEndpoints.bootstrap, B!Responses, "Bootstrap", 200)
    BY DEF B!ReadEndpoints, B!Endpoint, B!Wrapping, B!Responses, Answers
<1>3. /\ DOMAIN B!WriteEndpoints = {"add", "updateCert", "view", "update", "updateConn"}
      /\ DOMAIN B!ReadEndpoints = {"list", "remove", "bootstrap", "bootstrap_secure", "state"}
    BY DEF B!WriteEndpoints, B!ReadEndpoints
<1>4. /\ \A n \in DOMAIN B!WriteEndpoints :
            B!Endpoints[n] = B!WriteEndpoints[n]
      /\ \A n \in DOMAIN B!ReadEndpoints \ (DOMAIN B!WriteEndpoints) :
            B!Endpoints[n] = B!ReadEndpoints[n]
    BY DEF B!Endpoints, B!@@
<1>5. QED
    BY <1>1, <1>2, <1>3, <1>4

(* The same for certs, the HTTP adapter and the readers.                   *)
LEMMA CertsPaths ==
    \A r \in C!Routes :
        /\ Leads(r, "POST", <<"certs">>, "issueCert")
        /\ Nowhere(r, "DELETE", <<"*">>)
    BY DEF C!Routes, Leads, Nowhere

LEMMA CertsAnswers ==
    /\ Answers(C!Endpoints.issueCert, C!Responses, "IssueCert", 200)
    /\ C!Responses.masked = 201
    BY DEF C!Endpoints, C!Endpoint, C!Wrapping, C!Masking, C!Responses, Answers

LEMMA MessagesPaths ==
    \A r \in M!Routes :
        /\ Leads(r, "POST", <<"channels", "*", "messages">>, "sendMessage")
        /\ Leads(r, "POST", <<"channels", "*", "messages", "*">>, "sendMessage")
    BY DEF M!Routes, Leads, Nowhere

LEMMA MessagesAnswers ==
    /\ Answers(M!Endpoints.sendMessage, M!Responses, "Publish", 202)
    BY DEF M!Endpoints, M!Endpoint, M!Wrapping, M!Responses, Answers

LEMMA ReadersPaths ==
    \A r \in R!Routes :
        /\ Leads(r, "GET", <<"channels", "*", "messages">>, "listMessages")
    BY DEF R!Routes, Leads, Nowhere

LEMMA ReadersAnswers ==
    /\ Answers(R!Endpoints.listMessages, R!Responses, "ReadAll", 200)
    BY DEF R!Endpoints, R!Endpoint, R!Wrapping, R!Responses, Answers

(* The codes a function takes for success are successes; the route it      *)
(* leads to is for what the function is for, answers with such a code, and *)
(* answers an error with none of them.                                     *)
FunctionOK(fn, f, routes, endpoints, responses) ==
    /\ f.want \subseteq 200..299
    /\ \A r \in routes : r[1] = f.method /\ r[2] = f.path =>
          /\ \/ endpoints[r[3]].call = f.for
             \/ fn = "User" /\ endpoints[r[3]].call = "ListUsers"
          /\ responses[endpoints[r[3]].res] \in f.want
          /\ endpoints[r[3]].masked => responses.masked \notin f.want

(* The functions of the SDK, table by table.                               *)
LEMMA ThingFunctionsOK ==
    \A fn \in DOMAIN S!ThingFunctions :
        FunctionOK(fn, S!ThingFunctions[fn], T!Routes, T!Endpoints, T!Responses)
    BY ThingsPaths, ThingsAnswers, ThingsRoutes, ThingsEndpoints
    DEF S!ThingFunctions, S!Sent, FunctionOK, Leads, Nowhere, Answers, RouteOK

LEMMA ThingWriteFunctionsOK ==
    \A fn \in DOMAIN S!ThingWriteFunctions :
        FunctionOK(fn, S!ThingWriteFunctions[fn], T!Routes, T!Endpoints, T!Responses)
    BY ThingsPaths, ThingsAnswers, ThingsRoutes, ThingsEndpoints
    DEF S!ThingWriteFunctions, S!Sent, FunctionOK, Leads, Nowhere, Answers, RouteOK

LEMMA ChannelFunctionsOK ==
    \A fn \in DOMAIN S!ChannelFunctions :
        FunctionOK(fn, S!ChannelFunctions[fn], T!Routes, T!Endpoints, T!Responses)
    BY ThingsPaths, ThingsAnswers, ThingsRoutes, ThingsEndpoints
    DEF S!ChannelFunctions, S!Sent, FunctionOK, Leads, Nowhere, Answers, RouteOK

LEMMA ChannelWriteFunctionsOK ==
    \A fn \in DOMAIN S!ChannelWriteFunctions :
        FunctionOK(fn, S!ChannelWriteFunctions[fn], T!Routes, T!Endpoints, T!Responses)
    BY ThingsPaths, ThingsAnswers, ThingsRoutes, ThingsEndpoints
    DEF S!ChannelWriteFunctions, S!Sent, FunctionOK, Leads, Nowhere, Answers, RouteOK

LEMMA GroupFunctionsOK ==
    \A fn \in DOMAIN S!GroupFunctions :
        FunctionOK(fn, S!GroupFunctions[fn], U!Routes, U!Endpoints, U!Responses)
    BY UsersPaths, UsersAnswers, UsersRoutes, UsersEndpoints
    DEF S!GroupFunctions, S!Sent, FunctionOK, Leads, Nowhere, Answers, RouteOK

LEMMA GroupViewFunctionsOK ==
    \A fn \in DOMAIN S!GroupViewFunctions :
        FunctionOK(fn, S!GroupViewFunctions[fn], U!Routes, U!Endpoints, U!Responses)
    BY UsersPaths, UsersAnswers, UsersRoutes, UsersEndpoints
    DEF S!GroupViewFunctions, S!Sent, FunctionOK, Leads, Nowhere, Answers, RouteOK

LEMMA UserFunctionsOK ==
    \A fn \in DOMAIN S!UserFunctions :
        FunctionOK(fn, S!UserFunctions[fn], U!Routes, U!Endpoints, U!Responses)
    BY UsersPaths, UsersAnswers, UsersRoutes, UsersEndpoints
    DEF S!UserFunctions, S!Sent, FunctionOK, Leads, Nowhere, Answers, RouteOK

LEMMA BootstrapFunctionsOK ==
    \A fn \in DOMAIN S!BootstrapFunctions :
        FunctionOK(fn, S!BootstrapFunctions[fn], B!Routes, B!Endpoints, B!Responses)
    BY BootstrapPaths, BootstrapAnswers, BootstrapTables
    DEF S!BootstrapFunctions, S!Sent, FunctionOK, Leads, Nowhere, Answers, RouteOK

LEMMA BootstrapWriteFunctionsOK ==
    \A fn \in DOMAIN S!BootstrapWriteFunctions :
        FunctionOK(fn, S!BootstrapWriteFunctions[fn], B!Routes, B!Endpoints, B!Responses)
    BY BootstrapPaths, BootstrapAnswers, BootstrapTables
    DEF S!BootstrapWriteFunctions, S!Sent, FunctionOK, Leads, Nowhere, Answers, RouteOK

LEMMA CertFunctionsOK ==
    \A fn \in DOMAIN S!CertFunctions :
        FunctionOK(fn, S!CertFunctions[fn], C!Routes, C!Endpoints, C!Responses)
    BY CertsPaths, CertsAnswers, CertsTables
    DEF S!CertFunctions, S!Sent, FunctionOK, Leads, Nowhere, Answers, RouteOK

LEMMA MessageFunctionsOK ==
    /\ FunctionOK("SendMessage", S!MessageFunctions.SendMessage, M!Routes, M!Endpoints, M!Responses)
    /\ FunctionOK("SendMessageOn", S!MessageFunctions.SendMessageOn, M!Routes, M!Endpoints,
                  M!Responses)
    /\ FunctionOK("ReadMessages", S!MessageFunctions.ReadMessages, R!Routes, R!Endpoints,
                  R!Responses)
<1> USE DEF S!MessageFunctions, S!Sent, FunctionOK, Leads, Answers, RouteOK
<1>1. /\ FunctionOK("SendMessage", S!MessageFunctions.SendMessage, M!Routes, M!Endpoints,
                    M!Responses)
      /\ FunctionOK("SendMessageOn", S!MessageFunctions.SendMessageOn, M!Routes, M!Endpoints,
                    M!Responses)
    BY MessagesPaths, MessagesAnswers, MessagesTables
<1>2. FunctionOK("ReadMessages", S!MessageFunctions.ReadMessages, R!Routes, R!Endpoints,
                 R!Responses)
    BY ReadersPaths, ReadersAnswers, ReadersTables
<1>3. QED
    BY <1>1, <1>2

(* All functions, of whichever service.                                    *)
Sound(fn, f) ==
    FunctionOK(fn, f, Apis[f.service].routes, Apis[f.service].endpoints, Apis[f.service].responses)

LEMMA FunctionFacts == \A fn \in DOMAIN S!Functions : Sound(fn, S!Functions[fn])
<1>1. /\ Apis.things.routes = T!Routes /\ Apis.things.endpoints = T!Endpoints
      /\ Apis.things.responses = T!Responses
      /\ Apis.users.routes = U!Routes /\ Apis.users.endpoints = U!Endpoints
      /\ Apis.users.responses = U!Responses
      /\ Apis.bootstrap.routes = B!Routes /\ Apis.bootstrap.endpoints = B!Endpoints
      /\ Apis.bootstrap.responses = B!Responses
      /\ Apis.certs.routes = C!Routes /\ Apis.certs.endpoints = C!Endpoints
      /\ Apis.certs.responses = C!Responses
    BY DEF Apis, Of
<1>2. /\ Apis.http.routes = M!Routes /\ Apis.http.endpoints = M!Endpoints
      /\ Apis.http.responses = M!Responses
      /\ Apis.readers.routes = R!Routes /\ Apis.readers.endpoints = R!Endpoints
      /\ Apis.readers.responses = R!Responses
    BY DEF Apis, Of
<1> USE DEF Sound
<1>3. \A fn \in DOMAIN S!ThingFunctions : Sound(fn, S!ThingFunctions[fn])
  <2>1. \A fn \in DOMAIN S!ThingFunctions : S!ThingFunctions[fn].service = "things"
      BY DEF S!ThingFunctions, S!Sent
  <2>2. QED
      BY <1>1, <2>1, ThingFunctionsOK
<1>4. \A fn \in DOMAIN S!ThingWriteFunctions : Sound(fn, S!ThingWriteFunctions[fn])
  <2>1. \A fn \in DOMAIN S!ThingWriteFunctions : S!ThingWriteFunctions[fn].service = "things"
      BY DEF S!ThingWriteFunctions, S!Sent
  <2>2. QED
      BY <1>1, <2>1, ThingWriteFunctionsOK
<1>5. \A fn \in DOMAIN S!ChannelFunctions : Sound(fn, S!ChannelFunctions[fn])
  <2>1. \A fn \in DOMAIN S!ChannelFunctions : S!ChannelFunctions[fn].service = "things"
      BY DEF S!ChannelFunctions, S!Sent
  <2>2. QED
      BY <1>1, <2>1, ChannelFunctionsOK
<1>6. \A fn \in DOMAIN S!ChannelWriteFunctions : Sound(fn, S!ChannelWriteFunctions[fn])
  <2>1. \A fn \in DOMAIN S!ChannelWriteFunctions : S!ChannelWriteFunctions[fn].service = "things"
      BY DEF S!ChannelWriteFunctions, S!Sent
  <2>2. QED
      BY <1>1, <2>1, ChannelWriteFunctionsOK
<1>7. \A fn \in DOMAIN S!GroupFunctions : Sound(fn, S!GroupFunctions[fn])
  <2>1. \A fn \in DOMAIN S!GroupFunctions : S!GroupFunctions[fn].service = "users"
      BY DEF S!GroupFunctions, S!Sent
  <2>2. QED
      BY <1>1, <2>1, GroupFunctionsOK
<1>8. \A fn \in DOMAIN S!GroupViewFunctions : Sound(fn, S!GroupViewFunctions[fn])
  <2>1. \A fn \in DOMAIN S!GroupViewFunctions : S!GroupViewFunctions[fn].service = "users"
      BY DEF S!GroupViewFunctions, S!Sent
  <2>2. QED
      BY <1>1, <2>1, GroupViewFunctionsOK
<1>9. \A fn \in DOMAIN S!UserFunctions : Sound(fn, S!UserFunctions[fn])
  <2>1. \A fn \in DOMAIN S!UserFunctions : S!UserFunctions[fn].service = "users"
      BY DEF S!UserFunctions, S!Sent
  <2>2. QED
      BY <1>1, <2>1, UserFunctionsOK
<1>10. \A fn \in DOMAIN S!BootstrapFunctions : Sound(fn, S!BootstrapFunctions[fn])
  <2>1. \A fn \in DOMAIN S!BootstrapFunctions : S!BootstrapFunctions[fn].service = "bootstrap"
      BY DEF S!BootstrapFunctions, S!Sent
  <2>2. QED
      BY <1>1, <2>1, BootstrapFunctionsOK
<1>11. \A fn \in DOMAIN S!BootstrapWriteFunctions : Sound(fn, S!BootstrapWriteFunctions[fn])
  <2>1. \A fn \in DOMAIN S!BootstrapWriteFunctions :
            S!BootstrapWriteFunctions[fn].service = "bootstrap"
      BY DEF S!BootstrapWriteFunctions, S!Sent
  <2>2. QED
      BY <1>1, <2>1, BootstrapWriteFunctionsOK
<1>12. \A fn \in DOMAIN S!CertFunctions : Sound(fn, S!CertFunctions[fn])
  <2>1. \A fn \in DOMAIN S!CertFunctions : S!CertFunctions[fn].service = "certs"
      BY DEF S!CertFunctions, S!Sent
  <2>2. QED
      BY <1>1, <2>1, CertFunctionsOK
<1>13. \A fn \in DOMAIN S!MessageFunctions : Sound(fn, S!MessageFunctions[fn])
  <2>1. /\ DOMAIN S!MessageFunctions = {"SendMessage", "SendMessageOn", "ReadMessages"}
        /\ S!MessageFunctions.SendMessage.service = "http"
        /\ S!MessageFunctions.SendMessageOn.service = "http"
        /\ S!MessageFunctions.ReadMessages.service = "readers"
      BY DEF S!MessageFunctions, S!Sent
  <2>2. QED
      BY <1>2, <2>1, MessageFunctionsOK
<1> HIDE DEF Sound
<1>14. QED
    BY FunctionTables, <1>3, <1>4, <1>5, <1>6, <1>7, <1>8, <1>9, <1>10, <1>11, <1>12, <1>13 DEF In

(***************************************************************************)
(* The commands of the CLI                                                 *)
(***************************************************************************)
(* The names of the functions are those of the eleven tables.              *)
LEMMA FunctionNames ==
    DOMAIN S!Functions =
        DOMAIN S!ThingFunctions \cup DOMAIN S!ThingWriteFunctions
            \cup DOMAIN S!ChannelFunctions \cup DOMAIN S!ChannelWriteFunctions
            \cup DOMAIN S!GroupFunctions \cup DOMAIN S!GroupViewFunctions
            \cup DOMAIN S!UserFunctions \cup DOMAIN S!CertFunctions
            \cup DOMAIN S!BootstrapFunctions \cup DOMAIN S!BootstrapWriteFunctions
            \cup DOMAIN S!MessageFunctions
<1>1. \A f, g : DOMAIN S!@@(f, g) = DOMAIN f \cup DOMAIN g
    BY DEF S!@@
<1> DEFINE F1 == S!ThingFunctions
           F2 == S!@@(F1, S!ThingWriteFunctions)
           F3 == S!@@(F2, S!ChannelFunctions)
           F4 == S!@@(F3, S!ChannelWriteFunctions)
           F5 == S!@@(F4, S!GroupFunctions)
           F6 == S!@@(F5, S!GroupViewFunctions)
           F7 == S!@@(F6, S!UserFunctions)
           F8 == S!@@(F7, S!BootstrapFunctions)
           F9 == S!@@(F8, S!BootstrapWriteFunctions)
           F10 == S!@@(F9, S!CertFunctions)
           F11 == S!@@(F10, S!MessageFunctions)
<1>2. S!Functions = F11
    BY DEF S!Functions
<1> HIDE DEF F2, F3, F4, F5, F6, F7, F8, F9, F10, F11
<1>3. DOMAIN F2 = DOMAIN F1 \cup DOMAIN S!ThingWriteFunctions
    BY <1>1 DEF F2
<1>4. DOMAIN F3 = DOMAIN F2 \cup DOMAIN S!ChannelFunctions
    BY <1>1 DEF F3
<1>5. DOMAIN F4 = DOMAIN F3 \cup DOMAIN S!ChannelWriteFunctions
    BY <1>1 DEF F4
<1>6. DOMAIN F5 = DOMAIN F4 \cup DOMAIN S!GroupFunctions
    BY <1>1 DEF F5
<1>7. DOMAIN F6 = DOMAIN F5 \cup DOMAIN S!GroupViewFunctions
    BY <1>1 DEF F6
<1>8. DOMAIN F7 = DOMAIN F6 \cup DOMAIN S!UserFunctions
    BY <1>1 DEF F7
<1>9. DOMAIN F8 = DOMAIN F7 \cup DOMAIN S!BootstrapFunctions
    BY <1>1 DEF F8
<1>10. DOMAIN F9 = DOMAIN F8 \cup DOMAIN S!BootstrapWriteFunctions
    BY <1>1 DEF F9
<1>11. DOMAIN F10 = DOMAIN F9 \cup DOMAIN S!CertFunctions
    BY <1>1 DEF F10
<1>12. DOMAIN F11 = DOMAIN F10 \cup DOMAIN S!MessageFunctions
    BY <1>1 DEF F11
<1>13. QED
    BY <1>2, <1>3, <1>4, <1>5, <1>6, <1>7, <1>8, <1>9, <1>10, <1>11, <1>12

(* A command makes calls of the SDK, prints something of its own for       *)
(* success, and usage or an error for a wrong input.                       *)
CommandOK(c, k) ==
    /\ c # "none"
    /\ Len(k.calls) \in Nat \ {0}
    /\ \A i \in 1..Len(k.calls) : k.calls[i] \in DOMAIN S!Functions
    /\ k.prints \notin {"none", "usage", "error"}
    /\ L!Inputs[k.input] \subseteq {"usage", "error"}

LEMMA CommandFacts == \A c \in DOMAIN L!Commands : CommandOK(c, L!Commands[c])
<1> DEFINE F1 == L!ThingCommands
           F2 == L!@@(F1, L!ConnectionCommands)
           F3 == L!@@(F2, L!ChannelCommands)
           F4 == L!@@(F3, L!GroupCommands)
           F5 == L!@@(F4, L!UserCommands)
           F6 == L!@@(F5, L!BootstrapCommands)
           F7 == L!@@(F6, L!CertCommands)
           F8 == L!@@(F7, L!MessageCommands)
           F9 == L!@@(F8, L!ProvisionCommands)
           F10 == L!@@(F9, L!Test)
<1>1. L!Commands = F10
    BY DEF L!Commands
<1>2. \A f, g : \A x \in DOMAIN L!@@(f, g) : In(x, f, L!@@(f, g)[x]) \/ In(x, g, L!@@(f, g)[x])
    BY DEF L!@@, In
<1> HIDE DEF F1, F2, F3, F4, F5, F6, F7, F8, F9, F10
<1>3. \A c \in DOMAIN L!ThingCommands : CommandOK(c, L!ThingCommands[c])
    BY FunctionNames DEF CommandOK, L!ThingCommands, L!Command, L!Inputs, L!FromFile,
       S!ThingFunctions, S!ThingWriteFunctions
<1>4. \A c \in DOMAIN L!ConnectionCommands : CommandOK(c, L!ConnectionCommands[c])
    BY FunctionNames DEF CommandOK, L!ConnectionCommands, L!Command, L!Inputs, L!FromFile,
       S!ThingWriteFunctions, S!ChannelFunctions
<1>5. \A c \in DOMAIN L!ChannelCommands : CommandOK(c, L!ChannelCommands[c])
    BY FunctionNames DEF CommandOK, L!ChannelCommands, L!Command, L!Inputs, L!FromFile,
       S!ChannelFunctions, S!ChannelWriteFunctions, S!ThingFunctions
<1>6. \A c \in DOMAIN L!GroupCommands : CommandOK(c, L!GroupCommands[c])
    BY FunctionNames DEF CommandOK, L!GroupCommands, L!Command, L!Inputs, L!FromFile,
       S!GroupFunctions, S!GroupViewFunctions, S!UserFunctions
<1>7. \A c \in DOMAIN L!UserCommands : CommandOK(c, L!UserCommands[c])
    BY FunctionNames DEF CommandOK, L!UserCommands, L!Command, L!Inputs, L!FromFile,
       S!UserFunctions
<1>8. \A c \in DOMAIN L!BootstrapCommands : CommandOK(c, L!BootstrapCommands[c])
    BY FunctionNames DEF CommandOK, L!BootstrapCommands, L!Command, L!Inputs, L!FromFile,
       S!BootstrapFunctions, S!BootstrapWriteFunctions
<1>9. \A c \in DOMAIN L!CertCommands : CommandOK(c, L!CertCommands[c])
    BY FunctionNames DEF CommandOK, L!CertCommands, L!Command, L!Inputs, L!FromFile,
       S!CertFunctions
<1>10. \A c \in DOMAIN L!MessageCommands : CommandOK(c, L!MessageCommands[c])
    BY FunctionNames DEF CommandOK, L!MessageCommands, L!Command, L!Inputs, L!FromFile,
       S!MessageFunctions
<1>11. \A c \in DOMAIN L!ProvisionCommands : CommandOK(c, L!ProvisionCommands[c])
    BY FunctionNames DEF CommandOK, L!ProvisionCommands, L!Command, L!Inputs, L!FromFile,
       S!ThingFunctions, S!ThingWriteFunctions, S!ChannelFunctions
<1>12. \A c \in DOMAIN L!Test : CommandOK(c, L!Test[c])
  <2>1. {"CreateUser", "CreateToken", "CreateThings", "CreateChannels", "Connect"}
            \subseteq DOMAIN S!Functions
    <3>1. {"CreateUser", "CreateToken"} \subseteq DOMAIN S!UserFunctions
        BY DEF S!UserFunctions
    <3>2. {"CreateThings", "CreateChannels", "Connect"} \subseteq
              DOMAIN S!ThingFunctions \cup DOMAIN S!ThingWriteFunctions
                  \cup DOMAIN S!ChannelFunctions
        BY DEF S!ThingFunctions, S!ThingWriteFunctions, S!ChannelFunctions
    <3>3. QED
        BY <3>1, <3>2, FunctionNames
  <2>2. QED
      BY <2>1, SMTT(40) DEF CommandOK, L!Test, L!Command, L!Inputs, L!FromFile
<1>13. \A x \in DOMAIN F2 : In(x, F1, F2[x]) \/ In(x, L!ConnectionCommands, F2[x])
    BY <1>2 DEF F2
<1>14. \A x \in DOMAIN F3 : In(x, F2, F3[x]) \/ In(x, L!ChannelCommands, F3[x])
    BY <1>2 DEF F3
<1>15. \A x \in DOMAIN F4 : In(x, F3, F4[x]) \/ In(x, L!GroupCommands, F4[x])
    BY <1>2 DEF F4
<1>16. \A x \in DOMAIN F5 : In(x, F4, F5[x]) \/ In(x, L!UserCommands, F5[x])
    BY <1>2 DEF F5
<1>17. \A x \in DOMAIN F6 : In(x, F5, F6[x]) \/ In(x, L!BootstrapCommands, F6[x])
    BY <1>2 DEF F6
<1>18. \A x \in DOMAIN F7 : In(x, F6, F7[x]) \/ In(x, L!CertCommands, F7[x])
    BY <1>2 DEF F7
<1>19. \A x \in DOMAIN F8 : In(x, F7, F8[x]) \/ In(x, L!MessageCommands, F8[x])
    BY <1>2 DEF F8
<1>20. \A x \in DOMAIN F9 : In(x, F8, F9[x]) \/ In(x, L!ProvisionCommands, F9[x])
    BY <1>2 DEF F9
<1>21. \A x \in DOMAIN F10 : In(x, F9, F10[x]) \/ In(x, L!Test, F10[x])
    BY <1>2 DEF F10
<1> HIDE DEF CommandOK
<1>22. QED
    BY <1>1, <1>3, <1>4, <1>5, <1>6, <1>7, <1>8, <1>9, <1>10, <1>11, <1>12, <1>13, <1>14, <1>15,
       <1>16, <1>17, <1>18, <1>19, <1>20, <1>21 DEF In, F1

(***************************************************************************)
(* The way of a request                                                    *)
(***************************************************************************)
(* The phases of a request in a handler, those after it, and the endpoints *)
(* that answer an error of the service as a success.                       *)
Handled == {"validate", "check", "identify", "then", "serve", "failed"}
Replied == {"answered", "received", "lost"}
MasksAt(q, why) == why # "refused" /\ EndpointOf(q.service, q.route).masked

(* What is answered as a success, and what the code answered tells.        *)
Success == {"done", "dropped"}
Answer(q, res, c) ==
    \/ /\ res \in Success /\ q.route # NoRoute
       /\ c = Apis[q.service].responses[EndpointOf(q.service, q.route).res]
    \/ /\ res \notin Success /\ q.route # NoRoute /\ MasksAt(q, res)
       /\ c = Apis[q.service].responses.masked
    \/ /\ res \notin Success /\ (q.route # NoRoute => ~MasksAt(q, res))
       /\ c \in 400..503

(* Where a request is, it came to through the steps before.                *)
HandlerOK(ph, q, res, c) ==
    /\ ph \in {"idle", "decode"} \cup Handled \cup Replied
    /\ ph # "idle" => RequestOK(q)
    /\ ph \notin {"failed"} \cup Replied => res = "none"
    /\ ph \in Handled => q.route # NoRoute
    /\ ph \in {"check", "identify", "then", "serve"} \/ res = "done" => Valid(q)
    /\ ph \in {"then", "serve"} \/ res = "done" => Known(q)
    /\ ph = "failed" => res \notin Success
    /\ res = "dropped" =>
          q.route # NoRoute /\ EndpointOf(q.service, q.route).call \in ErrorsUnnoticed
    /\ res = "part" =>
          q.route # NoRoute /\ EndpointOf(q.service, q.route).call \in LeavesPart
    /\ ph \in Replied => Answer(q, res, c)

(* What a function of the SDK returned is true of the operation.           *)
SdkOK(ph, q, res, v) ==
    /\ ph = "received" /\ q.fn # "client" =>
          \/ /\ v = "nil" /\ res \in Success
             /\ LET call == EndpointOf(q.service, q.route).call
                IN  call = S!Functions[q.fn].for \/ (q.fn = "User" /\ call = "ListUsers")
          \/ v = "error" /\ res \notin Success
    /\ ph = "lost" /\ q.fn # "client" => v = "error"

(* A command has made calls that did what they are for until it prints,    *)
(* and what it prints is true of them.                                     *)
Calls == UNION {DOMAIN Apis[s].service : s \in ServiceNames}
Operations == Calls \cup {"none"}
Done(calls, md, i) ==
    /\ \/ md[i][1] = S!Functions[calls[i]].for
       \/ calls[i] = "User" /\ md[i][1] = "ListUsers"
       \/ md[i][1] = "none" /\ S!Functions[calls[i]].for \in ErrorsUnnoticed
       \/ calls[i] = "User" /\ md[i][1] = "none"
    /\ md[i][2]
Printed(calls, md, sh) ==
    /\ sh = "usage" => md = <<>>
    /\ sh \notin {"usage", "error"} =>
           Len(md) = Len(calls) /\ \A i \in 1..Len(md) : Done(calls, md, i)
    /\ sh = "error" => \A i \in 1..Len(md) :
                          IF i < Len(md) THEN Done(calls, md, i)
                          ELSE md[i][1] \in {"none"} \cup LeavesPart \/ ~md[i][2]

CliOK(c, md, sh, ph, q) ==
    /\ c = "none" => md = <<>> /\ sh = "none"
    /\ c # "none" =>
          /\ c \in DOMAIN L!Commands
          /\ md \in Seq(Operations \X BOOLEAN)
          /\ sh = "none" => /\ Len(md) < Len(L!Commands[c].calls)
                            /\ \A i \in 1..Len(md) : Done(L!Commands[c].calls, md, i)
          /\ sh # "none" => ph = "idle" /\ Printed(L!Commands[c].calls, md, sh)
          /\ ph # "idle" => q.fn = L!Commands[c].calls[Len(md) + 1]

(* The parts of the inductive invariant.                                   *)
SdkInv == SdkOK(phase, sent, result, verdict)
CliInv == CliOK(cmd, made, shown, phase, sent)
HandlerInv == HandlerOK(phase, sent, result, code)

(* Init and every step keep the handler's part.                            *)
LEMMA HandlerInit == Init => HandlerInv
    BY DEF Init, HandlerInv, HandlerOK, Handled, Replied

(* A refused request has not been done.                                    *)
LEMMA RefuseKeeps ==
    ASSUME HandlerInv, phase \in Handled, NEW why, why \notin Success, NEW e, Refuse(why, e),
           why = "part" => EndpointOf(sent.service, sent.route).call \in LeavesPart
    PROVE  HandlerInv'
    BY DEF HandlerInv, HandlerOK, Refuse, Handled, Replied, Success

(* A request that is sent is one of those above; one that is over is none. *)
LEMMA SendKeeps ==
    ASSUME HandlerInv, NEW q, RequestOK(q), Send(q)
    PROVE  HandlerInv'
    BY DEF HandlerInv, HandlerOK, Send, Handled, Replied

LEMMA FinishKeeps == ASSUME HandlerInv, Finish PROVE HandlerInv'
    BY DEF HandlerInv, HandlerOK, Finish, Handled, Replied

(* The call a command makes next is one of a function of the SDK.          *)
LEMMA NextCall ==
    ASSUME CliInv, cmd # "none", shown = "none"
    PROVE  L!Commands[cmd].calls[Len(made) + 1] \in DOMAIN S!Functions
<1>1. CommandOK(cmd, L!Commands[cmd]) /\ Len(made) \in Nat
    BY CommandFacts DEF CliInv, CliOK
<1>2. Len(made) + 1 \in 1..Len(L!Commands[cmd].calls)
    BY <1>1 DEF CliInv, CliOK, CommandOK
<1>3. QED
    BY <1>1, <1>2 DEF CommandOK

(* One step per action: where the request is afterwards, it came to        *)
(* through the phases before.                                              *)
LEMMA HandlerNext == HandlerInv /\ CliInv /\ [Next]_vars => HandlerInv'
<1> SUFFICES ASSUME HandlerInv, CliInv, [Next]_vars PROVE HandlerInv'
    OBVIOUS
<1> USE DEF HandlerInv
<1>1. ASSUME NEW q \in Requests, Send(q) PROVE HandlerInv'
    BY <1>1, RequestsOK, SendKeeps
<1>2. ASSUME NEW fn \in DOMAIN S!Functions, NEW q \in SdkRequests(fn), Send(q) PROVE HandlerInv'
    BY <1>2, SdkRequestsOK, SendKeeps
<1>3. ASSUME NEW c \in DOMAIN L!Commands, Run(c) PROVE HandlerInv'
    BY <1>3 DEF Run, request
<1>4. CASE Call
  <2>1. PICK q \in SdkRequests(L!Commands[cmd].calls[Len(made) + 1]) : Send(q)
      BY <1>4 DEF Call
  <2>2. RequestOK(q)
      BY <1>4, NextCall, SdkRequestsOK DEF Call
  <2>3. QED
      BY <2>1, <2>2, SendKeeps
<1>5. CASE CallReturns
    BY <1>5, FinishKeeps DEF CallReturns
<1>6. CASE Exit
    BY <1>6 DEF Exit, request
<1>7. CASE NotFound
    BY <1>7 DEF NotFound, HandlerOK, Answer, Handled, Replied, MasksAt, Success
<1>8. CASE Decode
    BY <1>8 DEF Decode, Refuse, Advance, HandlerOK, Handled, Replied, Success
<1>9. CASE Validate
  <2> DEFINE e == FirstError(RequestOf(sent.service, sent.route), sent.flaws)
  <2>1. CASE e = <<>>
      BY <1>9, <2>1 DEF Validate, Advance, HandlerOK, Handled, Replied, Valid
  <2>2. CASE e # <<>>
      BY <1>9, <2>2, RefuseKeeps DEF Validate, Handled, Success
  <2>3. QED
      BY <2>1, <2>2
<1>10. CASE Check
  <2> DEFINE e == FirstError(MethodOf(sent.service, sent.route).checks, sent.flaws)
  <2>1. CASE e = <<>>
      BY <1>10, <2>1 DEF Check, Advance, HandlerOK, Handled, Replied
  <2>2. CASE e # <<>>
      BY <1>10, <2>2, RefuseKeeps DEF Check, Fail, Handled, Success
  <2>3. QED
      BY <2>1, <2>2
<1>11. CASE Identify
  <2> DEFINE m == MethodOf(sent.service, sent.route)
  <2>1. PICK e \in IdentifyErrors(m.by, sent.token) :
            IF e = <<>> THEN Advance("then")
            ELSE Fail(IF e \in OutOfReach \/ sent.token = "connected_key"
                      THEN "unavailable" ELSE "denied",
                      IF m.keeps THEN Wrap(m.layers, e) ELSE m.layers)
      BY <1>11 DEF Identify
  <2>2. CASE e = <<>>
      BY <1>11, <2>1, <2>2 DEF Identify, Advance, HandlerOK, Handled, Replied, Known
  <2>3. CASE e # <<>>
      BY <1>11, <2>1, <2>3, RefuseKeeps DEF Identify, Fail, Handled, Success
  <2>4. QED
      BY <2>2, <2>3
<1>12. CASE Then
  <2> DEFINE e == FirstError(MethodOf(sent.service, sent.route).then, sent.flaws)
  <2>1. CASE e = <<>>
      BY <1>12, <2>1 DEF Then, Advance, HandlerOK, Handled, Replied
  <2>2. CASE e # <<>>
      BY <1>12, <2>2, RefuseKeeps DEF Then, Fail, Handled, Success
  <2>3. QED
      BY <2>1, <2>2
<1>13. CASE Serve
    BY <1>13 DEF Serve, HandlerOK, Answer, Handled, Replied, Success
<1>14. CASE ServeFails
  <2>1. PICK f \in MethodOf(sent.service, sent.route).fails : Fail(f[1], f[2])
      BY <1>14 DEF ServeFails
  <2>2. MethodOK(EndpointOf(sent.service, sent.route).call, MethodOf(sent.service, sent.route),
                 By(sent.service))
      BY <1>14, RouteFacts DEF ServeFails, HandlerOK, Handled, RequestOK
  <2>3. /\ f[1] \notin Success
        /\ f[1] = "part" => EndpointOf(sent.service, sent.route).call \in LeavesPart
      BY <2>2 DEF MethodOK, Reasons, Success
  <2>4. QED
      BY <1>14, <2>1, <2>3, RefuseKeeps DEF ServeFails, Fail, Handled
<1>15. CASE Encode
  <2>1. EncodeError(sent.service, err) \in 400..503
      BY <1>15, ErrorCode DEF Encode, HandlerOK, RequestOK
  <2>2. Masks(result) <=> MasksAt(sent, result)
      BY DEF Masks, MasksAt
  <2>3. QED
      BY <1>15, <2>1, <2>2 DEF Encode, HandlerOK, Answer, Handled, Replied
<1>16. CASE Receive
    BY <1>16 DEF Receive, HandlerOK, Handled, Replied
<1>17. CASE LoseAnswer
    BY <1>17 DEF LoseAnswer, HandlerOK, Handled, Replied
<1>18. CASE Return
    BY <1>18, FinishKeeps DEF Return
<1>19. CASE UNCHANGED vars
    BY <1>19 DEF vars, request
<1>20. CASE ServeUnnoticed
  <2>1. MethodOK(EndpointOf(sent.service, sent.route).call, MethodOf(sent.service, sent.route),
                 By(sent.service))
      BY <1>20, RouteFacts DEF ServeUnnoticed, HandlerOK, Handled, RequestOK
  <2>2. EndpointOf(sent.service, sent.route).call \in ErrorsUnnoticed
      BY <1>20, <2>1 DEF ServeUnnoticed, MethodOK
  <2>3. QED
      BY <1>20, <2>2 DEF ServeUnnoticed, HandlerOK, Answer, Handled, Replied, Success
<1>21. QED
    BY <1>1, <1>2, <1>3, <1>4, <1>5, <1>6, <1>7, <1>8, <1>9, <1>10, <1>11, <1>12, <1>13, <1>14,
       <1>15, <1>16, <1>17, <1>18, <1>19, <1>20 DEF Next

(***************************************************************************)
(* What the functions of the SDK return                                    *)
(***************************************************************************)
LEMMA SdkInit == Init => SdkInv
    BY DEF Init, SdkInv, SdkOK

(* A function whose request was answered returns nil when it was done, or  *)
(* failed unnoticed, and an error when it failed.                          *)
LEMMA Returned ==
    ASSUME NEW q, RequestOK(q), q.fn # "client", NEW res, NEW c, Answer(q, res, c)
    PROVE  \/ /\ c \in S!Functions[q.fn].want /\ res \in Success
              /\ \/ EndpointOf(q.service, q.route).call = S!Functions[q.fn].for
                 \/ q.fn = "User" /\ EndpointOf(q.service, q.route).call = "ListUsers"
           \/ c \notin S!Functions[q.fn].want /\ res \notin Success
<1> DEFINE f == S!Functions[q.fn]
<1>1. q.fn \in DOMAIN S!Functions /\ q.service = f.service /\ q.route \in RoutesOf(q.fn)
    BY DEF RequestOK
<1>2. Sound(q.fn, f)
    BY <1>1, FunctionFacts
<1>3. f.want \subseteq 200..299
    BY <1>2 DEF Sound, FunctionOK
<1>4. CASE q.route = NoRoute
  <2>1. res \notin Success /\ c \in 400..503
      BY <1>4 DEF Answer
  <2>2. QED
      BY <1>3, <2>1
<1>5. CASE q.route # NoRoute
  <2>1. q.route \in Apis[f.service].routes /\ q.route[1] = f.method /\ q.route[2] = f.path
      BY <1>1, <1>5 DEF RoutesOf
  <2> DEFINE e == EndpointOf(q.service, q.route)
  <2>2. /\ e.call = f.for \/ (q.fn = "User" /\ e.call = "ListUsers")
        /\ Apis[q.service].responses[e.res] \in f.want
        /\ e.masked => Apis[q.service].responses.masked \notin f.want
      BY <1>1, <1>2, <2>1 DEF Sound, FunctionOK, EndpointOf
  <2>3. CASE res \in Success
      BY <2>2, <2>3 DEF Answer
  <2>4. CASE res \notin Success /\ MasksAt(q, res)
      BY <1>5, <2>2, <2>4 DEF Answer, MasksAt
  <2>5. CASE res \notin Success /\ ~MasksAt(q, res)
    <3>1. c \in 400..503
        BY <1>5, <2>5 DEF Answer
    <3>2. QED
        BY <1>3, <2>5, <3>1
  <2>6. QED
      BY <2>3, <2>4, <2>5
<1>6. QED
    BY <1>4, <1>5

(* Every step keeps the SDK's part.                                        *)
LEMMA SdkNext == HandlerInv /\ SdkInv /\ [Next]_vars => SdkInv'
<1> SUFFICES ASSUME HandlerInv, SdkInv, [Next]_vars PROVE SdkInv'
    OBVIOUS
<1> USE DEF SdkInv, SdkOK
<1>1. CASE Receive
  <2>1. phase = "answered" /\ RequestOK(sent) /\ Answer(sent, result, code)
      BY <1>1 DEF Receive, HandlerInv, HandlerOK, Replied
  <2>2. QED
      BY <1>1, <2>1, Returned DEF Receive
<1>2. CASE LoseAnswer
    BY <1>2 DEF LoseAnswer
<1>3. ASSUME phase' \notin {"received", "lost"} PROVE SdkInv'
    BY <1>3
<1>4. CASE UNCHANGED request
    BY <1>4 DEF request
<1>5. ASSUME NEW q, Send(q) PROVE SdkInv'
    BY <1>3, <1>5 DEF Send
<1>6. ASSUME NEW c, Run(c) PROVE SdkInv'
    BY <1>4, <1>6 DEF Run
<1>7. CASE Call \/ CallReturns \/ Return
    BY <1>3, <1>7 DEF Call, Send, CallReturns, Return, Finish
<1>8. CASE Exit
    BY <1>4, <1>8 DEF Exit
<1>9. CASE NotFound \/ Decode \/ Validate \/ Check \/ Then \/ Serve \/ ServeUnnoticed \/ Encode
    BY <1>3, <1>9
    DEF NotFound, Decode, Validate, Check, Then, Serve, ServeUnnoticed, Encode, Advance, Fail,
        Refuse
<1>10. CASE Identify
    BY <1>3, <1>10 DEF Identify, Advance, Fail, Refuse
<1>11. CASE ServeFails
    BY <1>3, <1>11 DEF ServeFails, Fail, Refuse
<1>12. CASE UNCHANGED vars
    BY <1>4, <1>12 DEF vars
<1>13. QED
    BY <1>1, <1>2, <1>5, <1>6, <1>7, <1>8, <1>9, <1>10, <1>11, <1>12 DEF Next

(***************************************************************************)
(* What the commands of the CLI print                                      *)
(***************************************************************************)
LEMMA CliInit == Init => CliInv
    BY DEF Init, CliInv, CliOK

(* A step of a handler leaves the command alone.                           *)
LEMMA StepKeepsCli ==
    ASSUME CliInv, phase # "idle", sent' = sent, UNCHANGED cli
    PROVE  CliInv'
    BY DEF CliInv, CliOK, cli

(* What a call of a command did is an operation or none.                   *)
LEMMA OutcomeOK ==
    ASSUME HandlerInv, phase # "idle"
    PROVE  Outcome \in Operations \X BOOLEAN
<1>1. result \in {"done", "part"} => EndpointOf(sent.service, sent.route).call \in Operations
  <2> SUFFICES ASSUME result \in {"done", "part"}
               PROVE  EndpointOf(sent.service, sent.route).call \in Operations
      OBVIOUS
  <2>1. sent.service \in ServiceNames /\ sent.route \in Apis[sent.service].routes
      BY DEF HandlerInv, HandlerOK, RequestOK, Answer, Success
  <2>2. EndpointOf(sent.service, sent.route).call \in DOMAIN Apis[sent.service].service
      BY <2>1, RouteFacts
  <2>3. QED
      BY <2>1, <2>2 DEF Operations, Calls
<1>2. "none" \in Operations
    BY DEF Operations
<1>3. QED
    BY <1>1, <1>2 DEF Outcome

(* The call that returned has its outcome noted and the command goes on,   *)
(* or prints.                                                              *)
LEMMA CallReturnsCli ==
    ASSUME HandlerInv, SdkInv, CliInv, CallReturns
    PROVE  CliInv'
<1> DEFINE calls == L!Commands[cmd].calls
           n == Len(made)
           o == Outcome
<1>1. /\ cmd # "none" /\ phase \in {"received", "lost"} /\ cmd' = cmd /\ phase' = "idle"
      /\ made' = Append(made, o)
      /\ shown' = IF verdict = "error" THEN "error"
                  ELSE IF Len(made') = Len(calls) THEN L!Commands[cmd].prints ELSE "none"
    BY DEF CallReturns, Finish
<1>2. /\ cmd \in DOMAIN L!Commands /\ made \in Seq(Operations \X BOOLEAN)
      /\ shown = "none" /\ n < Len(calls)
      /\ \A i \in 1..n : Done(calls, made, i)
      /\ sent.fn = calls[n + 1]
    BY <1>1 DEF CliInv, CliOK
<1>3. CommandOK(cmd, L!Commands[cmd])
    BY <1>2, CommandFacts
<1>4. o \in Operations \X BOOLEAN
    BY <1>1, OutcomeOK
<1>5. n \in Nat /\ Len(calls) \in Nat \ {0} /\ sent.fn \in DOMAIN S!Functions /\ sent.fn # "client"
  <2>1. n \in Nat /\ Len(calls) \in Nat \ {0}
      BY <1>2, <1>3 DEF CommandOK
  <2>2. n + 1 \in 1..Len(calls)
      BY <1>2, <2>1
  <2>3. sent.fn \in DOMAIN S!Functions
      BY <1>2, <1>3, <2>2 DEF CommandOK
  <2>4. QED
      BY <2>1, <2>3, FunctionServices
<1> HIDE DEF o
<1>6. /\ made' \in Seq(Operations \X BOOLEAN) /\ Len(made') = n + 1
      /\ \A i \in 1..n : made'[i] = made[i]
      /\ made'[n + 1] = o
    BY <1>1, <1>2, <1>4
<1>7. \A i \in 1..n : Done(calls, made', i)
    BY <1>2, <1>6 DEF Done
<1>8. CASE verdict = "error"
  <2>1. o[1] \in {"none"} \cup LeavesPart \/ ~o[2]
      BY <1>1, <1>5, <1>8 DEF SdkInv, SdkOK, HandlerInv, HandlerOK, Success, Outcome, o
  <2>2. Printed(calls, made', "error")
      BY <1>5, <1>6, <1>7, <2>1 DEF Printed
  <2>3. QED
      BY <1>1, <1>2, <1>6, <1>8, <2>2 DEF CliInv, CliOK
<1>9. CASE verdict # "error"
  <2>1. phase = "received" /\ result \in Success
        /\ LET call == EndpointOf(sent.service, sent.route).call
           IN  call = S!Functions[sent.fn].for \/ (sent.fn = "User" /\ call = "ListUsers")
      BY <1>1, <1>5, <1>9 DEF SdkInv, SdkOK
  <2>2. /\ result = "done" => o[1] = EndpointOf(sent.service, sent.route).call
        /\ result = "dropped" => /\ o[1] = "none"
                                 /\ EndpointOf(sent.service, sent.route).call \in ErrorsUnnoticed
        /\ o[2]
      BY <2>1 DEF Outcome, o, HandlerInv, HandlerOK
  <2>3. Done(calls, made', n + 1)
      BY <1>2, <1>6, <2>1, <2>2 DEF Done, Success
  <2>4. \A i \in 1..Len(made') : Done(calls, made', i)
      BY <1>5, <1>6, <1>7, <2>3
  <2>5. CASE n + 1 = Len(calls)
    <3>1. shown' = L!Commands[cmd].prints /\ shown' \notin {"none", "usage", "error"}
        BY <1>1, <1>3, <1>6, <1>9, <2>5 DEF CommandOK
    <3>2. Printed(calls, made', shown')
        BY <1>6, <2>4, <2>5, <3>1 DEF Printed
    <3>3. QED
        BY <1>1, <1>2, <1>6, <3>1, <3>2 DEF CliInv, CliOK
  <2>6. CASE n + 1 # Len(calls)
    <3>1. shown' = "none" /\ Len(made') < Len(calls)
        BY <1>1, <1>2, <1>5, <1>6, <1>9, <2>6
    <3>2. QED
        BY <1>1, <1>2, <1>6, <2>4, <3>1 DEF CliInv, CliOK
  <2>7. QED
      BY <2>5, <2>6
<1>10. QED
    BY <1>8, <1>9

(* Every step keeps the CLI's part.                                        *)
LEMMA CliNext == HandlerInv /\ SdkInv /\ CliInv /\ [Next]_vars => CliInv'
<1> SUFFICES ASSUME HandlerInv, SdkInv, CliInv, [Next]_vars PROVE CliInv'
    OBVIOUS
<1>1. ASSUME NEW q, cmd = "none", Send(q) PROVE CliInv'
    BY <1>1 DEF Send, cli, CliInv, CliOK
<1>2. ASSUME NEW c \in DOMAIN L!Commands, Run(c) PROVE CliInv'
  <2>1. CommandOK(c, L!Commands[c])
      BY CommandFacts
  <2>2. /\ phase' = "idle" /\ cmd' = c /\ made' = <<>>
        /\ shown' \in {"none", "usage", "error"}
      BY <1>2, <2>1 DEF Run, request, CommandOK
  <2>3. Len(made') = 0 /\ made' \in Seq(Operations \X BOOLEAN) /\ c # "none"
      BY <2>1, <2>2 DEF CommandOK
  <2>4. Printed(L!Commands[c].calls, made', "usage") /\ Printed(L!Commands[c].calls, made', "error")
      BY <2>2, <2>3 DEF Printed
  <2>5. QED
      BY <2>1, <2>2, <2>3, <2>4 DEF CliInv, CliOK, CommandOK
<1>3. CASE Call
  <2>1. PICK q \in SdkRequests(L!Commands[cmd].calls[Len(made) + 1]) : Send(q)
      BY <1>3 DEF Call
  <2>2. q.fn = L!Commands[cmd].calls[Len(made) + 1]
      BY <1>3, NextCall, SdkRequestsOK DEF Call
  <2>3. QED
      BY <1>3, <2>1, <2>2 DEF Call, Send, cli, CliInv, CliOK
<1>4. CASE CallReturns
    BY <1>4, CallReturnsCli
<1>5. CASE Exit
    BY <1>5 DEF Exit, CliInv, CliOK
<1>6. CASE \/ NotFound \/ Decode \/ Validate \/ Check \/ Then \/ Serve \/ ServeUnnoticed
           \/ Encode \/ Receive \/ LoseAnswer
    BY <1>6, StepKeepsCli
    DEF NotFound, Decode, Validate, Check, Then, Serve, ServeUnnoticed, Encode, Receive, LoseAnswer, Advance,
        Fail, Refuse
<1>7. CASE Identify
    BY <1>7, StepKeepsCli DEF Identify, Advance, Fail, Refuse
<1>8. CASE ServeFails
    BY <1>8, StepKeepsCli DEF ServeFails, Fail, Refuse
<1>9. CASE Return
    BY <1>9 DEF Return, cli, CliInv, CliOK
<1>10. CASE UNCHANGED vars
    BY <1>10 DEF vars, request, cli, CliInv, CliOK
<1>11. QED
    BY <1>1, <1>2, <1>3, <1>4, <1>5, <1>6, <1>7, <1>8, <1>9, <1>10 DEF Next

(***************************************************************************)
(* The messages of an error                                                *)
(***************************************************************************)
(* An error is not nil.                                                    *)
Error(e) == e # <<>> /\ \E D : e \in Seq(D)
(* An error of the package, one of whose layers has one of the messages.   *)
Says(e, msgs) == Error(e) /\ e[1] # Raw /\ \E m \in msgs : Contains(e, m)

(* Errors of one, two and three layers, and what they say.                 *)
LEMMA Errors ==
    /\ \A a : Error(<<a>>)
    /\ \A a, b : Error(<<a, b>>)
    /\ \A a, b, c : Error(<<a, b, c>>)
<1>1. \A a : <<a>> \in Seq({a}) /\ <<a>> # <<>>
    OBVIOUS
<1>2. \A a, b : <<a, b>> \in Seq({a, b}) /\ <<a, b>> # <<>>
    OBVIOUS
<1>3. \A a, b, c : <<a, b, c>> \in Seq({a, b, c}) /\ <<a, b, c>> # <<>>
    OBVIOUS
<1>4. QED
    BY <1>1, <1>2, <1>3 DEF Error

LEMMA SaysIt ==
    /\ \A a, msgs : a # Raw /\ a \in msgs => Says(<<a>>, msgs)
    /\ \A a, b, msgs : a # Raw /\ (a \in msgs \/ b \in msgs) => Says(<<a, b>>, msgs)
    /\ \A a, b, c, msgs : a # Raw /\ (a \in msgs \/ b \in msgs \/ c \in msgs)
           => Says(<<a, b, c>>, msgs)
<1>1. \A a : Contains(<<a>>, a)
    BY DEF Contains
<1>2. \A a, b : Contains(<<a, b>>, a) /\ Contains(<<a, b>>, b)
    BY DEF Contains
<1>3. \A a, b, c : Contains(<<a, b, c>>, a) /\ Contains(<<a, b, c>>, b) /\ Contains(<<a, b, c>>, c)
    BY DEF Contains
<1>4. QED
    BY <1>1, <1>2, <1>3, Errors DEF Says

(* Wrap keeps what an error says and says its layer.                       *)
LEMMA WrapLayer ==
    ASSUME NEW e, Error(e), NEW x, x # Raw
    PROVE  LET w == Wrap(<<x>>, e)
           IN  /\ Error(w) /\ w[1] = x /\ Contains(w, x)
               /\ \A m : m # Raw /\ Contains(e, m) => Contains(w, m)
<1> DEFINE rest == IF e[1] = Raw THEN Tail(e) ELSE e
           w == Wrap(<<x>>, e)
<1>1. PICK D0 : e \in Seq(D0) /\ e # <<>>
    BY DEF Error
<1> DEFINE D == D0 \cup {x}
<1>2. e \in Seq(D) /\ Len(e) \in Nat \ {0}
    BY <1>1
<1>3. <<x>> \in Seq(D) /\ rest \in Seq(D)
    BY <1>2
<1>4. w = <<x>> \o rest
    BY DEF Wrap
<1>5. \A m : m # Raw /\ Contains(e, m) => Contains(rest, m)
  <2> SUFFICES ASSUME NEW m, m # Raw, Contains(e, m) PROVE Contains(rest, m)
      OBVIOUS
  <2>1. PICK i \in 1..Len(e) : e[i] = m
      BY DEF Contains
  <2>2. CASE e[1] = Raw
    <3>1. i # 1 /\ i - 1 \in 1..Len(Tail(e)) /\ Tail(e)[i - 1] = e[i]
        BY <1>2, <2>1, <2>2
    <3>2. QED
        BY <2>1, <2>2, <3>1 DEF Contains
  <2>3. CASE e[1] # Raw
      BY <2>3
  <2>4. QED
      BY <2>2, <2>3
<1> HIDE DEF rest, D
<1>6. /\ w \in Seq(D) /\ Len(w) = Len(rest) + 1 /\ w[1] = x
      /\ \A i \in 1..Len(rest) : w[i + 1] = rest[i]
    <2> HIDE DEF w
    <2>1. QED
    BY <1>3, <1>4
<1>7. Len(rest) \in Nat
    BY <1>3
<1>8. w # <<>>
    <2> HIDE DEF w
    <2>1. QED
    BY <1>6, <1>7
<1>9. Error(w)
    BY <1>6, <1>8 DEF Error
<1>10. Contains(w, x)
    <2> HIDE DEF w
    <2>1. QED
    BY <1>6, <1>7 DEF Contains
<1>11. \A m : Contains(rest, m) => Contains(w, m)
  <2> SUFFICES ASSUME NEW m, Contains(rest, m) PROVE Contains(w, m)
      OBVIOUS
    <2> HIDE DEF w
  <2>1. PICK i \in 1..Len(rest) : rest[i] = m
      BY DEF Contains
  <2>2. i + 1 \in 1..Len(w) /\ w[i + 1] = m
      BY <1>6, <1>7, <2>1
  <2>3. QED
      BY <2>2 DEF Contains
<1>12. QED
    BY <1>5, <1>6, <1>9, <1>10, <1>11

LEMMA WrapNone == \A e : Wrap(<<>>, e) = e
    BY DEF Wrap

LEMMA WrapSays ==
    ASSUME NEW e, NEW x, x # Raw, NEW msgs, Raw \notin msgs
    PROVE  /\ Says(e, msgs) => Says(Wrap(<<x>>, e), msgs)
           /\ Error(e) /\ x \in msgs => Says(Wrap(<<x>>, e), msgs)
    BY WrapLayer DEF Says

(***************************************************************************)
(* The errors of decoders                                                  *)
(***************************************************************************)
(* One sequence of checks after another.                                   *)
LEMMA ReturnsBoth ==
    ASSUME NEW D, NEW a \in Seq(D), NEW b \in Seq(D), NEW E, Returns(a, E), Returns(b, E)
    PROVE  Returns(a \o b, E)
<1>1. \A i \in 1..Len(a \o b) : \/ i \in 1..Len(a) /\ (a \o b)[i] = a[i]
                                \/ \E j \in 1..Len(b) : (a \o b)[i] = b[j]
    OBVIOUS
<1>2. Len(a \o b) \in Nat
    OBVIOUS
<1>3. QED
    BY <1>1, <1>2 DEF Returns

(* What reading a JSON body returns, and a decoder that reads one.         *)
BodyErrors(layers) ==
    {Wrap(layers, <<Raw, "EOF">>), Wrap(layers, <<Raw, "unexpected_EOF">>),
     Wrap(layers, <<Raw, "invalid_JSON">>)}

LEMMA BodyReturns ==
    ASSUME NEW layers, NEW E, BodyErrors(layers) \subseteq E
    PROVE  /\ Returns(Json(layers), E)
           /\ \A m : <<m>> \in E => Returns(ContentType(m) \o Json(layers), E)
<1> DEFINE a == <<"empty_body", Wrap(layers, <<Raw, "EOF">>)>>
           b == <<"cut_body", Wrap(layers, <<Raw, "unexpected_EOF">>)>>
           c == <<"not_JSON", Wrap(layers, <<Raw, "invalid_JSON">>)>>
<1>1. Json(layers) = <<a, b, c>>
    BY DEF Json
<1>2. a[2] \in E /\ b[2] \in E /\ c[2] \in E
    BY DEF BodyErrors
<1> HIDE DEF a, b, c
<1>3. Returns(Json(layers), E)
    BY <1>1, <1>2, ReturnsThree
<1>4. ASSUME NEW m, <<m>> \in E PROVE Returns(ContentType(m) \o Json(layers), E)
  <2> DEFINE t == <<"content_type", <<m>>>>
  <2>1. ContentType(m) = <<t>> /\ t[2] \in E
      BY <1>4 DEF ContentType
  <2> HIDE DEF t
  <2>2. <<t>> \in Seq({t, a, b, c}) /\ <<a, b, c>> \in Seq({t, a, b, c})
      OBVIOUS
  <2>3. Returns(<<t>>, E)
      BY <2>1, ReturnsOne
  <2>4. QED
      BY <1>1, <1>3, <2>1, <2>2, <2>3, ReturnsBoth
<1>5. QED
    BY <1>3, <1>4

(***************************************************************************)
(* Refusals: a client's fault is answered as one, but for the messages a   *)
(* service has no case for.                                                *)
(***************************************************************************)
(* An error of a client's fault: it has a case in encodeError, or is       *)
(* listed as having none; a sequence of checks whose errors are all so.    *)
Classified(s, e) ==
    EncodeError(s, e) \in 400..499 \/ \E m \in Unclassified[s] : Contains(e, m)
Refused(s, checks, layers) ==
    Len(checks) \in Nat /\ \A i \in 1..Len(checks) : Classified(s, Wrap(layers, checks[i][2]))

(* The errors with which a caller is not let in; readers have refused a    *)
(* request without a key before.                                           *)
LoginErrors ==
    {<<"expired_API_key">>, <<"expired_key", "jwt">>, <<"unauthorized_access", "jwt">>,
     <<"unauthorized_access">>}
Denial(s, by, x) ==
    \/ by = "auth" /\ \E st : x = <<Raw, st>>
    \/ by = "things" /\ x \in {<<Raw, "NotFound">>, <<Raw, "Internal">>}
    \/ by = "things" /\ s # "readers" /\ x = <<Raw, "InvalidArgument">>
    \/ by = "login" /\ x \in LoginErrors
    \/ by = "Identify" /\ Error(x)
Denied(m, x) == IF m.keeps THEN Wrap(m.layers, x) ELSE m.layers

(* An endpoint, its request and its method classify what they refuse.      *)
RefusalOK(s, e, checks, m) ==
    /\ Refused(s, checks, e.invalid)
    /\ Refused(s, m.checks, e.failed)
    /\ Refused(s, m.then, e.failed)
    /\ \A f \in m.fails : f[1] = "denied" => e.masked \/ Classified(s, Wrap(e.failed, f[2]))
    /\ \A x : Denial(s, m.by, x) => e.masked \/ Classified(s, Wrap(e.failed, Denied(m, x)))
RefusalsOK(s, a) ==
    /\ \A d \in DOMAIN a.decoders : Refused(s, a.decoders[d], <<>>)
    /\ \A n \in DOMAIN a.endpoints :
          RefusalOK(s, a.endpoints[n], a.requests[a.endpoints[n].req],
                    a.service[a.endpoints[n].call])

(* Checks that return classified errors only, with no layer around them.   *)
LEMMA RefusedPlain ==
    ASSUME NEW s, NEW checks, NEW E, Returns(checks, E), \A e \in E : Classified(s, e)
    PROVE  Refused(s, checks, <<>>)
    BY WrapNone DEF Returns, Refused
LEMMA RefusedNone == \A s, layers : Refused(s, <<>>, layers)
    BY DEF Refused

(* A layer of an endpoint is none or one message.                          *)
Layer(l) == l = <<>> \/ \E x : x # Raw /\ l = <<x>>
LEMMA LayerSays ==
    ASSUME NEW l, Layer(l), NEW e, NEW msgs, Raw \notin msgs, Says(e, msgs)
    PROVE  Says(Wrap(l, e), msgs)
    BY WrapNone, WrapSays DEF Layer

(* What reading a body returns, in a layer.                                *)
LEMMA BodySays ==
    ASSUME NEW x, x # Raw, NEW msgs, Raw \notin msgs, x \in msgs
    PROVE  \A e \in BodyErrors(<<x>>) : Says(e, msgs)
    BY WrapSays, Errors DEF BodyErrors

(* A method that checks nothing, asks the auth service and puts its own    *)
(* error around the answer, or returns that alone.                         *)
AsksAuth(m) ==
    /\ m.checks = <<>> /\ m.then = <<>> /\ m.by = "auth" /\ m.layers = <<"credentials">>
    /\ \A f \in m.fails : f[1] # "denied"

(* Its refusal says so, and is classified, then.                           *)
LEMMA AuthDenies ==
    ASSUME NEW m, AsksAuth(m), NEW s, NEW x, Denial(s, m.by, x), NEW msgs,
           "credentials" \in msgs, Raw \notin msgs
    PROVE  Says(Denied(m, x), msgs)
<1>1. PICK st : x = <<Raw, st>>
    BY DEF Denial, AsksAuth
<1>2. Error(x) /\ "credentials" # Raw
    BY <1>1, Errors DEF Raw
<1>3. Says(Wrap(<<"credentials">>, x), msgs) /\ Says(<<"credentials">>, msgs)
    BY <1>2, WrapSays, SaysIt
<1>4. QED
    BY <1>3 DEF Denied, AsksAuth

LEMMA AskerRefuses ==
    ASSUME NEW s, NEW e, NEW checks, NEW m, Refused(s, checks, e.invalid), Layer(e.failed),
           AsksAuth(m), NEW msgs, "credentials" \in msgs, Raw \notin msgs,
           \A x : Says(x, msgs) => Classified(s, x)
    PROVE  RefusalOK(s, e, checks, m)
<1>1. \A x : Denial(s, m.by, x) => Classified(s, Wrap(e.failed, Denied(m, x)))
    BY AuthDenies, LayerSays
<1>2. Refused(s, m.checks, e.failed) /\ Refused(s, m.then, e.failed)
    BY RefusedNone DEF AsksAuth
<1>3. QED
    BY <1>1, <1>2 DEF RefusalOK, AsksAuth

(***************************************************************************)
(* The groups of the things and of the auth service                        *)
(***************************************************************************)
(* The bodies both read, and what the decoders of groups return.           *)
LEMMA ThingsBodies ==
    /\ \A m : T!ContentType(m) = ContentType(m) /\ T!G!ContentType(m) = ContentType(m)
    /\ \A l : T!Json(l) = Json(l) /\ T!G!Json(l) = Json(l)
<1>1. \A l, e : T!Wrap(l, e) = Wrap(l, e) /\ T!G!Wrap(l, e) = Wrap(l, e)
    BY DEF T!Wrap, T!G!Wrap, Wrap, T!Raw, T!G!Raw, Raw
<1>2. QED
    BY <1>1 DEF T!ContentType, T!G!ContentType, ContentType, T!Json, T!G!Json, Json, T!Raw,
       T!G!Raw, Raw

LEMMA GroupDecoders ==
    ASSUME NEW E, {<<"unsupported_content_type">>, <<"invalid_query">>} \subseteq E,
           BodyErrors(<<"failed_decode">>) \subseteq E
    PROVE  /\ \A d \in DOMAIN T!G!ListDecoders : Returns(T!G!ListDecoders[d], E)
           /\ \A d \in DOMAIN T!G!GroupDecoders : Returns(T!G!GroupDecoders[d], E)
<1> DEFINE body == T!G!ContentType("unsupported_content_type") \o T!G!Json(<<"failed_decode">>)
           query == <<"query", <<"invalid_query">>>>
           list == T!G!ContentType("unsupported_content_type") \o <<query>>
<1>1. Returns(body, E)
  <2>1. body = ContentType("unsupported_content_type") \o Json(<<"failed_decode">>)
      BY ThingsBodies
  <2>2. QED
      BY <2>1, BodyReturns
<1>2. Returns(list, E)
  <2> DEFINE t == <<"content_type", <<"unsupported_content_type">>>>
  <2>1. list = <<t>> \o <<query>>
      BY DEF T!G!ContentType
  <2>2. Returns(<<t>>, E) /\ Returns(<<query>>, E)
      BY ReturnsOne
  <2> HIDE DEF t, query, list
  <2>3. <<t>> \in Seq({t, query}) /\ <<query>> \in Seq({t, query})
      OBVIOUS
  <2>4. QED
      BY <2>1, <2>2, <2>3, ReturnsBoth
<1> HIDE DEF body, list
<1>3. \A d \in DOMAIN T!G!ListDecoders : T!G!ListDecoders[d] = list
    BY DEF T!G!ListDecoders, list
<1>4. \A d \in DOMAIN T!G!GroupDecoders : T!G!GroupDecoders[d] \in {<<>>, body}
    BY DEF T!G!GroupDecoders, body
<1>5. QED
    BY <1>1, <1>2, <1>3, <1>4, ReturnsNone

(* What the group requests of both services return; only updateGroupReq    *)
(* has an error of another kind.                                           *)
GroupErrors ==
    {<<"unauthorized_access">>, <<"malformed_entity">>, <<"malformed_entity", "bad_name">>,
     <<"malformed_entity", "missing_type">>}
LEMMA GroupRequests ==
    /\ \A q \in DOMAIN T!G!Requests :
           Returns(T!G!Requests[q], GroupErrors \cup {<<"parent_invariant">>})
    /\ \A q \in DOMAIN T!G!Requests \ {"updateGroupReq"} : Returns(T!G!Requests[q], GroupErrors)
<1> DEFINE b(f) == <<f, <<"malformed_entity">>>>
           c(f, m) == <<f, <<"malformed_entity", m>>>>
           d(f) == <<f, <<"parent_invariant">>>>
           n == T!G!NoToken
<1>1. n[2] \in GroupErrors
    BY DEF T!G!NoToken, GroupErrors
<1>2. /\ \A f : b(f)[2] \in GroupErrors
      /\ \A f, m : m \in {"bad_name", "missing_type"} => c(f, m)[2] \in GroupErrors
      /\ \A f : d(f)[2] = <<"parent_invariant">>
    BY DEF GroupErrors
<1>3. DOMAIN T!G!Requests = {"createGroupReq", "updateGroupReq", "listGroupsReq",
                             "listMemberGroupReq", "memberGroupReq", "groupReq"}
    BY DEF T!G!Requests
<1>4. /\ T!G!Requests.createGroupReq = <<n, c("name", "bad_name"), c("type", "missing_type")>>
      /\ T!G!Requests.updateGroupReq = <<n, b("id"), d("parent")>>
      /\ T!G!Requests.listGroupsReq = <<n, b("level")>>
      /\ T!G!Requests.listMemberGroupReq = <<n, b("ids")>>
      /\ T!G!Requests.memberGroupReq = <<n, b("ids")>>
      /\ T!G!Requests.groupReq = <<n, b("id")>>
    BY DEF T!G!Requests
<1> HIDE DEF b, c, d, n
<1>5. \A q \in DOMAIN T!G!Requests \ {"updateGroupReq"} : Returns(T!G!Requests[q], GroupErrors)
    BY <1>1, <1>2, <1>3, <1>4, ReturnsTwo, ReturnsThree
<1>6. Returns(T!G!Requests.updateGroupReq, GroupErrors \cup {<<"parent_invariant">>})
  <2> DEFINE E == GroupErrors \cup {<<"parent_invariant">>}
  <2>1. n[2] \in E /\ b("id")[2] \in E /\ d("parent")[2] \in E
      BY <1>1, <1>2
  <2> HIDE DEF E
  <2>2. Returns(T!G!Requests.updateGroupReq, E)
      BY <1>4, <2>1, ReturnsThree
  <2>3. QED
      BY <2>2 DEF E
<1>7. QED
    BY <1>5, <1>6 DEF Returns

(* A layer that is classified around whatever a request returns.           *)
LEMMA RefusedLayer ==
    ASSUME NEW s, NEW checks, NEW E, Returns(checks, E), \A e \in E : Error(e),
           NEW x, x # Raw, NEW msgs, Raw \notin msgs, x \in msgs,
           \A e : Says(e, msgs) => Classified(s, e)
    PROVE  Refused(s, checks, <<x>>)
    BY WrapSays DEF Returns, Refused

(* The endpoints of groups.                                                *)
GroupLayers(e) ==
    /\ \/ e.invalid = <<"malformed_entity">> /\ e.req \in DOMAIN T!G!Requests
       \/ e.invalid = <<>> /\ e.req \in {"createGroupReq", "listMemberGroupReq"}
    /\ e.failed \in {<<>>, <<"failed_to_create_group">>, <<"failed_to_fetch">>,
                     <<"failed_to_update">>, <<"failed_to_delete_group">>,
                     <<"failed_to_assign">>, <<"failed_to_unassign">>}
LEMMA GroupEndpointsLayers ==
    /\ \A n \in DOMAIN T!G!GroupEndpoints : GroupLayers(T!G!GroupEndpoints[n])
    /\ \A n \in DOMAIN T!G!MemberEndpoints : GroupLayers(T!G!MemberEndpoints[n])
<1>1. \A n \in DOMAIN T!G!GroupEndpoints : GroupLayers(T!G!GroupEndpoints[n])
    BY DEF T!G!GroupEndpoints, T!G!Wrapping, T!G!Endpoint, T!G!Requests, GroupLayers
<1>2. \A n \in DOMAIN T!G!MemberEndpoints : GroupLayers(T!G!MemberEndpoints[n])
    BY DEF T!G!MemberEndpoints, T!G!Wrapping, T!G!Endpoint, T!G!Requests, GroupLayers
<1>3. QED
    BY <1>1, <1>2

(* A failure of a group's endpoint has one layer at most.                  *)
LEMMA LayersOfGroups == \A e : GroupLayers(e) => Layer(e.failed)
    BY DEF GroupLayers, Layer, Raw

(* The auth service has the same.                                          *)
LEMMA SameGroups ==
    /\ A!G!Requests = T!G!Requests
    /\ A!G!GroupEndpoints = T!G!GroupEndpoints
    /\ A!G!MemberEndpoints = T!G!MemberEndpoints
    /\ A!G!ListDecoders = T!G!ListDecoders
    /\ A!G!GroupDecoders = T!G!GroupDecoders
<1>1. A!G!Requests = T!G!Requests
    BY DEF A!G!Requests, T!G!Requests, A!G!NoToken, T!G!NoToken
<1>2. A!G!GroupEndpoints = T!G!GroupEndpoints
    BY DEF A!G!GroupEndpoints, T!G!GroupEndpoints, A!G!Wrapping, T!G!Wrapping, A!G!Endpoint,
       T!G!Endpoint
<1>3. A!G!MemberEndpoints = T!G!MemberEndpoints
    BY DEF A!G!MemberEndpoints, T!G!MemberEndpoints, A!G!Wrapping, T!G!Wrapping, A!G!Endpoint,
       T!G!Endpoint
<1>4. A!G!ListDecoders = T!G!ListDecoders
    BY DEF A!G!ListDecoders, T!G!ListDecoders, A!G!ContentType, T!G!ContentType
<1>5. A!G!GroupDecoders = T!G!GroupDecoders
    BY DEF A!G!GroupDecoders, T!G!GroupDecoders, A!G!ContentType, T!G!ContentType, A!G!Json,
       T!G!Json,
       A!G!Wrap, T!G!Wrap, A!G!Raw, T!G!Raw
<1>6. QED
    BY <1>1, <1>2, <1>3, <1>4, <1>5

(***************************************************************************)
(* The refusals of the things service                                      *)
(***************************************************************************)
(* The messages that have a case.                                          *)
ThingsMessages ==
    {"credentials", "invalid_query", "unsupported_content_type", "malformed_specification",
     "malformed_entity", "unauthorized_access", "failed_decode"}

LEMMA ThingsClassified == \A e : Says(e, ThingsMessages) => Classified("things", e)
<1> SUFFICES ASSUME NEW e, Says(e, ThingsMessages) PROVE Classified("things", e)
    OBVIOUS
<1>1. PICK m \in ThingsMessages : Contains(e, m) /\ e[1] # Raw
    BY DEF Says
<1>2. CASE m \in {"malformed_entity", "unauthorized_access", "failed_decode"}
    BY <1>1, <1>2 DEF Classified, Unclassified
<1>3. CASE m \in {"credentials", "invalid_query", "unsupported_content_type",
                  "malformed_specification"}
  <2>1. \E i \in 1..9 : m \in T!ErrorCodes[i][1]
    <3>1. /\ T!ErrorCodes[1][1] = {"credentials", "check_connection"}
          /\ T!ErrorCodes[2][1] = {"invalid_query"}
          /\ T!ErrorCodes[3][1] = {"unsupported_content_type"}
          /\ T!ErrorCodes[4][1] = {"malformed_specification"}
        BY DEF T!ErrorCodes
    <3>2. QED
        BY <1>3, <3>1
  <2>2. T!EncodeError(e) \in 400..499
      BY <1>1, <2>1, ThingsCodes DEF Coded
  <2>3. QED
      BY <2>2 DEF Classified, EncodeError
<1>4. QED
    BY <1>1, <1>2, <1>3 DEF ThingsMessages

(* What its decoders return.                                               *)
LEMMA ThingsDecoders ==
    ASSUME NEW E, {<<"unsupported_content_type">>, <<"invalid_query">>} \subseteq E,
           BodyErrors(<<"malformed_specification">>) \subseteq E,
           BodyErrors(<<"failed_decode">>) \subseteq E
    PROVE  \A d \in DOMAIN T!Decoders : Returns(T!Decoders[d], E)
<1> DEFINE body == T!ContentType("unsupported_content_type") \o T!Json(<<"malformed_specification">>)
           query == <<"query", <<"invalid_query">>>>
<1>1. Returns(body, E)
  <2>1. body = ContentType("unsupported_content_type") \o Json(<<"malformed_specification">>)
      BY ThingsBodies
  <2>2. QED
      BY <2>1, BodyReturns
<1>2. Returns(<<query>>, E)
    BY ReturnsOne
<1> HIDE DEF body
<1>3. \A d \in DOMAIN T!BodyDecoders : T!BodyDecoders[d] = body
    BY DEF T!BodyDecoders, body
<1>4. \A d \in DOMAIN T!ReadDecoders : T!ReadDecoders[d] \in {<<>>, <<query>>}
    BY DEF T!ReadDecoders
<1> HIDE DEF query
<1>5. QED
    BY <1>1, <1>2, <1>3, <1>4, GroupDecoders, ReturnsNone DEF T!Decoders, T!@@

LEMMA ThingsDecodersRefuse == \A d \in DOMAIN T!Decoders : Refused("things", T!Decoders[d], <<>>)
<1> DEFINE E == {<<"unsupported_content_type">>, <<"invalid_query">>}
                \cup BodyErrors(<<"malformed_specification">>) \cup BodyErrors(<<"failed_decode">>)
<1>1. \A e \in E : Says(e, ThingsMessages)
  <2>1. /\ Says(<<"unsupported_content_type">>, ThingsMessages)
        /\ Says(<<"invalid_query">>, ThingsMessages)
      BY SaysIt DEF ThingsMessages, Raw
  <2>2. \A e \in BodyErrors(<<"malformed_specification">>) : Says(e, ThingsMessages)
      BY BodySays DEF ThingsMessages, Raw
  <2>3. \A e \in BodyErrors(<<"failed_decode">>) : Says(e, ThingsMessages)
      BY BodySays DEF ThingsMessages, Raw
  <2>4. QED
      BY <2>1, <2>2, <2>3
<1>2. \A d \in DOMAIN T!Decoders : Returns(T!Decoders[d], E)
    BY ThingsDecoders
<1> HIDE DEF E
<1>3. QED
    BY <1>1, <1>2, ThingsClassified, RefusedPlain

(* What its requests return, but for groups.                               *)
LEMMA ThingsRequests ==
    /\ \A q \in DOMAIN T!WriteRequests :
          Returns(T!WriteRequests[q], {<<"credentials">>, <<"malformed_specification">>})
    /\ \A q \in DOMAIN T!ReadRequests :
          Returns(T!ReadRequests[q], {<<"credentials">>, <<"malformed_specification">>})
<1> DEFINE E == {<<"credentials">>, <<"malformed_specification">>}
<1>1. T!NoToken[2] \in E /\ \A f : T!Bad(f)[2] \in E
    BY DEF T!NoToken, T!Bad
<1> SUFFICES /\ \A q \in DOMAIN T!WriteRequests : Returns(T!WriteRequests[q], E)
             /\ \A q \in DOMAIN T!ReadRequests : Returns(T!ReadRequests[q], E)
    OBVIOUS
<1> HIDE DEF E
<1>2. \A q \in DOMAIN T!WriteRequests : Returns(T!WriteRequests[q], E)
    BY <1>1, ReturnsTwo, ReturnsThree DEF T!WriteRequests
<1>3. \A q \in DOMAIN T!ReadRequests : Returns(T!ReadRequests[q], E)
    BY <1>1, ReturnsTwo, ReturnsThree, ReturnsFive DEF T!ReadRequests
<1>4. QED
    BY <1>2, <1>3

(* What its endpoints put around an error of a request.                    *)
LEMMA ThingsEndpointsRefuse ==
    \A n \in DOMAIN T!Endpoints :
        /\ Refused("things", T!Requests[T!Endpoints[n].req], T!Endpoints[n].invalid)
        /\ Layer(T!Endpoints[n].failed)
<1> DEFINE OK(e) == Refused("things", T!Requests[e.req], e.invalid) /\ Layer(e.failed)
<1>1. /\ DOMAIN T!WriteRequests \cap DOMAIN T!ReadRequests = {}
      /\ DOMAIN T!WriteRequests \cap DOMAIN T!G!Requests = {}
      /\ DOMAIN T!ReadRequests \cap DOMAIN T!G!Requests = {}
    BY DEF T!WriteRequests, T!ReadRequests, T!G!Requests
<1>2. /\ \A q \in DOMAIN T!WriteRequests : T!Requests[q] = T!WriteRequests[q]
      /\ \A q \in DOMAIN T!ReadRequests : T!Requests[q] = T!ReadRequests[q]
      /\ \A q \in DOMAIN T!G!Requests : T!Requests[q] = T!G!Requests[q]
    BY <1>1 DEF T!Requests, T!@@
<1>3. \A q \in DOMAIN T!WriteRequests \cup DOMAIN T!ReadRequests :
          Refused("things", T!Requests[q], <<>>)
  <2> DEFINE E == {<<"credentials">>, <<"malformed_specification">>}
  <2>1. \A e \in E : Classified("things", e)
      BY SaysIt, ThingsClassified DEF ThingsMessages, Raw
  <2>2. \A q \in DOMAIN T!WriteRequests \cup DOMAIN T!ReadRequests : Returns(T!Requests[q], E)
      BY <1>2, ThingsRequests
  <2> HIDE DEF E
  <2>3. QED
      BY <2>1, <2>2, RefusedPlain
<1>4. /\ Refused("things", T!Requests["createGroupReq"], <<>>)
      /\ Refused("things", T!Requests["listMemberGroupReq"], <<>>)
  <2>1. \A e \in GroupErrors : Classified("things", e)
      BY SaysIt, ThingsClassified DEF ThingsMessages, Raw, GroupErrors
  <2>2. {"createGroupReq", "listMemberGroupReq"} \subseteq DOMAIN T!G!Requests \ {"updateGroupReq"}
      BY DEF T!G!Requests
  <2>3. \A q \in {"createGroupReq", "listMemberGroupReq"} : Returns(T!Requests[q], GroupErrors)
      BY <1>2, <2>2, GroupRequests
  <2>4. QED
      BY <2>1, <2>3, RefusedPlain
<1>5. \A q \in DOMAIN T!G!Requests : Refused("things", T!Requests[q], <<"malformed_entity">>)
  <2> DEFINE E == GroupErrors \cup {<<"parent_invariant">>}
  <2>1. \A e \in E : Error(e)
      BY Errors DEF GroupErrors
  <2>2. \A q \in DOMAIN T!G!Requests : Returns(T!Requests[q], E)
      BY <1>2, GroupRequests
  <2>3. /\ "malformed_entity" # Raw /\ Raw \notin ThingsMessages
        /\ "malformed_entity" \in ThingsMessages
      BY DEF Raw, ThingsMessages
  <2> HIDE DEF E
  <2>4. QED
      BY <2>1, <2>2, <2>3, ThingsClassified, RefusedLayer
<1>6. Layer(<<>>) /\ \A x : x # Raw => Layer(<<x>>)
    BY DEF Layer
<1>7. \A e : e.req \in DOMAIN T!WriteRequests \cup DOMAIN T!ReadRequests /\ e.invalid = <<>>
                 /\ e.failed = <<>> => OK(e)
    BY <1>3, <1>6
<1>8. \A n \in DOMAIN T!ThingEndpoints : OK(T!ThingEndpoints[n])
  <2>1. \A n \in DOMAIN T!ThingEndpoints :
            /\ T!ThingEndpoints[n].req \in DOMAIN T!WriteRequests \cup DOMAIN T!ReadRequests
            /\ T!ThingEndpoints[n].invalid = <<>> /\ T!ThingEndpoints[n].failed = <<>>
      BY DEF T!ThingEndpoints, T!Endpoint, T!Wrapping, T!WriteRequests, T!ReadRequests
  <2>2. QED
      BY <1>7, <2>1
<1>9. \A n \in DOMAIN T!ThingListEndpoints : OK(T!ThingListEndpoints[n])
  <2>1. \A n \in DOMAIN T!ThingListEndpoints :
            /\ T!ThingListEndpoints[n].req \in DOMAIN T!WriteRequests \cup DOMAIN T!ReadRequests
            /\ T!ThingListEndpoints[n].invalid = <<>> /\ T!ThingListEndpoints[n].failed = <<>>
      BY DEF T!ThingListEndpoints, T!Endpoint, T!Wrapping, T!WriteRequests, T!ReadRequests
  <2>2. QED
      BY <1>7, <2>1
<1>10. \A n \in DOMAIN T!ChannelEndpoints : OK(T!ChannelEndpoints[n])
  <2>1. \A n \in DOMAIN T!ChannelEndpoints :
            /\ T!ChannelEndpoints[n].req \in DOMAIN T!WriteRequests \cup DOMAIN T!ReadRequests
            /\ T!ChannelEndpoints[n].invalid = <<>> /\ T!ChannelEndpoints[n].failed = <<>>
      BY DEF T!ChannelEndpoints, T!Endpoint, T!Wrapping, T!WriteRequests, T!ReadRequests
  <2>2. QED
      BY <1>7, <2>1
<1>11. \A n \in DOMAIN T!ConnectionEndpoints : OK(T!ConnectionEndpoints[n])
  <2>1. \A n \in DOMAIN T!ConnectionEndpoints :
            /\ T!ConnectionEndpoints[n].req \in DOMAIN T!WriteRequests \cup DOMAIN T!ReadRequests
            /\ T!ConnectionEndpoints[n].invalid = <<>> /\ T!ConnectionEndpoints[n].failed = <<>>
      BY DEF T!ConnectionEndpoints, T!Endpoint, T!Wrapping, T!WriteRequests, T!ReadRequests
  <2>2. QED
      BY <1>7, <2>1
<1>12. \A e : GroupLayers(e) => OK(e)
    BY <1>4, <1>5, LayersOfGroups DEF GroupLayers
<1>13. /\ \A n \in DOMAIN T!G!GroupEndpoints : OK(T!G!GroupEndpoints[n])
       /\ \A n \in DOMAIN T!G!MemberEndpoints : OK(T!G!MemberEndpoints[n])
    BY <1>12, GroupEndpointsLayers
<1> HIDE DEF OK
<1>14. \A n \in DOMAIN T!Endpoints : OK(T!Endpoints[n])
    BY <1>8, <1>9, <1>10, <1>11, <1>13 DEF T!Endpoints, T!@@
<1>15. QED
    BY <1>14 DEF OK

(* All its refusals.                                                       *)
LEMMA ThingsRefusals == RefusalsOK("things", Apis.things)
<1>1. \A c \in DOMAIN T!Service : AsksAuth(T!Service[c])
  <2> USE DEF AsksAuth, T!Method, T!Unchecked, T!Identified, T!Malformed, T!Missing, T!Conflict, T!Failure
  <2>1. \A c \in DOMAIN T!ThingMethods : AsksAuth(T!ThingMethods[c])
      BY DEF T!ThingMethods
  <2>2. \A c \in DOMAIN T!ChannelMethods : AsksAuth(T!ChannelMethods[c])
      BY DEF T!ChannelMethods
  <2>3. \A c \in DOMAIN T!GroupMethods : AsksAuth(T!GroupMethods[c])
      BY DEF T!GroupMethods, T!Raw
  <2>4. \A c \in DOMAIN T!MemberMethods : AsksAuth(T!MemberMethods[c])
      BY DEF T!MemberMethods
  <2> HIDE DEF AsksAuth
  <2>5. QED
      BY <2>1, <2>2, <2>3, <2>4 DEF T!Service, T!@@
<1>2. "credentials" \in ThingsMessages /\ Raw \notin ThingsMessages
    BY DEF ThingsMessages, Raw
<1>3. \A n \in DOMAIN T!Endpoints :
          RefusalOK("things", T!Endpoints[n], T!Requests[T!Endpoints[n].req],
                    T!Service[T!Endpoints[n].call])
  <2> SUFFICES ASSUME NEW n \in DOMAIN T!Endpoints
               PROVE  RefusalOK("things", T!Endpoints[n], T!Requests[T!Endpoints[n].req],
                                T!Service[T!Endpoints[n].call])
      OBVIOUS
  <2>1. AsksAuth(T!Service[T!Endpoints[n].call])
      BY <1>1, ThingsEndpoints DEF EndpointOK
  <2>2. QED
      BY <1>2, <2>1, ThingsEndpointsRefuse, ThingsClassified, AskerRefuses
<1>4. Apis.things = Of(T!Routes, T!Decoders, T!Requests, T!Endpoints, T!Responses, T!Service)
    BY DEF Apis
<1>5. QED
    BY <1>3, <1>4, ThingsDecodersRefuse DEF Of, RefusalsOK

(***************************************************************************)
(* The refusals of the users service                                       *)
(***************************************************************************)
(* The messages that have a case, but for those listed.                    *)
UsersMessages ==
    {"credentials", "malformed_specification", "unsupported_content_type", "failed_decode",
     "invalid_query", "missing_reset_token"}

LEMMA UsersClassified ==
    /\ \A e : Says(e, UsersMessages) => Classified("users", e)
    /\ \A st : Classified("users", <<Raw, st>>)
<1>1. ASSUME NEW e, Says(e, UsersMessages) PROVE Classified("users", e)
  <2>1. PICK m \in UsersMessages : Contains(e, m) /\ e[1] # Raw
      BY <1>1 DEF Says
  <2>2. CASE m \in {"invalid_query", "missing_reset_token"}
      BY <2>1, <2>2 DEF Classified, Unclassified
  <2>3. CASE m \in {"credentials", "malformed_specification", "unsupported_content_type",
                    "failed_decode"}
    <3>1. /\ U!ErrorCodes[1][1] = {"malformed_specification"}
          /\ U!ErrorCodes[2][1] = {"credentials"}
          /\ U!ErrorCodes[5][1] = {"unsupported_content_type"}
          /\ U!ErrorCodes[6][1] = {"failed_decode"}
        BY DEF U!ErrorCodes
    <3>2. \E i \in 1..10 : m \in U!ErrorCodes[i][1]
        BY <2>3, <3>1
    <3>3. U!EncodeError(e) \in 400..499
        BY <2>1, <3>2, UsersCodes DEF Coded
    <3>4. QED
        BY <3>3 DEF Classified, EncodeError
  <2>4. QED
      BY <2>1, <2>2, <2>3 DEF UsersMessages
<1>2. ASSUME NEW st PROVE Classified("users", <<Raw, st>>)
  <2>1. Raw \in Unclassified["users"]
      BY DEF Unclassified
  <2>2. Contains(<<Raw, st>>, Raw)
      BY DEF Contains
  <2>3. QED
      BY <2>1, <2>2 DEF Classified
<1>3. QED
    BY <1>1, <1>2

LEMMA UsersBodies ==
    /\ \A m : U!ContentType(m) = ContentType(m)
    /\ \A l : U!Json(l) = Json(l)
<1>1. \A l, e : U!Wrap(l, e) = Wrap(l, e)
    BY DEF U!Wrap, Wrap, U!Raw, Raw
<1>2. QED
    BY <1>1 DEF U!ContentType, ContentType, U!Json, Json, U!Raw, Raw

(* What its decoders and its requests return.                              *)
LEMMA UsersDecodersRefuse == \A d \in DOMAIN U!Decoders : Refused("users", U!Decoders[d], <<>>)
<1> DEFINE E == {<<"unsupported_content_type">>, <<"invalid_query">>}
                \cup BodyErrors(<<"malformed_specification">>) \cup BodyErrors(<<"failed_decode">>)
           json == U!Json(<<"malformed_specification">>)
           body == U!ContentType("unsupported_content_type") \o U!Json(<<"malformed_specification">>)
           pbody == U!ContentType("unsupported_content_type") \o U!Json(<<"failed_decode">>)
           query == <<"query", <<"invalid_query">>>>
<1>1. \A e \in E : Classified("users", e)
  <2>1. /\ Says(<<"unsupported_content_type">>, UsersMessages)
        /\ Says(<<"invalid_query">>, UsersMessages)
      BY SaysIt DEF UsersMessages, Raw
  <2>2. \A e \in BodyErrors(<<"malformed_specification">>) : Says(e, UsersMessages)
      BY BodySays DEF UsersMessages, Raw
  <2>3. \A e \in BodyErrors(<<"failed_decode">>) : Says(e, UsersMessages)
      BY BodySays DEF UsersMessages, Raw
  <2>4. QED
      BY <2>1, <2>2, <2>3, UsersClassified
<1>2. /\ json = Json(<<"malformed_specification">>)
      /\ body = ContentType("unsupported_content_type") \o Json(<<"malformed_specification">>)
      /\ pbody = ContentType("unsupported_content_type") \o Json(<<"failed_decode">>)
    BY UsersBodies
<1>3. query[2] \in E /\ <<"unsupported_content_type">> \in E
    OBVIOUS
<1>4. /\ BodyErrors(<<"malformed_specification">>) \subseteq E
      /\ BodyErrors(<<"failed_decode">>) \subseteq E
    OBVIOUS
<1> HIDE DEF E, json, body, pbody
<1>5. Returns(json, E) /\ Returns(body, E) /\ Returns(pbody, E)
    BY <1>2, <1>3, <1>4, BodyReturns
<1> DEFINE lists == {<<>>, <<query>>, json, body, pbody}
<1>6. \A d \in DOMAIN U!UserDecoders : U!UserDecoders[d] \in lists
  <2> DEFINE none == {"decodeViewUser", "decodeViewProfile"}
             reset == {"decodePasswordResetRequest", "decodePasswordReset",
                       "decodePasswordChange"}
  <2>1. DOMAIN U!UserDecoders = none \cup reset
            \cup {"decodeListUsers", "decodeUpdateUser", "decodeCredentials"}
      BY DEF U!UserDecoders
  <2>2. /\ \A d \in none : U!UserDecoders[d] = <<>>
        /\ U!UserDecoders.decodeListUsers = <<query>>
      BY DEF U!UserDecoders
  <2>3. /\ U!UserDecoders.decodeUpdateUser = json
        /\ U!UserDecoders.decodeCredentials = body
      BY DEF U!UserDecoders, json, body
  <2>4. \A d \in reset : U!UserDecoders[d] = pbody
      BY DEF U!UserDecoders, pbody
  <2> HIDE DEF none, reset
  <2>5. QED
      BY <2>1, <2>2, <2>3, <2>4
<1>7. \A d \in DOMAIN U!GroupDecoders : U!GroupDecoders[d] \in lists
    BY DEF U!GroupDecoders, body
<1> HIDE DEF query
<1>8. \A d \in DOMAIN U!Decoders : Returns(U!Decoders[d], E)
  <2>1. \A l \in lists : Returns(l, E)
      BY <1>3, <1>5, ReturnsNone, ReturnsOne
  <2> HIDE DEF lists
  <2>2. \A d \in DOMAIN U!Decoders : U!Decoders[d] \in lists
      BY <1>6, <1>7 DEF U!Decoders, U!@@
  <2>3. QED
      BY <2>1, <2>2
<1>9. QED
    BY <1>1, <1>8, RefusedPlain

LEMMA UsersRequestsRefuse == \A q \in DOMAIN U!Requests : Refused("users", U!Requests[q], <<>>)
<1> DEFINE E == {<<"credentials">>, <<"malformed_specification">>, <<"missing_reset_token">>}
           reset == <<"token", <<"missing_reset_token">>>>
           old == <<"old_password", <<"credentials">>>>
<1>1. \A e \in E : Classified("users", e)
    BY SaysIt, UsersClassified DEF UsersMessages, Raw
<1>2. U!NoToken[2] \in E /\ (\A f : U!Bad(f)[2] \in E) /\ reset[2] \in E /\ old[2] \in E
    BY DEF U!NoToken, U!Bad
<1> HIDE DEF E
<1>3. DOMAIN U!UserRequests = {"userReq", "viewUserReq", "listUsersReq", "updateUserReq",
                               "passwResetReq",
                               "resetTokenReq", "passwChangeReq"}
    BY DEF U!UserRequests
<1>4. /\ U!UserRequests.userReq = <<U!Bad("email"), U!Bad("password")>>
      /\ U!UserRequests.viewUserReq = <<U!NoToken>>
      /\ U!UserRequests.listUsersReq = <<U!NoToken>>
      /\ U!UserRequests.updateUserReq = <<U!NoToken>>
      /\ U!UserRequests.passwResetReq = <<U!Bad("email"), U!Bad("host")>>
      /\ U!UserRequests.resetTokenReq = <<U!Bad("password"), reset, U!Bad("confirmation")>>
      /\ U!UserRequests.passwChangeReq = <<U!NoToken, U!Bad("password"), old>>
    BY DEF U!UserRequests
<1> HIDE DEF reset, old
<1>5. \A q \in DOMAIN U!UserRequests : Returns(U!UserRequests[q], E)
  <2>1. Returns(<<U!NoToken>>, E)
      BY <1>2, ReturnsOne
  <2>2. \A f, g : Returns(<<U!Bad(f), U!Bad(g)>>, E)
      BY <1>2, ReturnsTwo
  <2>3. /\ \A f, g : Returns(<<U!Bad(f), reset, U!Bad(g)>>, E)
        /\ \A f : Returns(<<U!NoToken, U!Bad(f), old>>, E)
      BY <1>2, ReturnsThree
  <2>4. QED
      BY <1>3, <1>4, <2>1, <2>2, <2>3
<1>6. \A q \in DOMAIN U!GroupRequests : Returns(U!GroupRequests[q], E)
    BY <1>2, ReturnsOne, ReturnsTwo, ReturnsThree DEF U!GroupRequests
<1>7. \A q \in DOMAIN U!Requests : Returns(U!Requests[q], E)
    BY <1>5, <1>6 DEF U!Requests, U!@@
<1>8. QED
    BY <1>1, <1>7, RefusedPlain

(* What its methods check, and how they refuse a caller.                   *)
UsersMethod(m) ==
    /\ m.checks \in {<<>>, <<U!Bad("name_letters")>>} /\ m.then = <<>>
    /\ \A f \in m.fails :
          f[1] = "denied" => f[2] \in {<<"credentials">>, <<"credentials", "compare_failed">>,
                                       <<"credentials", "non-existent_entity", "db">>}
    /\ \/ m.by = "none"
       \/ /\ m.by = "auth" /\ m.keeps
          /\ m.layers \in {<<>>, <<"credentials">>, <<"credentials", "credentials">>}

LEMMA UsersAsk == \A c \in DOMAIN U!Service : UsersMethod(U!Service[c])
<1> USE DEF UsersMethod, U!Method, U!Unchecked, U!Open, U!Identified, U!Wrapped, U!Malformed, U!Missing,
            U!NoUser, U!Failure
<1>1. \A c \in DOMAIN U!UserMethods : UsersMethod(U!UserMethods[c])
    BY DEF U!UserMethods
<1>2. \A c \in DOMAIN U!PasswordMethods : UsersMethod(U!PasswordMethods[c])
    BY SMTT(40) DEF U!PasswordMethods
<1>3. \A c \in DOMAIN U!GroupMethods : UsersMethod(U!GroupMethods[c])
    BY DEF U!GroupMethods
<1> HIDE DEF UsersMethod
<1>4. QED
    BY <1>1, <1>2, <1>3 DEF U!Service, U!@@

(* Two layers around the status of the auth service.                       *)
LEMMA WrapTwo == \A x, y, st : x # Raw => Says(Wrap(<<x, y>>, <<Raw, st>>), {x})
<1> SUFFICES ASSUME NEW x, NEW y, NEW st, x # Raw PROVE Says(Wrap(<<x, y>>, <<Raw, st>>), {x})
    OBVIOUS
<1> DEFINE w == <<x, y>> \o <<st>>
<1>1. Wrap(<<x, y>>, <<Raw, st>>) = w
    BY DEF Wrap
<1>2. <<x, y>> \in Seq({x, y, st}) /\ <<st>> \in Seq({x, y, st})
    OBVIOUS
<1>3. w \in Seq({x, y, st}) /\ Len(w) = 3 /\ w[1] = x
    BY <1>2
<1> HIDE DEF w
<1>4. w # <<>> /\ Contains(w, x)
    BY <1>3 DEF Contains
<1>5. QED
    BY <1>1, <1>3, <1>4 DEF Says, Error

(* All its refusals.                                                       *)
LEMMA UsersRefusals == RefusalsOK("users", Apis.users)
<1>1. \A n \in DOMAIN U!Endpoints : U!Endpoints[n].invalid = <<>> /\ U!Endpoints[n].failed = <<>>
  <2> DEFINE OK(e) == e.invalid = <<>> /\ e.failed = <<>>
  <2> USE DEF U!Endpoint, U!Wrapping
  <2>1. \A n \in DOMAIN U!UserEndpoints : OK(U!UserEndpoints[n])
      BY DEF U!UserEndpoints
  <2>2. \A n \in DOMAIN U!GroupEndpoints : OK(U!GroupEndpoints[n])
      BY DEF U!GroupEndpoints
  <2>3. \A n \in DOMAIN U!GroupViewEndpoints : OK(U!GroupViewEndpoints[n])
      BY DEF U!GroupViewEndpoints
  <2> HIDE DEF OK
  <2>4. \A n \in DOMAIN U!Endpoints : OK(U!Endpoints[n])
      BY <2>1, <2>2, <2>3 DEF U!Endpoints, U!@@
  <2>5. QED
      BY <2>4 DEF OK
<1>2. \A m : UsersMethod(m) =>
          /\ Refused("users", m.checks, <<>>) /\ Refused("users", m.then, <<>>)
          /\ \A f \in m.fails : f[1] = "denied" => Classified("users", f[2])
          /\ \A x : Denial("users", m.by, x) => Classified("users", Denied(m, x))
  <2> SUFFICES ASSUME NEW m, UsersMethod(m)
               PROVE  /\ Refused("users", m.checks, <<>>) /\ Refused("users", m.then, <<>>)
                      /\ \A f \in m.fails : f[1] = "denied" => Classified("users", f[2])
                      /\ \A x : Denial("users", m.by, x) => Classified("users", Denied(m, x))
      OBVIOUS
  <2>1. Refused("users", <<U!Bad("name_letters")>>, <<>>)
    <3>1. U!Bad("name_letters")[2] \in {<<"malformed_specification">>}
        BY DEF U!Bad
    <3>2. Returns(<<U!Bad("name_letters")>>, {<<"malformed_specification">>})
        BY <3>1, ReturnsOne
    <3>3. Classified("users", <<"malformed_specification">>)
        BY SaysIt, UsersClassified DEF UsersMessages, Raw
    <3>4. QED
        BY <3>2, <3>3, RefusedPlain
  <2>2. Refused("users", m.checks, <<>>) /\ Refused("users", m.then, <<>>)
      BY <2>1, RefusedNone DEF UsersMethod
  <2>3. \A f \in m.fails : f[1] = "denied" => Classified("users", f[2])
    <3>1. /\ Says(<<"credentials">>, UsersMessages)
          /\ Says(<<"credentials", "compare_failed">>, UsersMessages)
          /\ Says(<<"credentials", "non-existent_entity", "db">>, UsersMessages)
        BY SaysIt DEF UsersMessages, Raw
    <3>2. QED
        BY <3>1, UsersClassified DEF UsersMethod
  <2>4. ASSUME NEW x, Denial("users", m.by, x) PROVE Classified("users", Denied(m, x))
    <3>1. PICK st : x = <<Raw, st>>
        BY <2>4 DEF Denial, UsersMethod
    <3>2. m.keeps /\ Denied(m, x) = Wrap(m.layers, x)
        BY <2>4 DEF Denial, UsersMethod, Denied
    <3>3. CASE m.layers = <<>>
        BY <3>1, <3>2, <3>3, WrapNone, UsersClassified
    <3>4. CASE m.layers = <<"credentials">>
      <4>1. Error(x) /\ "credentials" # Raw /\ Raw \notin UsersMessages /\ "credentials" \in UsersMessages
          BY <3>1, Errors DEF Raw, UsersMessages
      <4>2. Says(Wrap(<<"credentials">>, x), UsersMessages)
          BY <4>1, WrapSays
      <4>3. QED
          BY <3>2, <3>4, <4>2, UsersClassified
    <3>5. CASE m.layers = <<"credentials", "credentials">>
      <4>1. "credentials" # Raw /\ "credentials" \in UsersMessages
          BY DEF Raw, UsersMessages
      <4>2. Says(Wrap(<<"credentials", "credentials">>, x), {"credentials"})
          BY <3>1, <4>1, WrapTwo
      <4>3. Says(Wrap(<<"credentials", "credentials">>, x), UsersMessages)
          BY <4>1, <4>2 DEF Says
      <4>4. QED
          BY <3>2, <3>5, <4>3, UsersClassified
    <3>6. QED
        BY <2>4, <3>3, <3>4, <3>5 DEF UsersMethod, Denial
  <2>5. QED
      BY <2>2, <2>3, <2>4
<1>3. \A n \in DOMAIN U!Endpoints :
          RefusalOK("users", U!Endpoints[n], U!Requests[U!Endpoints[n].req],
                    U!Service[U!Endpoints[n].call])
  <2> SUFFICES ASSUME NEW n \in DOMAIN U!Endpoints
               PROVE  RefusalOK("users", U!Endpoints[n], U!Requests[U!Endpoints[n].req],
                                U!Service[U!Endpoints[n].call])
      OBVIOUS
  <2>1. UsersMethod(U!Service[U!Endpoints[n].call]) /\ U!Endpoints[n].req \in DOMAIN U!Requests
      BY UsersAsk, UsersEndpoints DEF EndpointOK
  <2>2. QED
      BY <1>1, <1>2, <2>1, UsersRequestsRefuse, WrapNone DEF RefusalOK
<1>4. Apis.users = Of(U!Routes, U!Decoders, U!Requests, U!Endpoints, U!Responses, U!Service)
    BY DEF Apis
<1>5. QED
    BY <1>3, <1>4, UsersDecodersRefuse DEF Of, RefusalsOK

(***************************************************************************)
(* The refusals of the auth service                                        *)
(***************************************************************************)
(* The messages that have a case.                                          *)
AuthMessages ==
    {"malformed_specification", "unauthorized_access", "unsupported_content_type",
     "malformed_entity", "failed_decode", "invalid_query", "expired_key", "expired_API_key"}

LEMMA AuthClassified == \A e : Says(e, AuthMessages) => Classified("auth", e)
<1> SUFFICES ASSUME NEW e, Says(e, AuthMessages) PROVE Classified("auth", e)
    OBVIOUS
<1>1. PICK m \in AuthMessages : Contains(e, m)
    BY DEF Says
<1>2. CASE m \in {"malformed_entity", "failed_decode", "invalid_query", "expired_key",
                  "expired_API_key"}
    BY <1>1, <1>2 DEF Classified, Unclassified
<1>3. CASE m \in {"malformed_specification", "unauthorized_access", "unsupported_content_type"}
  <2>1. /\ A!ErrorCodes[1][1] = {"malformed_specification"}
        /\ A!ErrorCodes[2][1] = {"unauthorized_access"}
        /\ A!ErrorCodes[7][1] = {"unsupported_content_type"}
      BY DEF A!ErrorCodes
  <2>2. \E i \in 1..7 : m \in A!ErrorCodes[i][1]
      BY <1>3, <2>1
  <2>3. A!EncodeError(e) \in 400..499
      BY <1>1, <2>2, AuthCodes DEF Coded
  <2>4. QED
      BY <2>3 DEF Classified, EncodeError
<1>4. QED
    BY <1>1, <1>2, <1>3 DEF AuthMessages

(* What its decoders return, and its endpoints around an error of a        *)
(* request.                                                                *)
LEMMA AuthDecodersRefuse == \A d \in DOMAIN A!Decoders : Refused("auth", A!Decoders[d], <<>>)
<1> DEFINE E == {<<"unsupported_content_type">>, <<"invalid_query">>}
                \cup BodyErrors(<<"malformed_specification">>) \cup BodyErrors(<<"failed_decode">>)
           body == A!ContentType("unsupported_content_type") \o A!Json(<<"malformed_specification">>)
<1>1. \A e \in E : Says(e, AuthMessages)
  <2>1. /\ Says(<<"unsupported_content_type">>, AuthMessages)
        /\ Says(<<"invalid_query">>, AuthMessages)
      BY SaysIt DEF AuthMessages, Raw
  <2>2. \A e \in BodyErrors(<<"malformed_specification">>) : Says(e, AuthMessages)
      BY BodySays DEF AuthMessages, Raw
  <2>3. \A e \in BodyErrors(<<"failed_decode">>) : Says(e, AuthMessages)
      BY BodySays DEF AuthMessages, Raw
  <2>4. QED
      BY <2>1, <2>2, <2>3
<1>2. body = ContentType("unsupported_content_type") \o Json(<<"malformed_specification">>)
  <2>1. \A l, e : A!Wrap(l, e) = Wrap(l, e)
      BY DEF A!Wrap, Wrap, A!Raw, Raw
  <2>2. QED
      BY <2>1 DEF A!ContentType, ContentType, A!Json, Json, A!Raw, Raw
<1>3. {<<"unsupported_content_type">>, <<"invalid_query">>} \subseteq E
    OBVIOUS
<1>4. /\ BodyErrors(<<"malformed_specification">>) \subseteq E
      /\ BodyErrors(<<"failed_decode">>) \subseteq E
    OBVIOUS
<1> HIDE DEF E, body
<1>5. Returns(body, E)
    BY <1>2, <1>3, <1>4, BodyReturns
<1>6. \A d \in DOMAIN A!KeyDecoders : A!KeyDecoders[d] \in {<<>>, body}
    BY DEF A!KeyDecoders, body
<1>7. /\ \A d \in DOMAIN A!G!ListDecoders : Returns(A!G!ListDecoders[d], E)
      /\ \A d \in DOMAIN A!G!GroupDecoders : Returns(A!G!GroupDecoders[d], E)
    BY <1>3, <1>4, GroupDecoders, SameGroups
<1>8. \A d \in DOMAIN A!Decoders : Returns(A!Decoders[d], E)
    BY <1>5, <1>6, <1>7, ReturnsNone DEF A!Decoders, A!@@
<1>9. QED
    BY <1>1, <1>8, AuthClassified, RefusedPlain

LEMMA AuthEndpointsRefuse ==
    \A n \in DOMAIN A!Endpoints :
        /\ Refused("auth", A!Requests[A!Endpoints[n].req], A!Endpoints[n].invalid)
        /\ Layer(A!Endpoints[n].failed)
<1> DEFINE OK(e) == Refused("auth", A!Requests[e.req], e.invalid) /\ Layer(e.failed)
<1>1. DOMAIN A!KeyRequests \cap DOMAIN A!G!Requests = {}
    BY DEF A!KeyRequests, A!G!Requests
<1>2. /\ \A q \in DOMAIN A!KeyRequests : A!Requests[q] = A!KeyRequests[q]
      /\ \A q \in DOMAIN T!G!Requests : A!Requests[q] = T!G!Requests[q]
    BY <1>1, SameGroups DEF A!Requests, A!@@
<1>3. \A q \in DOMAIN A!KeyRequests : Refused("auth", A!Requests[q], <<>>)
  <2> DEFINE E == {<<"malformed_specification">>}
  <2>1. \A e \in E : Classified("auth", e)
      BY SaysIt, AuthClassified DEF AuthMessages, Raw
  <2>2. \A f : A!Bad(f)[2] \in E
      BY DEF A!Bad
  <2> HIDE DEF E
  <2>3. \A q \in DOMAIN A!KeyRequests : Returns(A!KeyRequests[q], E)
      BY <2>2, ReturnsNone, ReturnsTwo DEF A!KeyRequests
  <2>4. QED
      BY <1>2, <2>1, <2>3, RefusedPlain
<1>4. /\ Refused("auth", A!Requests["createGroupReq"], <<>>)
      /\ Refused("auth", A!Requests["listMemberGroupReq"], <<>>)
  <2>1. \A e \in GroupErrors : Classified("auth", e)
      BY SaysIt, AuthClassified DEF AuthMessages, Raw, GroupErrors
  <2>2. {"createGroupReq", "listMemberGroupReq"} \subseteq DOMAIN T!G!Requests \ {"updateGroupReq"}
      BY DEF T!G!Requests
  <2>3. \A q \in {"createGroupReq", "listMemberGroupReq"} : Returns(A!Requests[q], GroupErrors)
      BY <1>2, <2>2, GroupRequests
  <2>4. QED
      BY <2>1, <2>3, RefusedPlain
<1>5. \A q \in DOMAIN T!G!Requests : Refused("auth", A!Requests[q], <<"malformed_entity">>)
  <2> DEFINE E == GroupErrors \cup {<<"parent_invariant">>}
  <2>1. \A e \in E : Error(e)
      BY Errors DEF GroupErrors
  <2>2. \A q \in DOMAIN T!G!Requests : Returns(A!Requests[q], E)
      BY <1>2, GroupRequests
  <2>3. "malformed_entity" # Raw /\ Raw \notin AuthMessages /\ "malformed_entity" \in AuthMessages
      BY DEF Raw, AuthMessages
  <2> HIDE DEF E
  <2>4. QED
      BY <2>1, <2>2, <2>3, AuthClassified, RefusedLayer
<1>6. \A n \in DOMAIN A!KeyEndpoints : OK(A!KeyEndpoints[n])
  <2>1. \A n \in DOMAIN A!KeyEndpoints :
            /\ A!KeyEndpoints[n].req \in DOMAIN A!KeyRequests
            /\ A!KeyEndpoints[n].invalid = <<>> /\ A!KeyEndpoints[n].failed = <<>>
      BY DEF A!KeyEndpoints, A!Endpoint, A!Wrapping, A!KeyRequests
  <2>2. QED
      BY <1>3, <2>1 DEF Layer
<1>7. \A e : GroupLayers(e) => OK(e)
    BY <1>4, <1>5, LayersOfGroups DEF GroupLayers
<1>8. /\ \A n \in DOMAIN A!G!GroupEndpoints : OK(A!G!GroupEndpoints[n])
      /\ \A n \in DOMAIN A!G!MemberEndpoints : OK(A!G!MemberEndpoints[n])
    BY <1>7, GroupEndpointsLayers, SameGroups
<1> HIDE DEF OK
<1>9. \A n \in DOMAIN A!Endpoints : OK(A!Endpoints[n])
    BY <1>6, <1>8 DEF A!Endpoints, A!@@
<1>10. QED
    BY <1>9 DEF OK

(* How its methods refuse a caller: they read the token themselves.        *)
AuthMethod(m) ==
    /\ m.checks = <<>> /\ m.then = <<>> /\ m.keeps
    /\ \A f \in m.fails : f[1] # "denied"
    /\ \/ m.by = "none"
       \/ m.by = "login" /\ m.layers \in {<<"failed_to_issue">>, <<"failed_to_retrieve">>,
                                          <<"failed_to_revoke">>}
       \/ m.by = "Identify" /\ m.layers = <<"unauthorized_access">>

LEMMA AuthAsk == \A c \in DOMAIN A!Service : AuthMethod(A!Service[c])
<1> USE DEF AuthMethod, A!Method, A!Unchecked, A!Failure
<1>1. \A c \in DOMAIN A!KeyMethods : AuthMethod(A!KeyMethods[c])
    BY DEF A!KeyMethods
<1>2. \A c \in DOMAIN A!GroupMethods : AuthMethod(A!GroupMethods[c])
    BY DEF A!GroupMethods, A!Raw
<1> HIDE DEF AuthMethod
<1>3. QED
    BY <1>1, <1>2 DEF A!Service, A!@@

(* The refusal says so.                                                    *)
LEMMA AuthSays ==
    ASSUME NEW m, AuthMethod(m), NEW x, Denial("auth", m.by, x)
    PROVE  Says(Denied(m, x), AuthMessages)
<1>1. Denied(m, x) = Wrap(m.layers, x)
    BY DEF Denied, AuthMethod
<1>2. Raw \notin AuthMessages
    BY DEF Raw, AuthMessages
<1>3. CASE m.by = "login"
  <2>1. x \in LoginErrors
      BY <1>3 DEF Denial
  <2>2. Says(x, AuthMessages)
      BY <2>1, SaysIt DEF LoginErrors, AuthMessages, Raw
  <2>3. PICK y : y # Raw /\ m.layers = <<y>>
      BY <1>3 DEF AuthMethod, Raw
  <2>4. QED
      BY <1>1, <1>2, <2>2, <2>3, WrapSays
<1>4. CASE m.by = "Identify"
  <2>1. Error(x) /\ m.layers = <<"unauthorized_access">>
      BY <1>4 DEF Denial, AuthMethod
  <2>2. "unauthorized_access" # Raw /\ "unauthorized_access" \in AuthMessages
      BY DEF Raw, AuthMessages
  <2>3. QED
      BY <1>1, <1>2, <2>1, <2>2, WrapSays
<1>5. QED
    BY <1>3, <1>4 DEF Denial, AuthMethod

(* All its refusals.                                                       *)
LEMMA AuthRefusals == RefusalsOK("auth", Apis.auth)
<1>1. \A n \in DOMAIN A!Endpoints :
          RefusalOK("auth", A!Endpoints[n], A!Requests[A!Endpoints[n].req],
                    A!Service[A!Endpoints[n].call])
  <2> SUFFICES ASSUME NEW n \in DOMAIN A!Endpoints
               PROVE  RefusalOK("auth", A!Endpoints[n], A!Requests[A!Endpoints[n].req],
                                A!Service[A!Endpoints[n].call])
      OBVIOUS
  <2> DEFINE e == A!Endpoints[n]
             m == A!Service[e.call]
  <2>1. AuthMethod(m)
      BY AuthAsk, AuthEndpoints DEF EndpointOK
  <2>2. Refused("auth", A!Requests[e.req], e.invalid) /\ Layer(e.failed)
      BY AuthEndpointsRefuse
  <2>3. Raw \notin AuthMessages
      BY DEF Raw, AuthMessages
  <2> HIDE DEF e, m
  <2>4. \A x : Denial("auth", m.by, x) => Classified("auth", Wrap(e.failed, Denied(m, x)))
      BY <2>1, <2>2, <2>3, AuthSays, LayerSays, AuthClassified
  <2>5. Refused("auth", m.checks, e.failed) /\ Refused("auth", m.then, e.failed)
      BY <2>1, RefusedNone DEF AuthMethod
  <2>6. RefusalOK("auth", e, A!Requests[e.req], m)
      BY <2>1, <2>2, <2>4, <2>5 DEF RefusalOK, AuthMethod
  <2>7. QED
      BY <2>6 DEF e, m
<1>2. Apis.auth = Of(A!Routes, A!Decoders, A!Requests, A!Endpoints, A!Responses, A!Service)
    BY DEF Apis
<1>3. QED
    BY <1>1, <1>2, AuthDecodersRefuse DEF Of, RefusalsOK

(***************************************************************************)
(* The refusals of the bootstrap service                                   *)
(***************************************************************************)
(* The messages that have a case.                                          *)
BootstrapMessages ==
    {"unsupported_content_type", "invalid_query", "malformed_specification", "non-existent_entity",
     "credentials"}

LEMMA BootstrapClassified == \A e : Says(e, BootstrapMessages) => Classified("bootstrap", e)
<1> SUFFICES ASSUME NEW e, Says(e, BootstrapMessages) PROVE Classified("bootstrap", e)
    OBVIOUS
<1>1. PICK m \in BootstrapMessages : Contains(e, m) /\ e[1] # Raw
    BY DEF Says
<1>2. /\ B!ErrorCodes[1][1] = {"unsupported_content_type"}
      /\ B!ErrorCodes[2][1] = {"invalid_query"}
      /\ B!ErrorCodes[3][1] = {"malformed_specification"}
      /\ B!ErrorCodes[4][1] = {"non-existent_entity"}
      /\ B!ErrorCodes[5][1] = {"credentials"}
    BY DEF B!ErrorCodes
<1>3. \E i \in 1..6 : m \in B!ErrorCodes[i][1]
    BY <1>1, <1>2 DEF BootstrapMessages
<1>4. B!EncodeError(e) \in 400..499
    BY <1>1, <1>3, BootstrapCodes DEF Coded
<1>5. QED
    BY <1>4 DEF Classified, EncodeError

(* What its decoders and its requests return.                              *)
LEMMA BootstrapDecodersRefuse ==
    \A d \in DOMAIN B!Decoders : Refused("bootstrap", B!Decoders[d], <<>>)
<1> DEFINE E == {<<"unsupported_content_type">>, <<"invalid_query">>, B!ParsePage}
                \cup BodyErrors(<<"malformed_specification">>)
           body == B!ContentType("unsupported_content_type") \o B!Json(<<"malformed_specification">>)
           query == <<"query", <<"invalid_query">>>>
           page == <<"page", B!ParsePage>>
<1>1. \A l, e : B!Wrap(l, e) = Wrap(l, e)
    BY DEF B!Wrap, Wrap, B!Raw, Raw
<1>2. \A e \in E : Says(e, BootstrapMessages)
  <2>1. /\ Says(<<"unsupported_content_type">>, BootstrapMessages)
        /\ Says(<<"invalid_query">>, BootstrapMessages)
      BY SaysIt DEF BootstrapMessages, Raw
  <2>2. Says(B!ParsePage, BootstrapMessages)
    <3>1. B!ParsePage = Wrap(<<"invalid_page">>, <<"invalid_query">>)
        BY <1>1 DEF B!ParsePage
    <3>2. "invalid_page" # Raw /\ Raw \notin BootstrapMessages
        BY DEF BootstrapMessages, Raw
    <3>3. QED
        BY <2>1, <3>1, <3>2, WrapSays
  <2>3. \A e \in BodyErrors(<<"malformed_specification">>) : Says(e, BootstrapMessages)
      BY BodySays DEF BootstrapMessages, Raw
  <2>4. QED
      BY <2>1, <2>2, <2>3
<1>3. body = ContentType("unsupported_content_type") \o Json(<<"malformed_specification">>)
    BY <1>1 DEF B!ContentType, ContentType, B!Json, Json, B!Raw, Raw
<1>4. <<"unsupported_content_type">> \in E /\ query[2] \in E /\ page[2] \in E
    OBVIOUS
<1>5. BodyErrors(<<"malformed_specification">>) \subseteq E
    OBVIOUS
<1> HIDE DEF E, body
<1>6. Returns(body, E)
    BY <1>3, <1>4, <1>5, BodyReturns
<1>7. \A d \in DOMAIN B!Decoders : B!Decoders[d] \in {<<>>, body, <<query, page>>}
    BY DEF B!Decoders, body
<1> HIDE DEF query, page
<1>8. \A d \in DOMAIN B!Decoders : Returns(B!Decoders[d], E)
    BY <1>4, <1>6, <1>7, ReturnsNone, ReturnsTwo
<1>9. QED
    BY <1>2, <1>8, BootstrapClassified, RefusedPlain

LEMMA BootstrapRequestsRefuse ==
    \A q \in DOMAIN B!Requests : Refused("bootstrap", B!Requests[q], <<>>)
<1> DEFINE E == {<<"credentials">>, <<"malformed_specification">>, <<"non-existent_entity">>}
           gone == <<"id", <<"non-existent_entity">>>>
<1>1. \A e \in E : Classified("bootstrap", e)
    BY SaysIt, BootstrapClassified DEF BootstrapMessages, Raw
<1>2. B!NoToken[2] \in E /\ (\A f : B!Bad(f)[2] \in E) /\ gone[2] \in E
    BY DEF B!NoToken, B!Bad
<1> HIDE DEF E
<1>3. DOMAIN B!Requests = {"addReq", "entityReq", "updateReq", "updateCertReq",
                           "updateConnReq", "listReq", "bootstrapReq", "changeStateReq"}
    BY DEF B!Requests
<1>4. /\ B!Requests.addReq = <<B!NoToken, B!Bad("external_id"), B!Bad("external_key")>>
      /\ B!Requests.entityReq = <<B!NoToken, B!Bad("id")>>
      /\ B!Requests.updateReq = <<B!NoToken, B!Bad("id")>>
      /\ B!Requests.updateCertReq = <<B!NoToken, gone>>
      /\ B!Requests.updateConnReq = <<B!NoToken, B!Bad("id")>>
      /\ B!Requests.listReq = <<B!NoToken>>
      /\ B!Requests.bootstrapReq = <<B!NoToken, B!Bad("id")>>
      /\ B!Requests.changeStateReq = <<B!NoToken, B!Bad("id"), B!Bad("state")>>
    BY DEF B!Requests
<1> HIDE DEF gone
<1>5. \A q \in DOMAIN B!Requests : Returns(B!Requests[q], E)
  <2>1. Returns(<<B!NoToken>>, E)
      BY <1>2, ReturnsOne
  <2>2. Returns(<<B!NoToken, gone>>, E) /\ \A f : Returns(<<B!NoToken, B!Bad(f)>>, E)
      BY <1>2, ReturnsTwo
  <2>3. \A f, g : Returns(<<B!NoToken, B!Bad(f), B!Bad(g)>>, E)
      BY <1>2, ReturnsThree
  <2>4. QED
      BY <1>3, <1>4, <2>1, <2>2, <2>3
<1>6. QED
    BY <1>1, <1>5, RefusedPlain

(* A device that is not let in.                                            *)
ServesDevices(m) ==
    /\ m.checks = <<>> /\ m.then = <<>> /\ m.by = "none"
    /\ \A f \in m.fails : f[1] = "denied" => f[2] = <<"external_key", "non-existent_entity">>

(* All its refusals.                                                       *)
LEMMA BootstrapRefusals == RefusalsOK("bootstrap", Apis.bootstrap)
<1>1. \A c \in DOMAIN B!Service : AsksAuth(B!Service[c]) \/ ServesDevices(B!Service[c])
  <2> DEFINE OK(m) == AsksAuth(m) \/ ServesDevices(m)
  <2> USE DEF AsksAuth, ServesDevices, Fields, B!Part, B!Failure, B!Missing, B!NoThings
  <2>1. \A c \in DOMAIN B!ConfigMethods : OK(B!ConfigMethods[c])
      BY BootstrapFields DEF B!ConfigMethods, B!Raw
  <2>2. \A c \in DOMAIN B!DeviceMethods : OK(B!DeviceMethods[c])
      BY BootstrapFields DEF B!DeviceMethods, B!Raw
  <2> HIDE DEF OK
  <2>3. \A c \in DOMAIN B!Service : OK(B!Service[c])
      BY <2>1, <2>2 DEF B!Service, B!@@
  <2> HIDE DEF AsksAuth, ServesDevices
  <2>4. QED
      BY <2>3 DEF OK
<1>2. \A n \in DOMAIN B!Endpoints : B!Endpoints[n].invalid = <<>> /\ B!Endpoints[n].failed = <<>>
  <2> DEFINE OK(e) == e.invalid = <<>> /\ e.failed = <<>>
  <2> USE DEF B!Endpoint, B!Wrapping
  <2>1. \A n \in DOMAIN B!WriteEndpoints : OK(B!WriteEndpoints[n])
      BY DEF B!WriteEndpoints
  <2>2. \A n \in DOMAIN B!ReadEndpoints : OK(B!ReadEndpoints[n])
      BY DEF B!ReadEndpoints
  <2> HIDE DEF OK
  <2>3. \A n \in DOMAIN B!Endpoints : OK(B!Endpoints[n])
      BY <2>1, <2>2 DEF B!Endpoints, B!@@
  <2>4. QED
      BY <2>3 DEF OK
<1>3. "credentials" \in BootstrapMessages /\ Raw \notin BootstrapMessages
    BY DEF BootstrapMessages, Raw
<1>4. Classified("bootstrap", <<"external_key", "non-existent_entity">>)
    BY SaysIt, BootstrapClassified DEF BootstrapMessages, Raw
<1>5. \A n \in DOMAIN B!Endpoints :
          RefusalOK("bootstrap", B!Endpoints[n], B!Requests[B!Endpoints[n].req],
                    B!Service[B!Endpoints[n].call])
  <2> SUFFICES ASSUME NEW n \in DOMAIN B!Endpoints
               PROVE  RefusalOK("bootstrap", B!Endpoints[n], B!Requests[B!Endpoints[n].req],
                                B!Service[B!Endpoints[n].call])
      OBVIOUS
  <2> DEFINE e == B!Endpoints[n]
             m == B!Service[e.call]
  <2>1. (AsksAuth(m) \/ ServesDevices(m)) /\ e.req \in DOMAIN B!Requests
      BY <1>1, BootstrapTables DEF EndpointOK
  <2>2. Refused("bootstrap", B!Requests[e.req], e.invalid) /\ e.failed = <<>> /\ Layer(e.failed)
      BY <1>2, <2>1, BootstrapRequestsRefuse DEF Layer
  <2> HIDE DEF e, m
  <2>3. CASE AsksAuth(m)
    <3>1. RefusalOK("bootstrap", e, B!Requests[e.req], m)
        BY <1>3, <2>2, <2>3, BootstrapClassified, AskerRefuses
    <3>2. QED
        BY <3>1 DEF e, m
  <2>4. CASE ServesDevices(m)
    <3>1. \A x : ~Denial("bootstrap", m.by, x)
        BY <2>4 DEF Denial, ServesDevices
    <3>2. Refused("bootstrap", m.checks, e.failed) /\ Refused("bootstrap", m.then, e.failed)
        BY <2>4, RefusedNone DEF ServesDevices
    <3>3. \A f \in m.fails : f[1] = "denied" => Classified("bootstrap", Wrap(e.failed, f[2]))
        BY <1>4, <2>2, <2>4, WrapNone DEF ServesDevices
    <3>4. RefusalOK("bootstrap", e, B!Requests[e.req], m)
        BY <2>2, <3>1, <3>2, <3>3 DEF RefusalOK
    <3>5. QED
        BY <3>4 DEF e, m
  <2>5. QED
      BY <2>1, <2>3, <2>4
<1>6. Apis.bootstrap = Of(B!Routes, B!Decoders, B!Requests, B!Endpoints, B!Responses, B!Service)
    BY DEF Apis
<1>7. QED
    BY <1>5, <1>6, BootstrapDecodersRefuse DEF Of, RefusalsOK

(***************************************************************************)
(* The refusals of the other services, whose encodeError compares the      *)
(* error itself                                                            *)
(***************************************************************************)
(* The errors of reading a body have cases.                                *)
PlainBody(s) ==
    /\ Classified(s, <<"unsupported_content_type">>) /\ Classified(s, <<Raw, "EOF">>)
    /\ Classified(s, <<Raw, "unexpected_EOF">>) /\ Classified(s, <<Raw, "invalid_JSON">>)

(* A body decoded with no layer around the error.                          *)
LEMMA PlainBodyRefused ==
    ASSUME NEW s, PlainBody(s)
    PROVE  Refused(s, ContentType("unsupported_content_type") \o Json(<<>>), <<>>)
<1> DEFINE E == {<<"unsupported_content_type">>} \cup BodyErrors(<<>>)
<1>1. BodyErrors(<<>>) = {<<Raw, "EOF">>, <<Raw, "unexpected_EOF">>, <<Raw, "invalid_JSON">>}
    BY WrapNone DEF BodyErrors
<1>2. \A e \in E : Classified(s, e)
    BY <1>1 DEF PlainBody
<1>3. <<"unsupported_content_type">> \in E /\ BodyErrors(<<>>) \subseteq E
    OBVIOUS
<1> HIDE DEF E
<1>4. Returns(ContentType("unsupported_content_type") \o Json(<<>>), E)
    BY <1>3, BodyReturns
<1>5. QED
    BY <1>2, <1>4, RefusedPlain

(* The endpoints of these services put no layers around an error.          *)
LEMMA PlainRefusal ==
    ASSUME NEW s, NEW e, NEW checks, NEW m, e.invalid = <<>>, e.failed = <<>>,
           Refused(s, checks, <<>>), Refused(s, m.checks, <<>>), Refused(s, m.then, <<>>),
           \A f \in m.fails : f[1] = "denied" => e.masked \/ Classified(s, f[2]),
           \A x : Denial(s, m.by, x) => e.masked \/ Classified(s, Denied(m, x))
    PROVE  RefusalOK(s, e, checks, m)
    BY WrapNone DEF RefusalOK

(* twins *)
LEMMA TwinsClassified ==
    \A m \in {"malformed_specification", "credentials", "unsupported_content_type", "invalid_query",
              "unexpected_EOF", "EOF", "invalid_JSON"} :
        Classified("twins", <<m>>) /\ Classified("twins", <<Raw, m>>)
<1> SUFFICES ASSUME NEW m \in {"malformed_specification", "credentials", "unsupported_content_type",
                               "invalid_query", "unexpected_EOF", "EOF", "invalid_JSON"},
                    NEW e \in {<<m>>, <<Raw, m>>}
             PROVE  Classified("twins", e)
    OBVIOUS
<1>1. /\ W!ErrorCodes[1][1] = {"malformed_specification"}
      /\ W!ErrorCodes[2][1] = {"credentials"}
      /\ W!ErrorCodes[5][1] = {"unsupported_content_type"}
      /\ W!ErrorCodes[6][1] = {"invalid_query"}
      /\ W!ErrorCodes[7][1] = {"unexpected_EOF"}
      /\ W!ErrorCodes[8][1] = {"EOF"}
      /\ W!ErrorCodes[9][1] = {"invalid_JSON"}
    BY DEF W!ErrorCodes
<1>2. \E i \in 1..9 : m \in W!ErrorCodes[i][1]
    BY <1>1
<1>3. W!EncodeError(e) \in 400..499
    BY <1>2, TwinsCodes DEF Coded
<1>4. QED
    BY <1>3 DEF Classified, EncodeError

LEMMA TwinsRefusals == RefusalsOK("twins", Apis.twins)
<1>1. \A d \in DOMAIN W!Decoders : Refused("twins", W!Decoders[d], <<>>)
  <2> DEFINE body == W!ContentType("unsupported_content_type") \o W!Json(<<>>)
             query == <<"query", <<"invalid_query">>>>
  <2>1. \A l, e : W!Wrap(l, e) = Wrap(l, e)
      BY DEF W!Wrap, Wrap, W!Raw, Raw
  <2>2. body = ContentType("unsupported_content_type") \o Json(<<>>)
      BY <2>1 DEF W!ContentType, ContentType, W!Json, Json, W!Raw, Raw
  <2>3. PlainBody("twins")
      BY TwinsClassified DEF PlainBody
  <2>4. Refused("twins", <<query>>, <<>>)
    <3>1. Returns(<<query>>, {<<"invalid_query">>})
        BY ReturnsOne
    <3>2. QED
        BY <3>1, TwinsClassified, RefusedPlain
  <2> HIDE DEF body
  <2>5. \A d \in DOMAIN W!BodyDecoders : W!BodyDecoders[d] = body
      BY DEF W!BodyDecoders, body
  <2>6. \A d \in DOMAIN W!ReadDecoders : W!ReadDecoders[d] \in {<<>>, <<query>>}
      BY DEF W!ReadDecoders
  <2> HIDE DEF query
  <2>7. Refused("twins", body, <<>>)
      BY <2>2, <2>3, PlainBodyRefused
  <2>8. QED
      BY <2>4, <2>5, <2>6, <2>7, RefusedNone DEF W!Decoders, W!@@
<1>2. \A q \in DOMAIN W!Requests : Refused("twins", W!Requests[q], <<>>)
  <2> DEFINE E == {<<"credentials">>, <<"malformed_specification">>}
  <2>1. \A e \in E : Classified("twins", e)
      BY TwinsClassified
  <2>2. W!NoToken[2] \in E /\ \A f : W!Bad(f)[2] \in E
      BY DEF W!NoToken, W!Bad
  <2> HIDE DEF E
  <2>3. \A q \in DOMAIN W!Requests : Returns(W!Requests[q], E)
      BY <2>2, ReturnsTwo, ReturnsThree DEF W!Requests
  <2>4. QED
      BY <2>1, <2>3, RefusedPlain
<1>3. \A c \in DOMAIN W!Service : AsksAuth(W!Service[c]) /\ W!Service[c].keeps = FALSE
    BY DEF W!Service, W!Method, W!Part, W!Raw, AsksAuth
<1>4. \A n \in DOMAIN W!Endpoints : W!Endpoints[n].invalid = <<>> /\ W!Endpoints[n].failed = <<>>
    BY DEF W!Endpoints, W!@@, W!TwinEndpoints, W!ListEndpoints, W!Endpoint, W!Wrapping
<1>5. \A n \in DOMAIN W!Endpoints :
          RefusalOK("twins", W!Endpoints[n], W!Requests[W!Endpoints[n].req],
                    W!Service[W!Endpoints[n].call])
  <2> SUFFICES ASSUME NEW n \in DOMAIN W!Endpoints
               PROVE  RefusalOK("twins", W!Endpoints[n], W!Requests[W!Endpoints[n].req],
                                W!Service[W!Endpoints[n].call])
      OBVIOUS
  <2> DEFINE m == W!Service[W!Endpoints[n].call]
  <2>1. AsksAuth(m) /\ m.keeps = FALSE /\ W!Endpoints[n].req \in DOMAIN W!Requests
      BY <1>3, TwinsTables DEF EndpointOK
  <2>2. \A x : Classified("twins", Denied(m, x))
      BY <2>1, TwinsClassified DEF Denied, AsksAuth
  <2>3. Refused("twins", m.checks, <<>>) /\ Refused("twins", m.then, <<>>)
      BY <2>1, RefusedNone DEF AsksAuth
  <2>4. \A f \in m.fails : f[1] # "denied"
      BY <2>1 DEF AsksAuth
  <2> HIDE DEF m
  <2>5. RefusalOK("twins", W!Endpoints[n], W!Requests[W!Endpoints[n].req], m)
      BY <1>2, <1>4, <2>1, <2>2, <2>3, <2>4, PlainRefusal
  <2>6. QED
      BY <2>5 DEF m
<1>6. Apis.twins = Of(W!Routes, W!Decoders, W!Requests, W!Endpoints, W!Responses, W!Service)
    BY DEF Apis
<1>7. QED
    BY <1>1, <1>5, <1>6 DEF Of, RefusalsOK

(* certs: most errors have no case *)
LEMMA CertsClassified ==
    /\ PlainBody("certs")
    /\ \A m \in {"credentials", "api_credentials", "invalid_query", "malformed_specification"} :
          \A e : Contains(e, m) => Classified("certs", e)
<1>1. /\ C!ErrorCodes[1][1] = {"unsupported_content_type"}
      /\ C!ErrorCodes[2][1] = {"EOF", "malformed_entity"}
      /\ C!ErrorCodes[4][1] = {"invalid_JSON"}
    BY DEF C!ErrorCodes
<1>2. ASSUME NEW m \in {"unsupported_content_type", "EOF", "invalid_JSON"},
             NEW e \in {<<m>>, <<Raw, m>>}
      PROVE  Classified("certs", e)
  <2>1. \E i \in 1..4 : m \in C!ErrorCodes[i][1]
      BY <1>1
  <2>2. C!EncodeError(e) \in 400..499
      BY <2>1, CertsCodes DEF Coded
  <2>3. QED
      BY <2>2 DEF Classified, EncodeError
<1>3. \A m \in {"credentials", "api_credentials", "invalid_query", "malformed_specification",
                "unexpected_EOF"} :
          \A e : Contains(e, m) => Classified("certs", e)
    BY DEF Classified, Unclassified
<1>4. Contains(<<Raw, "unexpected_EOF">>, "unexpected_EOF")
    BY DEF Contains
<1>5. QED
    BY <1>2, <1>3, <1>4 DEF PlainBody

LEMMA CertsRefusals == RefusalsOK("certs", Apis.certs)
<1>1. \A m \in {"credentials", "api_credentials", "invalid_query", "malformed_specification"} :
          Classified("certs", <<m>>)
    BY CertsClassified DEF Contains
<1>2. \A d \in DOMAIN C!Decoders : Refused("certs", C!Decoders[d], <<>>)
  <2> DEFINE body == C!ContentType("unsupported_content_type") \o C!Json(<<>>)
             query == <<"query", <<"invalid_query">>>>
  <2>1. \A l, e : C!Wrap(l, e) = Wrap(l, e)
      BY DEF C!Wrap, Wrap, C!Raw, Raw
  <2>2. body = ContentType("unsupported_content_type") \o Json(<<>>)
      BY <2>1 DEF C!ContentType, ContentType, C!Json, Json, C!Raw, Raw
  <2>3. Refused("certs", <<query>>, <<>>)
    <3>1. Returns(<<query>>, {<<"invalid_query">>})
        BY ReturnsOne
    <3>2. QED
        BY <1>1, <3>1, RefusedPlain
  <2> HIDE DEF body
  <2>4. Refused("certs", body, <<>>)
      BY <2>2, CertsClassified, PlainBodyRefused
  <2>5. \A d \in DOMAIN C!Decoders : C!Decoders[d] \in {body, <<query>>}
      BY DEF C!Decoders, body
  <2> HIDE DEF query
  <2>6. QED
      BY <2>3, <2>4, <2>5
<1>3. \A q \in DOMAIN C!Requests : Refused("certs", C!Requests[q], <<>>)
  <2> DEFINE E == {<<"credentials">>, <<"api_credentials">>, <<"malformed_specification">>}
             a == <<"no_thing_no_token", <<"api_credentials">>>>
             b(f) == <<f, <<"credentials">>>>
             c == <<"limit", <<"malformed_specification">>>>
  <2>1. \A e \in E : Classified("certs", e)
      BY <1>1
  <2>2. a[2] \in E /\ (\A f : b(f)[2] \in E) /\ c[2] \in E
      OBVIOUS
  <2>3. /\ DOMAIN C!Requests = {"addCertsReq", "listReq", "revokeReq"}
        /\ C!Requests.addCertsReq = <<a>>
        /\ C!Requests.listReq = <<b("token"), c>>
        /\ C!Requests.revokeReq = <<b("token"), b("id")>>
      BY DEF C!Requests
  <2> HIDE DEF E, a, b, c
  <2>4. \A q \in DOMAIN C!Requests : Returns(C!Requests[q], E)
      BY <2>2, <2>3, ReturnsOne, ReturnsTwo
  <2>5. QED
      BY <2>1, <2>4, RefusedPlain
<1>4. \A c \in DOMAIN C!Service : AsksAuth(C!Service[c])
    BY DEF C!Service, C!Method, C!Unchecked, C!Part, C!Raw, AsksAuth
<1>5. \A n \in DOMAIN C!Endpoints : C!Endpoints[n].invalid = <<>> /\ C!Endpoints[n].failed = <<>>
    BY DEF C!Endpoints, C!Endpoint, C!Wrapping, C!Masking
<1>6. \A n \in DOMAIN C!Endpoints :
          RefusalOK("certs", C!Endpoints[n], C!Requests[C!Endpoints[n].req],
                    C!Service[C!Endpoints[n].call])
  <2> SUFFICES ASSUME NEW n \in DOMAIN C!Endpoints
               PROVE  RefusalOK("certs", C!Endpoints[n], C!Requests[C!Endpoints[n].req],
                                C!Service[C!Endpoints[n].call])
      OBVIOUS
  <2> DEFINE e == C!Endpoints[n]
             m == C!Service[e.call]
  <2>1. AsksAuth(m) /\ e.req \in DOMAIN C!Requests
      BY <1>4, CertsTables DEF EndpointOK
  <2>2. Refused("certs", C!Requests[e.req], e.invalid) /\ Layer(e.failed)
      BY <1>3, <1>5, <2>1 DEF Layer
  <2>3. \A x : Says(x, {"credentials"}) => Classified("certs", x)
      BY CertsClassified DEF Says
  <2>4. Raw \notin {"credentials"}
      BY DEF Raw
  <2> HIDE DEF e, m
  <2>5. RefusalOK("certs", e, C!Requests[e.req], m)
      BY <2>1, <2>2, <2>3, <2>4, AskerRefuses
  <2>6. QED
      BY <2>5 DEF e, m
<1>7. Apis.certs = Of(C!Routes, C!Decoders, C!Requests, C!Endpoints, C!Responses, C!Service)
    BY DEF Apis
<1>8. QED
    BY <1>2, <1>6, <1>7 DEF Of, RefusalsOK

(* provision *)
LEMMA ProvisionClassified ==
    /\ PlainBody("provision")
    /\ Classified("provision", <<"malformed_entity">>)
    /\ \A m \in {"unauthorized", "api_credentials"} : \A e : Contains(e, m)
           => Classified("provision", e)
<1>1. /\ P!ErrorCodes[1][1] = {"unsupported_content_type"}
      /\ P!ErrorCodes[2][1] = {"EOF", "malformed_entity"}
      /\ P!ErrorCodes[4][1] = {"invalid_JSON"}
    BY DEF P!ErrorCodes
<1>2. ASSUME NEW m \in {"unsupported_content_type", "EOF", "malformed_entity", "invalid_JSON"},
             NEW e \in {<<m>>, <<Raw, m>>}
      PROVE  Classified("provision", e)
  <2>1. \E i \in 1..4 : m \in P!ErrorCodes[i][1]
      BY <1>1
  <2>2. P!EncodeError(e) \in 400..499
      BY <2>1, ProvisionCodes DEF Coded
  <2>3. QED
      BY <2>2 DEF Classified, EncodeError
<1>3. \A m \in {"unauthorized", "api_credentials", "unexpected_EOF"} :
          \A e : Contains(e, m) => Classified("provision", e)
    BY DEF Classified, Unclassified
<1>4. Contains(<<Raw, "unexpected_EOF">>, "unexpected_EOF")
    BY DEF Contains
<1>5. QED
    BY <1>2, <1>3, <1>4 DEF PlainBody

LEMMA ProvisionRefusals == RefusalsOK("provision", Apis.provision)
<1>1. \A d \in DOMAIN P!Decoders : Refused("provision", P!Decoders[d], <<>>)
  <2> DEFINE body == P!ContentType("unsupported_content_type") \o P!Json(<<>>)
             t == <<"content_type", <<"unsupported_content_type">>>>
  <2>1. \A l, e : P!Wrap(l, e) = Wrap(l, e)
      BY DEF P!Wrap, Wrap, P!Raw, Raw
  <2>2. body = ContentType("unsupported_content_type") \o Json(<<>>)
      BY <2>1 DEF P!ContentType, ContentType, P!Json, Json, P!Raw, Raw
  <2>3. Refused("provision", <<t>>, <<>>)
    <3>1. Returns(<<t>>, {<<"unsupported_content_type">>})
        BY ReturnsOne
    <3>2. QED
        BY <3>1, ProvisionClassified, RefusedPlain DEF PlainBody
  <2> HIDE DEF body
  <2>4. Refused("provision", body, <<>>)
      BY <2>2, ProvisionClassified, PlainBodyRefused
  <2>5. /\ DOMAIN P!Decoders = {"decodeProvisionRequest", "decodeMappingRequest"}
        /\ P!Decoders.decodeProvisionRequest = body
        /\ P!Decoders.decodeMappingRequest = P!ContentType("unsupported_content_type")
      BY DEF P!Decoders, body
  <2>6. P!ContentType("unsupported_content_type") = <<t>>
      BY DEF P!ContentType
  <2> HIDE DEF t
  <2>7. QED
      BY <2>3, <2>4, <2>5, <2>6
<1>2. \A q \in DOMAIN P!Requests : Refused("provision", P!Requests[q], <<>>)
  <2> DEFINE E == {<<"malformed_entity">>, <<"api_credentials">>}
             a(f) == <<f, <<"malformed_entity">>>>
             b == <<"token", <<"api_credentials">>>>
  <2>1. \A e \in E : Classified("provision", e)
    <3>1. Contains(<<"api_credentials">>, "api_credentials")
        BY DEF Contains
    <3>2. QED
        BY <3>1, ProvisionClassified
  <2>2. (\A f : a(f)[2] \in E) /\ b[2] \in E
      OBVIOUS
  <2>3. /\ DOMAIN P!Requests = {"provisionReq", "mappingReq"}
        /\ P!Requests.provisionReq = <<a("external_id"), a("external_key")>>
        /\ P!Requests.mappingReq = <<b>>
      BY DEF P!Requests
  <2> HIDE DEF E, a, b
  <2>4. \A q \in DOMAIN P!Requests : Returns(P!Requests[q], E)
      BY <2>2, <2>3, ReturnsOne, ReturnsTwo
  <2>5. QED
      BY <2>1, <2>4, RefusedPlain
<1>3. /\ DOMAIN P!Endpoints = {"doProvision", "getMapping"}
      /\ \A n \in DOMAIN P!Endpoints : P!Endpoints[n].invalid = <<>> /\ P!Endpoints[n].failed = <<>>
      /\ P!Endpoints.doProvision.masked /\ P!Endpoints.getMapping.call = "Mapping"
    BY DEF P!Endpoints, P!Endpoint, P!Wrapping, P!Masking
<1>4. /\ \A c \in DOMAIN P!Service : P!Service[c].checks = <<>> /\ P!Service[c].then = <<>>
      /\ P!Service["Mapping"].fails = {} /\ P!Service["Mapping"].by = "auth"
      /\ P!Service["Mapping"].layers = <<"unauthorized">> /\ P!Service["Mapping"].keeps
    BY DEF P!Service, P!Method
<1>5. ASSUME NEW n \in DOMAIN P!Endpoints
      PROVE  RefusalOK("provision", P!Endpoints[n], P!Requests[P!Endpoints[n].req],
                       P!Service[P!Endpoints[n].call])
  <2> DEFINE e == P!Endpoints[n]
             m == P!Service[e.call]
  <2>1. e.req \in DOMAIN P!Requests /\ m.checks = <<>> /\ m.then = <<>>
      BY <1>4, ProvisionTables DEF EndpointOK
  <2>2. /\ Refused("provision", P!Requests[e.req], <<>>)
        /\ Refused("provision", m.checks, <<>>) /\ Refused("provision", m.then, <<>>)
      BY <1>2, <2>1, RefusedNone
  <2>3. e.masked \/ /\ m.fails = {}
                    /\ \A x : Denial("provision", m.by, x) => Classified("provision", Denied(m, x))
    <3>1. CASE n = "doProvision"
        BY <1>3, <3>1
    <3>2. CASE n = "getMapping"
      <4>1. m = P!Service["Mapping"]
          BY <1>3, <3>2
      <4>2. ASSUME NEW x, Denial("provision", "auth", x)
            PROVE  Classified("provision", Wrap(<<"unauthorized">>, x))
        <5>1. PICK st : x = <<Raw, st>>
            BY <4>2 DEF Denial
        <5>2. Error(x) /\ "unauthorized" # Raw
            BY <5>1, Errors DEF Raw
        <5>3. QED
            BY <5>2, WrapLayer, ProvisionClassified
      <4>3. QED
          BY <1>4, <4>1, <4>2 DEF Denied
    <3>3. QED
        BY <1>3, <3>1, <3>2
  <2>4. e.invalid = <<>> /\ e.failed = <<>>
      BY <1>3
  <2> HIDE DEF e, m
  <2>5. RefusalOK("provision", e, P!Requests[e.req], m)
      BY <2>2, <2>3, <2>4, PlainRefusal
  <2>6. QED
      BY <2>5 DEF e, m
<1>6. Apis.provision = Of(P!Routes, P!Decoders, P!Requests, P!Endpoints, P!Responses, P!Service)
    BY DEF Apis
<1>7. QED
    BY <1>1, <1>5, <1>6 DEF Of, RefusalsOK

(* access *)
LEMMA AccessClassified ==
    \A m \in {"credentials", "non-existent_entity", "unsupported_content_type",
              "unexpected_EOF", "EOF",
              "invalid_JSON"} :
        Classified("access", <<m>>) /\ Classified("access", <<Raw, m>>)
<1> SUFFICES ASSUME NEW m \in {"credentials", "non-existent_entity", "unsupported_content_type",
                               "unexpected_EOF", "EOF", "invalid_JSON"},
                    NEW e \in {<<m>>, <<Raw, m>>}
             PROVE  Classified("access", e)
    OBVIOUS
<1>1. /\ K!ErrorCodes[1][1] = {"credentials"}
      /\ K!ErrorCodes[2][1] = {"non-existent_entity"}
      /\ K!ErrorCodes[4][1] = {"unsupported_content_type"}
      /\ K!ErrorCodes[5][1] = {"unexpected_EOF"}
      /\ K!ErrorCodes[6][1] = {"EOF"}
      /\ K!ErrorCodes[7][1] = {"invalid_JSON"}
    BY DEF K!ErrorCodes
<1>2. \E i \in 1..7 : m \in K!ErrorCodes[i][1]
    BY <1>1
<1>3. K!EncodeError(e) \in 400..499
    BY <1>2, AccessCodes DEF Coded
<1>4. QED
    BY <1>3 DEF Classified, EncodeError

LEMMA AccessRefusals == RefusalsOK("access", Apis.access)
<1>1. \A d \in DOMAIN K!Decoders : Refused("access", K!Decoders[d], <<>>)
  <2> DEFINE body == K!ContentType("unsupported_content_type") \o K!Json(<<>>)
  <2>1. \A l, e : K!Wrap(l, e) = Wrap(l, e)
      BY DEF K!Wrap, Wrap, K!Raw, Raw
  <2>2. body = ContentType("unsupported_content_type") \o Json(<<>>)
      BY <2>1 DEF K!ContentType, ContentType, K!Json, Json, K!Raw, Raw
  <2>3. PlainBody("access")
      BY AccessClassified DEF PlainBody
  <2> HIDE DEF body
  <2>4. Refused("access", body, <<>>)
      BY <2>2, <2>3, PlainBodyRefused
  <2>5. \A d \in DOMAIN K!Decoders : K!Decoders[d] = body
      BY DEF K!Decoders, body
  <2>6. QED
      BY <2>4, <2>5
<1>2. \A q \in DOMAIN K!Requests : Refused("access", K!Requests[q], <<>>)
  <2> DEFINE E == {<<"credentials">>}
             no(f) == <<f, <<"credentials">>>>
  <2>1. \A e \in E : Classified("access", e)
      BY AccessClassified
  <2>2. \A f : no(f)[2] \in E
      OBVIOUS
  <2>3. /\ DOMAIN K!Requests = {"identifyReq", "canAccessByKeyReq", "canAccessByIDReq"}
        /\ K!Requests.identifyReq = <<no("key")>>
        /\ K!Requests.canAccessByKeyReq = <<no("key"), no("id")>>
        /\ K!Requests.canAccessByIDReq = <<no("thing"), no("id")>>
      BY DEF K!Requests
  <2> HIDE DEF E, no
  <2>4. \A q \in DOMAIN K!Requests : Returns(K!Requests[q], E)
      BY <2>2, <2>3, ReturnsOne, ReturnsTwo
  <2>5. QED
      BY <2>1, <2>4, RefusedPlain
<1>3. \A n \in DOMAIN K!Endpoints : K!Endpoints[n].invalid = <<>> /\ K!Endpoints[n].failed = <<>>
    BY DEF K!Endpoints, K!Endpoint, K!Wrapping
<1>4. \A c \in DOMAIN K!Service :
          /\ K!Service[c].checks = <<>> /\ K!Service[c].then = <<>> /\ K!Service[c].by = "none"
          /\ \A f \in K!Service[c].fails : f[1] = "denied" => f[2] = <<"non-existent_entity">>
    BY DEF K!Service, K!Method, K!Raw
<1>5. ASSUME NEW n \in DOMAIN K!Endpoints
      PROVE  RefusalOK("access", K!Endpoints[n], K!Requests[K!Endpoints[n].req],
                       K!Service[K!Endpoints[n].call])
  <2> DEFINE e == K!Endpoints[n]
             m == K!Service[e.call]
  <2>1. /\ e.req \in DOMAIN K!Requests /\ m.checks = <<>> /\ m.then = <<>> /\ m.by = "none"
        /\ \A f \in m.fails : f[1] = "denied" => f[2] = <<"non-existent_entity">>
      BY <1>4, AccessTables DEF EndpointOK
  <2>2. /\ Refused("access", K!Requests[e.req], <<>>)
        /\ Refused("access", m.checks, <<>>) /\ Refused("access", m.then, <<>>)
      BY <1>2, <2>1, RefusedNone
  <2>3. \A x : ~Denial("access", m.by, x)
      BY <2>1 DEF Denial
  <2>4. e.invalid = <<>> /\ e.failed = <<>>
      BY <1>3
  <2>5. Classified("access", <<"non-existent_entity">>)
      BY AccessClassified
  <2> HIDE DEF e, m
  <2>6. RefusalOK("access", e, K!Requests[e.req], m)
      BY <2>1, <2>2, <2>3, <2>4, <2>5, PlainRefusal
  <2>7. QED
      BY <2>6 DEF e, m
<1>6. Apis.access = Of(K!Routes, K!Decoders, K!Requests, K!Endpoints, K!Responses, K!Service)
    BY DEF Apis
<1>7. QED
    BY <1>1, <1>5, <1>6 DEF Of, RefusalsOK

(* http: the status of the things service is answered as the server's      *)
LEMMA MessagesRefusals == RefusalsOK("http", Apis.http)
<1>1. \A d \in DOMAIN M!Decoders : Refused("http", M!Decoders[d], <<>>)
  <2> DEFINE E == {<<Raw, "malformed_data">>, <<Raw, "malformed_subtopic">>}
             a == <<"id", <<Raw, "malformed_data">>>>
             b == <<"subtopic", <<Raw, "malformed_subtopic">>>>
             c == <<"body", <<Raw, "malformed_data">>>>
             first == <<a>> \o <<b>>
             list == first \o <<c>>
  <2>1. ASSUME NEW m \in {"malformed_data", "malformed_subtopic"}
        PROVE  Classified("http", <<Raw, m>>)
    <3>1. M!ErrorCodes[1][1] = {"malformed_data", "malformed_subtopic"}
        BY DEF M!ErrorCodes
    <3>2. M!EncodeError(<<Raw, m>>) \in 400..499
        BY <3>1, MessagesCodes DEF Coded
    <3>3. QED
        BY <3>2 DEF Classified, EncodeError
  <2>2. \A e \in E : Classified("http", e)
      BY <2>1
  <2>3. a[2] \in E /\ b[2] \in E /\ c[2] \in E
      OBVIOUS
  <2>4. DOMAIN M!Decoders = {"decodeRequest"} /\ M!Decoders.decodeRequest = list
      BY DEF M!Decoders, M!parseSubtopic, M!Raw, Raw
  <2>5. Returns(<<a>>, E) /\ Returns(<<b>>, E) /\ Returns(<<c>>, E)
      BY <2>3, ReturnsOne
  <2> HIDE DEF E, a, b, c
  <2> DEFINE D == {a, b, c}
  <2>6. <<a>> \in Seq(D) /\ <<b>> \in Seq(D) /\ <<c>> \in Seq(D) /\ <<a>> \o <<b>> \in Seq(D)
      OBVIOUS
  <2> HIDE DEF D
  <2>7. Returns(<<a>> \o <<b>>, E)
      BY <2>5, <2>6, ReturnsBoth
  <2>8. Returns(list, E)
      BY <2>5, <2>6, <2>7, ReturnsBoth
  <2> HIDE DEF list
  <2>9. QED
      BY <2>2, <2>4, <2>8, RefusedPlain
<1>2. \A n \in DOMAIN M!Endpoints :
          /\ M!Endpoints[n].invalid = <<>> /\ M!Endpoints[n].failed = <<>>
          /\ M!Requests[M!Endpoints[n].req] = <<>> /\ M!Endpoints[n].call = "Publish"
    BY DEF M!Endpoints, M!Endpoint, M!Wrapping, M!Requests
<1> DEFINE m == M!Service["Publish"]
<1>3. /\ m.checks = <<>> /\ m.then = <<>> /\ m.by = "things" /\ m.keeps /\ m.layers = <<>>
      /\ \A f \in m.fails : f[1] # "denied"
    BY DEF M!Service, M!Method, M!Raw
<1>4. \A st \in {"InvalidArgument", "NotFound", "Internal"} : Classified("http", <<Raw, st>>)
  <2>1. \A st : Contains(<<Raw, st>>, st)
      BY DEF Contains
  <2>2. QED
      BY <2>1 DEF Classified, Unclassified
<1>5. \A x : Denial("http", m.by, x) => Classified("http", Denied(m, x))
    BY <1>3, <1>4, WrapNone DEF Denial, Denied
<1> HIDE DEF m
<1>6. \A n \in DOMAIN M!Endpoints :
          RefusalOK("http", M!Endpoints[n], M!Requests[M!Endpoints[n].req], m)
    BY <1>2, <1>3, <1>5, RefusedNone, PlainRefusal
<1>7. Apis.http = Of(M!Routes, M!Decoders, M!Requests, M!Endpoints, M!Responses, M!Service)
    BY DEF Apis
<1>8. QED
    BY <1>1, <1>2, <1>6, <1>7 DEF Of, RefusalsOK, m

(* readers *)
LEMMA ReadersRefusals == RefusalsOK("readers", Apis.readers)
<1>1. Classified("readers", <<"invalid_request">>) /\ Classified("readers", <<"credentials">>)
  <2>1. ASSUME NEW x \in {"invalid_request", "credentials"} PROVE Classified("readers", <<x>>)
    <3>1. /\ R!ErrorCodes[1][1] = {"invalid_request"}
          /\ R!ErrorCodes[2][1] = {"credentials", "PermissionDenied"}
        BY DEF R!ErrorCodes
    <3>2. \E i \in 1..2 : x \in R!ErrorCodes[i][1]
        BY <3>1
    <3>3. <<x>>[1] # Raw /\ Contains(<<x>>, x)
        BY DEF Raw, Contains
    <3>4. R!EncodeError(<<x>>) \in 400..499
        BY <3>2, <3>3, ReadersCodes DEF Coded
    <3>5. QED
        BY <3>4 DEF Classified, EncodeError
  <2>2. QED
      BY <2>1
<1>2. \A d \in DOMAIN R!Decoders : Refused("readers", R!Decoders[d], <<>>)
  <2> DEFINE E == {<<"invalid_request">>, <<"credentials">>}
             a == <<"id", <<"invalid_request">>>>
             b == <<"token", <<"credentials">>>>
  <2>1. a[2] \in E /\ b[2] \in E
      OBVIOUS
  <2>2. DOMAIN R!Decoders = {"decodeList"} /\ R!Decoders.decodeList = <<a, b>>
      BY DEF R!Decoders
  <2>3. \A e \in E : Classified("readers", e)
      BY <1>1
  <2> HIDE DEF E, a, b
  <2>4. Returns(<<a, b>>, E)
      BY <2>1, ReturnsTwo
  <2>5. QED
      BY <2>2, <2>3, <2>4, RefusedPlain
<1>3. \A n \in DOMAIN R!Endpoints :
          /\ R!Endpoints[n].invalid = <<>> /\ R!Endpoints[n].failed = <<>>
          /\ R!Requests[R!Endpoints[n].req] = <<>> /\ R!Endpoints[n].call = "ReadAll"
    BY DEF R!Endpoints, R!Endpoint, R!Wrapping, R!Requests
<1> DEFINE m == R!Service["ReadAll"]
<1>4. /\ m.checks = <<>> /\ m.then = R!getQuery \o R!validate
      /\ m.by = "things" /\ m.keeps /\ m.layers = <<>>
      /\ \A f \in m.fails : f[1] # "denied"
  <2> DEFINE n == [R!Method("things", <<>>, {R!Failure("read_messages")}) EXCEPT
                      !.then = R!getQuery \o R!validate]
  <2>1. m = [n EXCEPT !.drops = TRUE]
      BY DEF R!Service, R!authorize, R!Unchecked
  <2>2. \A t, fails : LET x == [R!Method("things", <<>>, fails) EXCEPT !.then = t]
                          y == [x EXCEPT !.drops = TRUE]
                      IN  /\ y.checks = <<>> /\ y.then = t /\ y.by = "things" /\ y.keeps
                          /\ y.layers = <<>> /\ y.fails = fails
      BY DEF R!Method
  <2>3. /\ m.checks = <<>> /\ m.then = R!getQuery \o R!validate /\ m.by = "things" /\ m.keeps
        /\ m.layers = <<>> /\ m.fails = {R!Failure("read_messages")}
    <3> HIDE DEF m
    <3>1. QED
        BY <2>1, <2>2
  <2>4. QED
      BY <2>3 DEF R!Failure
<1>5. Refused("readers", m.then, <<>>)
  <2> DEFINE E == {<<"invalid_request">>}
             a == <<"query", <<"invalid_request">>>>
             b == <<"limit", <<"invalid_request">>>>
  <2>1. R!getQuery = <<a>> /\ R!validate = <<b>>
      BY DEF R!getQuery, R!validate
  <2>2. a[2] \in E /\ b[2] \in E
      OBVIOUS
  <2>3. \A e \in E : Classified("readers", e)
      BY <1>1
  <2> HIDE DEF E, a, b, m
  <2>4. <<a>> \in Seq({a, b}) /\ <<b>> \in Seq({a, b})
      OBVIOUS
  <2>5. Returns(<<a>>, E) /\ Returns(<<b>>, E)
      BY <2>2, ReturnsOne
  <2>6. Returns(m.then, E)
      BY <1>4, <2>1, <2>4, <2>5, ReturnsBoth
  <2>7. QED
      BY <2>3, <2>6, RefusedPlain
<1>6. \A st \in {"NotFound", "Internal"} : Classified("readers", <<Raw, st>>)
  <2>1. \A st : Contains(<<Raw, st>>, st)
      BY DEF Contains
  <2>2. QED
      BY <2>1 DEF Classified, Unclassified
<1>7. \A x : Denial("readers", m.by, x) => Classified("readers", Denied(m, x))
    BY <1>4, <1>6, WrapNone DEF Denial, Denied
<1> HIDE DEF m
<1>8. \A n \in DOMAIN R!Endpoints :
          RefusalOK("readers", R!Endpoints[n], R!Requests[R!Endpoints[n].req], m)
    BY <1>3, <1>4, <1>5, <1>7, RefusedNone, PlainRefusal
<1>9. Apis.readers = Of(R!Routes, R!Decoders, R!Requests, R!Endpoints, R!Responses, R!Service)
    BY DEF Apis
<1>10. QED
    BY <1>2, <1>3, <1>8, <1>9 DEF Of, RefusalsOK, m

(* opcua *)
LEMMA OpcuaRefusals == RefusalsOK("opcua", Apis.opcua)
<1>1. ASSUME NEW x \in {"malformed_specification", "invalid_query"}
      PROVE  Classified("opcua", <<Raw, x>>)
  <2>1. /\ O!ErrorCodes[1][1] = {"malformed_specification"}
        /\ O!ErrorCodes[2][1] = {"invalid_query"}
      BY DEF O!ErrorCodes
  <2>2. \E i \in 1..2 : x \in O!ErrorCodes[i][1]
      BY <2>1
  <2>3. O!EncodeError(<<Raw, x>>) \in 400..499
      BY <2>2, OpcuaCodes DEF Coded
  <2>4. QED
      BY <2>3 DEF Classified, EncodeError
<1> DEFINE a == <<"query", <<Raw, "invalid_query">>>>
           b == <<"server", <<Raw, "malformed_specification">>>>
<1>2. /\ Returns(<<a>>, {<<Raw, "invalid_query">>})
      /\ Returns(<<b>>, {<<Raw, "malformed_specification">>})
    BY ReturnsOne
<1>3. DOMAIN O!Decoders = {"decodeBrowse"} /\ O!Decoders.decodeBrowse = <<a>>
    BY DEF O!Decoders, O!Raw, Raw
<1>4. \A n \in DOMAIN O!Endpoints :
          /\ O!Endpoints[n].invalid = <<>> /\ O!Endpoints[n].failed = <<>>
          /\ O!Requests[O!Endpoints[n].req] = <<b>> /\ O!Endpoints[n].call = "Browse"
    BY DEF O!Endpoints, O!Endpoint, O!Wrapping, O!Requests, O!Raw, Raw
<1> HIDE DEF a, b
<1>5. Refused("opcua", <<a>>, <<>>) /\ Refused("opcua", <<b>>, <<>>)
    BY <1>1, <1>2, RefusedPlain
<1> DEFINE m == O!Service["Browse"]
<1>6. /\ m.checks = <<>> /\ m.then = <<>> /\ m.by = "none"
      /\ \A f \in m.fails : f[1] # "denied"
    BY DEF O!Service, O!Method
<1>7. \A x : ~Denial("opcua", m.by, x)
    BY <1>6 DEF Denial
<1> HIDE DEF m
<1>8. \A n \in DOMAIN O!Endpoints :
          RefusalOK("opcua", O!Endpoints[n], O!Requests[O!Endpoints[n].req], m)
    BY <1>4, <1>5, <1>6, <1>7, RefusedNone, PlainRefusal
<1>9. Apis.opcua = Of(O!Routes, O!Decoders, O!Requests, O!Endpoints, O!Responses, O!Service)
    BY DEF Apis
<1>10. QED
    BY <1>3, <1>4, <1>5, <1>8, <1>9 DEF Of, RefusalsOK, m

(* Every service.                                                          *)
LEMMA Refusals == \A s \in ServiceNames : RefusalsOK(s, Apis[s])
    BY ThingsRefusals, UsersRefusals, AuthRefusals, BootstrapRefusals, TwinsRefusals, CertsRefusals,
       ProvisionRefusals, AccessRefusals, MessagesRefusals, ReadersRefusals, OpcuaRefusals
       DEF ServiceNames

(***************************************************************************)
(* The refusals of a request under way                                     *)
(***************************************************************************)
LEMMA RouteRefusals ==
    \A s \in ServiceNames : \A r \in Apis[s].routes :
        /\ Refused(s, Decoder(s, r), <<>>)
        /\ RefusalOK(s, EndpointOf(s, r), RequestOf(s, r), MethodOf(s, r))
<1> SUFFICES ASSUME NEW s \in ServiceNames, NEW r \in Apis[s].routes
             PROVE  /\ Refused(s, Decoder(s, r), <<>>)
                    /\ RefusalOK(s, EndpointOf(s, r), RequestOf(s, r), MethodOf(s, r))
    OBVIOUS
<1>1. r[3] \in DOMAIN Apis[s].endpoints /\ r[4] \in DOMAIN Apis[s].decoders
    BY ApisOK DEF ApiOK, RouteOK
<1>2. QED
    BY <1>1, Refusals DEF RefusalsOK, Decoder, EndpointOf, RequestOf, MethodOf

(* The error a sequence of checks refuses a request with.                  *)
LEMMA RefusedError ==
    ASSUME NEW s, NEW checks, NEW layers, Refused(s, checks, layers), NEW flaws,
           FirstError(checks, flaws) # <<>>
    PROVE  Classified(s, Wrap(layers, FirstError(checks, flaws)))
    BY FirstErrorIs DEF Refused

(* A request its decoder has read.                                         *)
Decoded(q) == FirstError(Decoder(q.service, q.route), q.flaws) = <<>>

(* Readers ask with a key only.                                            *)
LEMMA KeyGiven ==
    ASSUME NEW q, RequestOK(q), q.route # NoRoute, Decoded(q), q.service = "readers"
    PROVE  q.token # "none"
<1>1. Apis.readers.decoders = R!Decoders /\ Apis.readers.routes = R!Routes
    BY DEF Apis, Of
<1>2. q.route[4] = "decodeList"
    BY <1>1 DEF RequestOK, R!Routes
<1> DEFINE a == <<"id", <<"invalid_request">>>>
           b == <<"token", <<"credentials">>>>
<1>3. Decoder(q.service, q.route) = <<a, b>>
    BY <1>1, <1>2 DEF Decoder, R!Decoders
<1>4. a[2] # <<>> /\ b[1] = "token" /\ b[2] # <<>>
    OBVIOUS
<1> HIDE DEF a, b
<1>5. /\ Len(<<a, b>>) \in Nat /\ 2 \in 1..Len(<<a, b>>)
      /\ \A i \in 1..Len(<<a, b>>) : <<a, b>>[i][2] # <<>>
      /\ <<a, b>>[2][1] = "token"
    BY <1>4
<1>6. "token" \notin q.flaws
    BY <1>3, <1>5, FirstErrorIs DEF Decoded
<1>7. QED
    BY <1>6 DEF RequestOK

(* The error of a caller not let in is one of those known.                 *)
LEMMA Denials ==
    ASSUME NEW q, RequestOK(q), q.route # NoRoute, Valid(q), Decoded(q),
           NEW x \in IdentifyErrors(MethodOf(q.service, q.route).by, q.token),
           x # <<>>, x \notin OutOfReach, q.token # "connected_key"
    PROVE  Denial(q.service, MethodOf(q.service, q.route).by, x)
<1> DEFINE by == MethodOf(q.service, q.route).by
           t == q.token
           s == q.service
<1>1. by \in Ask \cup Tell /\ t \in TokensFor(by) /\ x \in IdentifyErrors(by, t)
    BY RouteFacts DEF RequestOK, MethodOK, By
<1>2. by \in {"login", "Identify"} => t \in A!Tokens
    BY TokenGiven
<1>3. s = "readers" => t # "none"
    BY KeyGiven
<1>4. t # "connected_key"
    OBVIOUS
<1> SUFFICES Denial(s, by, x)
    OBVIOUS
<1> HIDE DEF by, t, s
<1>5. \A y \in A!Tokens : A!Parse(y) \in {<<>>} \cup LoginErrors
    BY DEF A!Tokens, A!Parse, LoginErrors
<1>6. CASE by = "none"
    BY <1>1, <1>6 DEF IdentifyErrors
<1>7. CASE by = "login"
  <2>1. x = A!login(t)
      BY <1>1, <1>7 DEF IdentifyErrors
  <2>2. x \in LoginErrors
      BY <1>2, <1>5, <1>7, <2>1 DEF A!login, LoginErrors
  <2>3. QED
      BY <1>7, <2>2 DEF Denial
<1>8. CASE by = "Identify"
  <2>1. x = A!Identify(t)
      BY <1>1, <1>8 DEF IdentifyErrors
  <2>2. A!Parse(t) \in {<<>>} \cup LoginErrors
      BY <1>2, <1>5, <1>8
  <2>3. x = A!Parse(t) \/ x = Wrap(<<"failed_to_validate">>, A!Parse(t))
      BY <2>1 DEF A!Identify, A!Wrap, Wrap, A!Raw, Raw
  <2>4. \A y \in LoginErrors : Error(y)
      BY Errors DEF LoginErrors
  <2>5. A!Parse(t) # <<>>
      BY <2>1 DEF A!Identify
  <2>6. "failed_to_validate" # Raw
      BY DEF Raw
  <2>7. Error(A!Parse(t))
      BY <2>2, <2>4, <2>5
  <2>8. Error(Wrap(<<"failed_to_validate">>, A!Parse(t)))
      BY <2>6, <2>7, WrapLayer
  <2>9. QED
      BY <1>8, <2>3, <2>7, <2>8 DEF Denial
<1>9. CASE by = "auth"
  <2>1. PICK st \in A!GrpcIdentify(t) : x = IF st = "OK" THEN <<>> ELSE <<Raw, st>>
      BY <1>1, <1>9 DEF IdentifyErrors
  <2>2. QED
      BY <1>9, <2>1 DEF Denial
<1>10. CASE by = "things"
  <2>1. PICK st \in K!GrpcCanAccessByKey(t) : x = IF st = "OK" THEN <<>> ELSE <<Raw, st>>
      BY <1>1, <1>10 DEF IdentifyErrors
  <2>2. st \notin {"Unavailable", "DeadlineExceeded"}
      BY <2>1 DEF OutOfReach
  <2>3. x = <<Raw, st>>
      BY <2>1
  <2>4. CASE t = "none"
    <3>1. st = K!GrpcStatus(<<"malformed_specification">>)
        BY <2>1, <2>2, <2>4 DEF K!GrpcCanAccessByKey
    <3>2. st = "InvalidArgument"
        BY <3>1 DEF K!GrpcStatus
    <3>3. QED
        BY <1>3, <1>10, <2>3, <2>4, <3>2 DEF Denial
  <2>5. CASE t # "none"
    <3>1. PICK e \in K!CanAccessByKey(t) : st = K!GrpcStatus(e)
        BY <2>1, <2>2, <2>5 DEF K!GrpcCanAccessByKey
    <3>2. t \in {"unconnected_key", "unknown_key"}
        BY <1>1, <1>4, <1>10, <2>5 DEF TokensFor, K!Keys
    <3>3. e \in {<<"non-existent_entity">>, <<"check_connection", "db">>}
        BY <3>1, <3>2 DEF K!CanAccessByKey
    <3>4. /\ K!GrpcStatus(<<"non-existent_entity">>) = "NotFound"
          /\ K!GrpcStatus(<<"check_connection", "db">>) = "Internal"
        BY DEF K!GrpcStatus
    <3>5. QED
        BY <1>10, <2>3, <3>1, <3>3, <3>4 DEF Denial
  <2>6. QED
      BY <2>4, <2>5
<1>11. QED
    BY <1>1, <1>6, <1>7, <1>8, <1>9, <1>10 DEF Ask, Tell

(* What a refusal leads to.                                                *)
RefusedOK(ph, q, res, e, c) ==
    /\ ph \in {"validate", "check", "identify", "then", "serve"} => Decoded(q)
    /\ ph = "failed" /\ res \in {"refused", "denied"} =>
          MasksAt(q, res) \/ Classified(q.service, e)
    /\ ph = "answered" /\ res \in {"refused", "denied"} =>
          \/ c \in 400..499
          \/ MasksAt(q, res)
          \/ \E m \in Unclassified[q.service] : Contains(e, m)
RefusedInv == RefusedOK(phase, sent, result, err, code)

(* Init and every step keep it.                                            *)
LEMMA RefusedInit == Init => RefusedInv
    BY DEF Init, RefusedInv, RefusedOK

(* A step that refuses with a classified error, or one that is masked.     *)
LEMMA RefuseClassified ==
    ASSUME NEW why, NEW e, Refuse(why, e),
           why \in {"refused", "denied"} => MasksAt(sent, why) \/ Classified(sent.service, e)
    PROVE  RefusedInv'
    BY DEF Refuse, RefusedInv, RefusedOK

(* One step per action: a refusal is classified when it is made, and keeps *)
(* its error until it is answered.                                         *)
LEMMA RefusedNext == HandlerInv /\ RefusedInv /\ [Next]_vars => RefusedInv'
<1> SUFFICES ASSUME HandlerInv, RefusedInv, [Next]_vars PROVE RefusedInv'
    OBVIOUS
<1> DEFINE s == sent.service
           r == sent.route
<1>1. ASSUME phase' \in {"idle", "decode", "received", "lost"} PROVE RefusedInv'
    BY <1>1 DEF RefusedInv, RefusedOK
<1>2. CASE UNCHANGED request
    BY <1>2 DEF request, RefusedInv, RefusedOK
<1>3. ASSUME NEW to, phase \in {"validate", "check", "identify", "then"},
             to \in {"check", "identify", "then", "serve"}, Advance(to)
      PROVE  RefusedInv'
    BY <1>3 DEF Advance, RefusedInv, RefusedOK
<1>4. phase \in Handled =>
          /\ RequestOK(sent) /\ r # NoRoute
          /\ Refused(s, Decoder(s, r), <<>>)
          /\ RefusalOK(s, EndpointOf(s, r), RequestOf(s, r), MethodOf(s, r))
  <2>1. phase \in Handled => RequestOK(sent) /\ r # NoRoute
      BY DEF HandlerInv, HandlerOK, Handled
  <2>2. QED
      BY <2>1, RouteRefusals DEF RequestOK
<1>5. CASE NotFound
    BY <1>5 DEF NotFound, RefusedInv, RefusedOK
<1>6. CASE Decode
  <2> DEFINE e == FirstError(Decoder(s, r), sent.flaws)
  <2>1. CASE e = <<>>
      BY <1>6, <2>1 DEF Decode, Advance, RefusedInv, RefusedOK, Decoded
  <2>2. CASE e # <<>>
    <3>1. RequestOK(sent) /\ r # NoRoute
        BY <1>6 DEF Decode, HandlerInv, HandlerOK
    <3>2. Refused(s, Decoder(s, r), <<>>)
        BY <3>1, RouteRefusals DEF RequestOK
    <3>3. Classified(s, e)
        BY <2>2, <3>2, RefusedError, WrapNone
    <3>4. Refuse("refused", e)
        BY <1>6, <2>2 DEF Decode
    <3>5. QED
        BY <3>3, <3>4, RefuseClassified
  <2>3. QED
      BY <2>1, <2>2
<1>7. CASE Validate
  <2> DEFINE e == FirstError(RequestOf(s, r), sent.flaws)
  <2>1. CASE e = <<>>
      BY <1>3, <1>7, <2>1 DEF Validate
  <2>2. CASE e # <<>>
    <3>1. Refused(s, RequestOf(s, r), EndpointOf(s, r).invalid)
        BY <1>4, <1>7 DEF Validate, Handled, RefusalOK
    <3>2. Classified(s, Wrap(EndpointOf(s, r).invalid, e))
        BY <2>2, <3>1, RefusedError
    <3>3. Refuse("refused", Wrap(EndpointOf(s, r).invalid, e))
        BY <1>7, <2>2 DEF Validate
    <3>4. QED
        BY <3>2, <3>3, RefuseClassified
  <2>3. QED
      BY <2>1, <2>2
<1>8. CASE Check
  <2> DEFINE e == FirstError(MethodOf(s, r).checks, sent.flaws)
  <2>1. CASE e = <<>>
      BY <1>3, <1>8, <2>1 DEF Check
  <2>2. CASE e # <<>>
    <3>1. Refused(s, MethodOf(s, r).checks, EndpointOf(s, r).failed)
        BY <1>4, <1>8 DEF Check, Handled, RefusalOK
    <3>2. Classified(s, Wrap(EndpointOf(s, r).failed, e))
        BY <2>2, <3>1, RefusedError
    <3>3. Refuse("refused", Wrap(EndpointOf(s, r).failed, e))
        BY <1>8, <2>2 DEF Check, Fail
    <3>4. QED
        BY <3>2, <3>3, RefuseClassified
  <2>3. QED
      BY <2>1, <2>2
<1>9. CASE Identify
  <2> DEFINE m == MethodOf(s, r)
  <2>1. PICK x \in IdentifyErrors(m.by, sent.token) :
            IF x = <<>> THEN Advance("then")
            ELSE Fail(IF x \in OutOfReach \/ sent.token = "connected_key"
                      THEN "unavailable" ELSE "denied",
                      IF m.keeps THEN Wrap(m.layers, x) ELSE m.layers)
      BY <1>9 DEF Identify
  <2>2. CASE x = <<>>
      BY <1>3, <1>9, <2>1, <2>2 DEF Identify
  <2>3. CASE x # <<>> /\ (x \in OutOfReach \/ sent.token = "connected_key")
    <3>1. Refuse("unavailable",
                 Wrap(EndpointOf(s, r).failed, IF m.keeps THEN Wrap(m.layers, x) ELSE m.layers))
        BY <2>1, <2>3 DEF Fail
    <3>2. QED
        BY <3>1, RefuseClassified
  <2>4. CASE x # <<>> /\ ~(x \in OutOfReach \/ sent.token = "connected_key")
    <3>1. RequestOK(sent) /\ r # NoRoute /\ RefusalOK(s, EndpointOf(s, r), RequestOf(s, r), m)
        BY <1>4, <1>9 DEF Identify, Handled
    <3>2. Valid(sent) /\ Decoded(sent)
        BY <1>9 DEF Identify, HandlerInv, HandlerOK, RefusedInv, RefusedOK
    <3>3. Denial(s, m.by, x)
        BY <2>1, <2>4, <3>1, <3>2, Denials
    <3>4. EndpointOf(s, r).masked \/ Classified(s, Wrap(EndpointOf(s, r).failed, Denied(m, x)))
        BY <3>1, <3>3 DEF RefusalOK
    <3>5. MasksAt(sent, "denied") \/ Classified(s, Wrap(EndpointOf(s, r).failed, Denied(m, x)))
        BY <3>4 DEF MasksAt
    <3>6. Refuse("denied", Wrap(EndpointOf(s, r).failed, Denied(m, x)))
        BY <2>1, <2>4 DEF Fail, Denied
    <3>7. QED
        BY <3>5, <3>6, RefuseClassified
  <2>5. QED
      BY <2>2, <2>3, <2>4
<1>10. CASE Then
  <2> DEFINE e == FirstError(MethodOf(s, r).then, sent.flaws)
  <2>1. CASE e = <<>>
      BY <1>3, <1>10, <2>1 DEF Then
  <2>2. CASE e # <<>>
    <3>1. Refused(s, MethodOf(s, r).then, EndpointOf(s, r).failed)
        BY <1>4, <1>10 DEF Then, Handled, RefusalOK
    <3>2. Classified(s, Wrap(EndpointOf(s, r).failed, e))
        BY <2>2, <3>1, RefusedError
    <3>3. Refuse("refused", Wrap(EndpointOf(s, r).failed, e))
        BY <1>10, <2>2 DEF Then, Fail
    <3>4. QED
        BY <3>2, <3>3, RefuseClassified
  <2>3. QED
      BY <2>1, <2>2
<1>11. CASE Serve \/ ServeUnnoticed
    BY <1>11 DEF Serve, ServeUnnoticed, RefusedInv, RefusedOK
<1>12. CASE ServeFails
  <2>1. PICK f \in MethodOf(s, r).fails : Fail(f[1], f[2])
      BY <1>12 DEF ServeFails
  <2>2. /\ RefusalOK(s, EndpointOf(s, r), RequestOf(s, r), MethodOf(s, r))
        /\ RequestOK(sent) /\ r # NoRoute
      BY <1>4, <1>12 DEF ServeFails, Handled
  <2>3. f[1] # "refused"
      BY <2>1, <2>2, RouteFacts DEF RequestOK, MethodOK, Reasons
  <2>4. f[1] = "denied" => MasksAt(sent, f[1]) \/ Classified(s, Wrap(EndpointOf(s, r).failed, f[2]))
      BY <2>1, <2>2 DEF RefusalOK, MasksAt
  <2>5. Refuse(f[1], Wrap(EndpointOf(s, r).failed, f[2]))
      BY <2>1 DEF Fail
  <2>6. QED
      BY <2>3, <2>4, <2>5, RefuseClassified
<1>13. CASE Encode
  <2>1. Masks(result) <=> MasksAt(sent, result)
      BY DEF Masks, MasksAt
  <2>2. QED
      BY <1>13, <2>1 DEF Encode, RefusedInv, RefusedOK, Classified
<1>14. ASSUME NEW q, Send(q) PROVE RefusedInv'
    BY <1>1, <1>14 DEF Send
<1>15. ASSUME NEW c, Run(c) PROVE RefusedInv'
    BY <1>2, <1>15 DEF Run
<1>16. CASE Call \/ CallReturns \/ Return \/ Receive \/ LoseAnswer
    BY <1>1, <1>16 DEF Call, Send, CallReturns, Return, Finish, Receive, LoseAnswer
<1>17. CASE Exit
    BY <1>2, <1>17 DEF Exit
<1>18. CASE UNCHANGED vars
    BY <1>2, <1>18 DEF vars
<1>19. QED
    BY <1>5, <1>6, <1>7, <1>8, <1>9, <1>10, <1>11, <1>12, <1>13, <1>14, <1>15, <1>16, <1>17,
       <1>18 DEF Next

(***************************************************************************)
(* The theorems                                                            *)
(***************************************************************************)
(* The inductive invariant of four of the theorems.                        *)
ApiInv == HandlerInv /\ SdkInv /\ CliInv

LEMMA ApiInvariant == Spec => []ApiInv
<1>1. Init => ApiInv
    BY HandlerInit, SdkInit, CliInit DEF ApiInv
<1>2. ApiInv /\ [Next]_vars => ApiInv'
    BY HandlerNext, SdkNext, CliNext DEF ApiInv
<1>3. QED
    BY <1>1, <1>2, PTL DEF Spec

(* A code 2xx is answered for an operation that was done, or by an         *)
(* endpoint that masks errors, or where a repository drops them; no other  *)
(* code is answered for what was done, but for parts: what encodeError and *)
(* the Code methods of the responses of all services answer.               *)
THEOREM AnswersAreTruthful == Spec => []AnswersTruthful
<1>1. ApiInv => AnswersTruthful
  <2> SUFFICES ASSUME ApiInv, phase = "answered"
               PROVE  AnswersTruthful
      BY DEF AnswersTruthful
  <2>1. RequestOK(sent) /\ Answer(sent, result, code)
      BY DEF ApiInv, HandlerInv, HandlerOK, Replied
  <2>2. Masks(result) <=> MasksAt(sent, result)
      BY DEF Masks, MasksAt
  <2>3. sent.route # NoRoute =>
            /\ Apis[sent.service].responses[EndpointOf(sent.service, sent.route).res] \in 200..299
            /\ MasksAt(sent, result) => Apis[sent.service].responses.masked \in 200..299
      BY <2>1, RouteFacts DEF RequestOK, MasksAt
  <2>4. CASE result \in Success
    <3>1. code \in 200..299
        BY <2>1, <2>3, <2>4 DEF Answer
    <3>2. QED
        BY <2>4, <3>1 DEF AnswersTruthful, Success, ApiInv, HandlerInv, HandlerOK
  <2>5. CASE result \notin Success /\ sent.route # NoRoute /\ MasksAt(sent, result)
    <3>1. code \in 200..299
        BY <2>1, <2>2, <2>3, <2>5 DEF Answer
    <3>2. QED
        BY <2>2, <2>5, <3>1 DEF AnswersTruthful
  <2>6. CASE result \notin Success /\ ~(sent.route # NoRoute /\ MasksAt(sent, result))
    <3>1. code \in 400..503
        BY <2>1, <2>6 DEF Answer
    <3>2. code \notin 200..299
        BY <3>1
    <3>3. QED
        BY <2>6, <3>2 DEF AnswersTruthful, Success, ApiInv, HandlerInv, HandlerOK
  <2>7. QED
      BY <2>4, <2>5, <2>6
<1>2. QED
    BY <1>1, ApiInvariant, PTL

(* An operation that is not open to all is done for a caller whose token   *)
(* the auth or the things service took.                                    *)
THEOREM CallersAreIdentified == Spec => []CallersIdentified
<1>1. ApiInv => CallersIdentified
  <2> SUFFICES ASSUME ApiInv, phase = "answered", result = "done"
               PROVE  CallersIdentified
      BY DEF CallersIdentified
  <2> DEFINE call == EndpointOf(sent.service, sent.route).call
             by == MethodOf(sent.service, sent.route).by
  <2>1. RequestOK(sent) /\ sent.route # NoRoute /\ Valid(sent) /\ Known(sent)
      BY DEF ApiInv, HandlerInv, HandlerOK, Replied, Answer, Success
  <2>2. Trusted(by, sent.token)
      BY <2>1, KnownIsTrusted
  <2>3. Guarded(call, by)
      BY <2>1, RouteFacts DEF RequestOK, MethodOK
  <2> HIDE DEF by
  <2>4. QED
      BY <2>2, <2>3 DEF CallersIdentified, Guarded, Trusted, LoginCalls, ThingCalls
<1>2. QED
    BY <1>1, ApiInvariant, PTL

(* What sendRequest and the check of the code after it make a function of  *)
(* the SDK return is true of the operation it is for.                      *)
THEOREM SdkIsTruthful == Spec => []SdkTruthful
<1>1. ApiInv => SdkTruthful
    BY DEF ApiInv, SdkInv, SdkOK, SdkTruthful, HandlerInv, HandlerOK, Success
<1>2. QED
    BY <1>1, ApiInvariant, PTL

(* What a command of the CLI prints is true of all its calls.              *)
THEOREM CommandsAreTruthful == Spec => []CommandsTruthful
<1>1. ApiInv => CommandsTruthful
    BY DEF ApiInv, CliInv, CliOK, Printed, Done, CommandsTruthful
<1>2. QED
    BY <1>1, ApiInvariant, PTL

(* A request a handler refuses, or whose caller it does not let in, is     *)
(* answered with a code 4xx by encodeError, but where the endpoint masks   *)
(* errors or the error says a message the service has no case for.         *)
THEOREM RefusalsAreClassified == Spec => []RefusalsClassified
<1>1. Init => RefusedInv
    BY RefusedInit
<1>2. HandlerInv /\ RefusedInv /\ [Next]_vars => RefusedInv'
    BY RefusedNext
<1>3. ApiInv => HandlerInv
    BY DEF ApiInv
<1>4. RefusedInv => RefusalsClassified
    BY DEF RefusedInv, RefusedOK, RefusalsClassified, Masks, MasksAt
<1>5. QED
    BY <1>1, <1>2, <1>3, <1>4, ApiInvariant, PTL DEF Spec
==============================================================================

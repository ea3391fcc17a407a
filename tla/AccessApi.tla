------------------------------ MODULE AccessApi ------------------------------
(***************************************************************************)
(* How the things service tells who a thing is and which channels it may   *)
(* use: its HTTP API for that (things/api/auth/http), and the gRPC call    *)
(* (things/api/auth/grpc) with which the adapters and readers ask it.      *)
(***************************************************************************)
EXTENDS ApiErrors

(* The key of a thing connected to the channel, of one that is not, and of *)
(* none at all.                                                            *)
Keys == {"connected_key", "unconnected_key", "unknown_key"}

(* The errors of CanAccessByKey, the caches being those of the repository: *)
(* the lookup of the key wraps every error as a connection error.          *)
CanAccessByKey(key) ==
    CASE key = "connected_key" -> {<<>>, <<"check_connection", "db">>, <<Raw, "redis">>}
      [] key = "unconnected_key" -> {<<"non-existent_entity">>, <<"check_connection", "db">>}
      [] key = "unknown_key" -> {<<"check_connection", "db">>}

(* encodeError of the gRPC server compares the error itself.               *)
GrpcStatus(err) ==
    CASE err = <<>> -> "OK"
      [] err = <<"malformed_specification">> -> "InvalidArgument"
      [] err = <<"credentials">> -> "PermissionDenied"
      [] err = <<"check_connection">> -> "PermissionDenied"
      [] err = <<"non-existent_entity">> -> "NotFound"
      [] OTHER -> "Internal"

(* The request without a key is malformed.  A call that takes too long or  *)
(* finds no server ends with a status too.                                 *)
GrpcCanAccessByKey(key) ==
    {"Unavailable", "DeadlineExceeded"} \cup
    (IF key = "none" THEN {GrpcStatus(<<"malformed_specification">>)}
     ELSE {GrpcStatus(err) : err \in CanAccessByKey(key)})

(***************************************************************************)
(* The HTTP API                                                            *)
(***************************************************************************)
Routes ==
    {<<"POST", <<"identify">>, "identifyEndpoint", "decodeIdentify">>,
     <<"POST", <<"channels", "*", "access-by-key">>, "canAccessByKeyEndpoint", "decodeCanAccessByKey">>,
     <<"POST", <<"channels", "*", "access-by-id">>, "canAccessByIDEndpoint", "decodeCanAccessByID">>}

Decoders ==
    LET body == ContentType("unsupported_content_type") \o Json(<<>>)
    IN  [decodeIdentify |-> body, decodeCanAccessByKey |-> body, decodeCanAccessByID |-> body]

Requests ==
    LET No(what) == <<what, <<"credentials">>>>
    IN  [identifyReq |-> <<No("key")>>,
         canAccessByKeyReq |-> <<No("key"), No("id")>>,
         canAccessByIDReq |-> <<No("thing"), No("id")>>]

Endpoints ==
    [identifyEndpoint |-> Endpoint("identifyReq", "Identify", "identityRes"),
     canAccessByKeyEndpoint |-> Endpoint("canAccessByKeyReq", "CanAccessByKey", "identityRes"),
     canAccessByIDEndpoint |-> Endpoint("canAccessByIDReq", "CanAccessByID", "canAccessByIDRes")]

Responses == [identityRes |-> 200, canAccessByIDRes |-> 200]

(* The key is what is asked about: the caller is not told apart.           *)
Service ==
    LET Asked(fails) == Method("none", <<>>, fails \cup {<<"failure", <<Raw, "redis">>>>})
    IN  [Identify |-> Asked({<<"missing", <<"non-existent_entity", "db">>>>,
                             <<"failure", <<"select_error", "db">>>>}),
         CanAccessByKey |-> Asked({<<"missing", <<"check_connection", "db">>>>,
                                   <<"denied", <<"non-existent_entity">>>>}),
         CanAccessByID |-> Asked({<<"denied", <<"non-existent_entity">>>>,
                                  <<"failure", <<"check_connection", "db">>>>})]

ErrorCodes ==
    << <<{"credentials"}, 401>>,
       <<{"non-existent_entity"}, 404>>,
       <<{"check_connection"}, 403>>,
       <<{"unsupported_content_type"}, 415>>,
       <<{"unexpected_EOF"}, 400>>,
       <<{"EOF"}, 400>>,
       <<{"invalid_JSON"}, 400>> >>

EncodeError(err) == FirstCode(ErrorCodes, LAMBDA m : err \in {<<m>>, <<Raw, m>>})
==============================================================================

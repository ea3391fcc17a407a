----------------------------- MODULE ProvisionApi -----------------------------
(***************************************************************************)
(* The HTTP API of the provision service (provision/api), what its         *)
(* endpoints expect of provision/service.go, and how errors are answered.  *)
(***************************************************************************)
EXTENDS ApiErrors

Routes ==
    {<<"POST", <<"mapping">>, "doProvision", "decodeProvisionRequest">>,
     <<"GET", <<"mapping">>, "getMapping", "decodeMappingRequest">>}

Decoders ==
    [decodeProvisionRequest |-> ContentType("unsupported_content_type") \o Json(<<>>),
     decodeMappingRequest |-> ContentType("unsupported_content_type")]

Requests ==
    [provisionReq |-> << <<"external_id", <<"malformed_entity">>>>,
                         <<"external_key", <<"malformed_entity">>>> >>,
     mappingReq |-> << <<"token", <<"api_credentials">>>> >>]

(* The mapping is a map, no Response.                                      *)
Endpoints ==
    [doProvision |-> Masking("provisionReq", "Provision", "provisionRes"),
     getMapping |-> Endpoint("mappingReq", "Mapping", "mapping")]

Responses == [provisionRes |-> 201, masked |-> 201, mapping |-> 200]

(* Provision needs no token: without one it acts with the credentials of   *)
(* its configuration.  Mapping asks the users service who the caller is.   *)
Service ==
    [Provision |-> Method("none", <<>>, {<<"denied", <<"failed_to_create_token", "sdk">>>>,
                                         <<"denied", <<"missing_credentials">>>>,
                                         <<"failure", <<"failed_to_create_thing", "sdk">>>>,
                                         <<"failure", <<"failed_to_create_channel", "sdk">>>>,
                                         <<"failure", <<"failed_to_bootstrap", "sdk">>>>,
                                         <<"failure", <<"failed_to_create_cert", "sdk">>>>}),
     Mapping |-> Method("auth", <<"unauthorized">>, {})]

ErrorCodes ==
    << <<{"unsupported_content_type"}, 415>>,
       <<{"EOF", "malformed_entity"}, 400>>,
       <<{"entity_exists"}, 409>>,
       <<{"invalid_JSON"}, 400>> >>

EncodeError(err) == FirstCode(ErrorCodes, LAMBDA m : err \in {<<m>>, <<Raw, m>>})
===============================================================================

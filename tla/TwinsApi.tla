------------------------------- MODULE TwinsApi -------------------------------
(***************************************************************************)
(* The HTTP API of the twins service (twins/api/http), what its endpoints  *)
(* expect of twins/service.go, and how its errors are answered.            *)
(***************************************************************************)
EXTENDS ApiErrors

Routes ==
    {<<"POST", <<"twins">>, "addTwin", "decodeTwinCreation">>,
     <<"PUT", <<"twins", "*">>, "updateTwin", "decodeTwinUpdate">>,
     <<"GET", <<"twins", "*">>, "viewTwin", "decodeView">>,
     <<"DELETE", <<"twins", "*">>, "removeTwin", "decodeView">>,
     <<"GET", <<"twins">>, "listTwins", "decodeList">>,
     <<"GET", <<"states", "*">>, "listStates", "decodeListStates">>}

BodyDecoders ==
    LET body == ContentType("unsupported_content_type") \o Json(<<>>)
    IN  [decodeTwinCreation |-> body, decodeTwinUpdate |-> body]
ReadDecoders ==
    LET query == << <<"query", <<"invalid_query">>>> >>
    IN  [decodeView |-> <<>>, decodeList |-> query, decodeListStates |-> query]
Decoders == BodyDecoders @@ ReadDecoders

NoToken == <<"token", <<"credentials">>>>
Bad(field) == <<field, <<"malformed_specification">>>>
Requests ==
    [addTwinReq |-> <<NoToken, Bad("name")>>,
     updateTwinReq |-> <<NoToken, Bad("id"), Bad("name")>>,
     viewTwinReq |-> <<NoToken, Bad("id")>>,
     listReq |-> <<NoToken, Bad("limit"), Bad("name")>>,
     listStatesReq |-> <<NoToken, Bad("id"), Bad("limit")>>]

TwinEndpoints ==
    [addTwin |-> Endpoint("addTwinReq", "AddTwin", "twinRes_created"),
     updateTwin |-> Endpoint("updateTwinReq", "UpdateTwin", "twinRes"),
     viewTwin |-> Endpoint("viewTwinReq", "ViewTwin", "viewTwinRes")]
ListEndpoints ==
    [listTwins |-> Endpoint("listReq", "ListTwins", "twinsPageRes"),
     removeTwin |-> Endpoint("viewTwinReq", "RemoveTwin", "removeRes"),
     listStates |-> Endpoint("listStatesReq", "ListStates", "statesPageRes")]
Endpoints == TwinEndpoints @@ ListEndpoints

Responses ==
    [twinRes_created |-> 201, twinRes |-> 200, viewTwinRes |-> 200,
     twinsPageRes |-> 200, statesPageRes |-> 200, removeRes |-> 204]

(* A failed Identify is answered with the service's own error; the cause   *)
(* is gone.  A lookup that fails for any reason finds no twin, an update   *)
(* that names nothing to change is malformed.  The cache comes after       *)
(* MongoDB: when it fails, the twin was stored, changed or removed.        *)
Service ==
    LET Identified(fails) == [Method("auth", <<"credentials">>, fails) EXCEPT !.keeps = FALSE]
        Missing == <<"missing", <<"non-existent_entity">>>>
        Mongo == <<"failure", <<Raw, "mongo">>>>
        Cache(msg) == Part(<<msg, "redis">>)
    IN  [AddTwin |-> Identified({Mongo, <<"failure", <<"uuid">>>>, Cache("save_twin")}),
         UpdateTwin |-> Identified({Missing, Mongo, <<"malformed", <<"malformed_specification">>>>,
                                    Cache("update_twin")}),
         ViewTwin |-> Identified({Missing}),
         RemoveTwin |-> Identified({Missing, Mongo, Cache("remove_twin")}),
         ListTwins |-> Identified({Mongo}),
         ListStates |-> Identified({Mongo})]

ErrorCodes ==
    << <<{"malformed_specification"}, 400>>,
       <<{"credentials"}, 403>>,
       <<{"non-existent_entity"}, 404>>,
       <<{"already_exists"}, 422>>,
       <<{"unsupported_content_type"}, 415>>,
       <<{"invalid_query"}, 400>>,
       <<{"unexpected_EOF"}, 400>>,
       <<{"EOF"}, 400>>,
       <<{"invalid_JSON"}, 400>> >>

(* The switch compares the error itself, not the layers inside.            *)
EncodeError(err) == FirstCode(ErrorCodes, LAMBDA m : err \in {<<m>>, <<Raw, m>>})
===============================================================================

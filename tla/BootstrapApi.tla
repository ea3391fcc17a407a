---------------------------- MODULE BootstrapApi ----------------------------
(***************************************************************************)
(* The HTTP API of the bootstrap service (bootstrap/api), what its         *)
(* endpoints expect of bootstrap/service.go, and how errors are answered.  *)
(***************************************************************************)
EXTENDS ApiErrors

Routes ==
    {<<"POST", <<"things", "configs">>, "add", "decodeAddRequest">>,
     <<"GET", <<"things", "configs", "*">>, "view", "decodeEntityRequest">>,
     <<"PUT", <<"things", "configs", "*">>, "update", "decodeUpdateRequest">>,
     <<"PATCH", <<"things", "configs", "certs", "*">>, "updateCert", "decodeUpdateCertRequest">>,
     <<"PUT", <<"things", "configs", "connections", "*">>, "updateConn", "decodeUpdateConnRequest">>,
     <<"GET", <<"things", "configs">>, "list", "decodeListRequest">>,
     <<"GET", <<"things", "bootstrap", "*">>, "bootstrap", "decodeBootstrapRequest">>,
     <<"GET", <<"things", "bootstrap", "secure", "*">>, "bootstrap_secure", "decodeBootstrapRequest">>,
     <<"PUT", <<"things", "state", "*">>, "state", "decodeStateRequest">>,
     <<"DELETE", <<"things", "configs", "*">>, "remove", "decodeEntityRequest">>}

(* parsePagePrams wraps the error of parseUint.                            *)
ParsePage == Wrap(<<"invalid_page">>, <<"invalid_query">>)

Decoders ==
    LET body == ContentType("unsupported_content_type") \o Json(<<"malformed_specification">>)
    IN  [decodeAddRequest |-> body, decodeUpdateRequest |-> body,
         decodeUpdateCertRequest |-> body, decodeUpdateConnRequest |-> body,
         decodeStateRequest |-> body,
         decodeListRequest |-> << <<"query", <<"invalid_query">>>>, <<"page", ParsePage>> >>,
         decodeBootstrapRequest |-> <<>>, decodeEntityRequest |-> <<>>]

NoToken == <<"token", <<"credentials">>>>
Bad(field) == <<field, <<"malformed_specification">>>>
(* The limit of a listReq needs no check: decodeListRequest has put it     *)
(* into its range.                                                         *)
Requests ==
    [addReq |-> <<NoToken, Bad("external_id"), Bad("external_key")>>,
     entityReq |-> <<NoToken, Bad("id")>>,
     updateReq |-> <<NoToken, Bad("id")>>,
     updateCertReq |-> <<NoToken, <<"id", <<"non-existent_entity">>>> >>,
     updateConnReq |-> <<NoToken, Bad("id")>>,
     listReq |-> <<NoToken>>,
     bootstrapReq |-> <<NoToken, Bad("id")>>,
     changeStateReq |-> <<NoToken, Bad("id"), Bad("state")>>]

WriteEndpoints ==
    [add |-> Endpoint("addReq", "Add", "configRes_created"),
     updateCert |-> Endpoint("updateCertReq", "UpdateCert", "configRes"),
     view |-> Endpoint("entityReq", "View", "viewRes"),
     update |-> Endpoint("updateReq", "Update", "configRes"),
     updateConn |-> Endpoint("updateConnReq", "UpdateConnections", "configRes")]
ReadEndpoints ==
    [list |-> Endpoint("listReq", "List", "listRes"),
     remove |-> Endpoint("entityReq", "Remove", "removeRes"),
     bootstrap |-> Endpoint("bootstrapReq", "Bootstrap", "bootstrapRes"),
     bootstrap_secure |-> Endpoint("bootstrapReq", "SecureBootstrap", "bootstrapRes"),
     state |-> Endpoint("changeStateReq", "ChangeState", "stateRes")]
Endpoints == WriteEndpoints @@ ReadEndpoints

Responses ==
    [removeRes |-> 204, configRes_created |-> 201, configRes |-> 200,
     viewRes |-> 200, listRes |-> 200, stateRes |-> 200, bootstrapRes |-> 200]

Missing(layers) == <<"missing", layers \o <<"non-existent_entity">>>>
NoThings(layers) == <<"unavailable", layers \o <<"no_answer_of_things">>>>
(* identify returns its own error and drops the cause.                     *)
Identified(fails) == [Method("auth", <<"credentials">>, fails) EXCEPT !.keeps = FALSE]

(* Save and UpdateConnections of the repository answer nil to a Commit     *)
(* that failed, and no query asks rows.Err.  A thing that Add created      *)
(* stays when it is not found, or not deleted, afterwards; connections     *)
(* made and undone with the SDK stay too.                                  *)
ConfigMethods ==
    [Add |-> Unchecked(Identified({
                         Failure("check_channels"),
                         <<"malformed", <<"connection_channels", "malformed_specification", "sdk">>>>,
                         <<"failure", <<"failed_to_add", "failed_to_create_thing", "sdk">>>>,
                         Missing(<<"failed_to_add", "thing_not_found">>),
                         NoThings(<<"failed_to_add">>),
                         <<"conflict", <<"failed_to_add", "save_failed", "already_exists">>>>,
                         <<"failure", <<"failed_to_add", "save_failed", "db">>>>,
                         Part(<<"failed_to_add", "thing_not_found", "non-existent_entity">>),
                         Part(<<"failed_to_add", "no_answer_of_things">>),
                         Part(<<"failed_to_add", "save_failed", "already_exists">>),
                         Part(<<"failed_to_add", "save_failed", "db">>)})),
     View |-> Unchecked(Identified({Missing(<<>>), Failure("retrieve_failed")})),
     Update |-> Identified({Missing(<<>>), Failure("update_failed")}),
     UpdateCert |-> Identified({Missing(<<"update_cert">>), <<"failure", <<"update_cert", "db">>>>}),
     UpdateConnections |-> Unchecked(Identified({
                         Missing(<<"update_connections">>), Failure("update_connections"),
                         <<"malformed", <<"update_connections", "malformed_specification", "sdk">>>>,
                         <<"malformed", <<"malformed_specification">>>>, NoThings(<<>>),
                         <<"failure", <<Raw, "db">>>>, Missing(<<>>),
                         Part(<<"malformed_specification">>), Part(<<"no_answer_of_things">>),
                         Part(<<Raw, "db">>), Part(<<"non-existent_entity">>)}))]

(* List has no error to return, and answers a failed query with an empty   *)
(* page; a device is told by its external key.                             *)
DeviceMethods ==
    [List |-> Unchecked(Identified({})),
     Remove |-> Identified({<<"failure", <<"failed_to_remove", "remove_failed", "db">>>>}),
     Bootstrap |-> Unchecked(Method("none", <<>>,
                         {Missing(<<"read_bootstrap">>), Failure("read_bootstrap"),
                          <<"denied", <<"external_key", "non-existent_entity">>>>})),
     SecureBootstrap |-> Unchecked(Method("none", <<>>,
                         {Missing(<<"read_bootstrap">>), Failure("read_bootstrap"),
                          <<"malformed", <<"secure_bootstrap", "cipher">>>>,
                          <<"denied", <<"external_key", "non-existent_entity">>>>,
                          <<"failure", <<Raw, "cipher">>>>})),
     ChangeState |-> Unchecked(Identified({
                         Missing(<<"change_state">>), Failure("change_state"), NoThings(<<>>),
                         Part(<<"change_state", "db">>), Part(<<"no_answer_of_things">>)}))]

Service == ConfigMethods @@ DeviceMethods

ErrorCodes ==
    << <<{"unsupported_content_type"}, 415>>,
       <<{"invalid_query"}, 400>>,
       <<{"malformed_specification"}, 400>>,
       <<{"non-existent_entity"}, 404>>,
       <<{"credentials"}, 403>>,
       <<{"already_exists"}, 409>>,
       <<{"no_answer_of_things"}, 503>>,
       <<{"EOF"}, 400>>,
       <<{"unexpected_EOF"}, 400>> >>

EncodeError(err) == FirstCode(ErrorCodes, LAMBDA m : err[1] # Raw /\ Contains(err, m))
=============================================================================

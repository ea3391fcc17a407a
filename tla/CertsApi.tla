------------------------------- MODULE CertsApi -------------------------------
(***************************************************************************)
(* The HTTP API of the certs service (certs/api), what its endpoints       *)
(* expect of certs/service.go, and how its errors are answered.            *)
(***************************************************************************)
EXTENDS ApiErrors

Routes ==
    {<<"POST", <<"certs">>, "issueCert", "decodeCerts">>,
     <<"GET", <<"certs">>, "listCerts", "decodeListCerts">>,
     <<"DELETE", <<"certs", "revoke">>, "revokeCert", "decodeRevokeCerts">>}

Decoders ==
    LET body == ContentType("unsupported_content_type") \o Json(<<>>)
    IN  [decodeCerts |-> body, decodeRevokeCerts |-> body,
         decodeListCerts |-> << <<"query", <<"invalid_query">>>> >>]

(* addCertsReq is refused only when both the thing and the token miss.     *)
(* The errors of the service have the text of the API's, but are others.   *)
Requests ==
    [addCertsReq |-> << <<"no_thing_no_token", <<"api_credentials">>>> >>,
     listReq |-> << <<"token", <<"credentials">>>>, <<"limit", <<"malformed_specification">>>> >>,
     revokeReq |-> << <<"token", <<"credentials">>>>, <<"id", <<"credentials">>>> >>]

(* A Cert and a Revoke are no Response: encodeResponse sets no code.       *)
Endpoints ==
    [issueCert |-> Masking("addCertsReq", "IssueCert", "Cert"),
     listCerts |-> Endpoint("listReq", "ListCerts", "certsPageRes"),
     revokeCert |-> Endpoint("revokeReq", "RevokeCert", "Revoke")]

Responses == [certsPageRes |-> 201, masked |-> 201, Cert |-> 200, Revoke |-> 200]

(* Save answers nil to a Commit that failed.  When it fails otherwise the  *)
(* certificate was issued, as it was revoked when Remove fails.            *)
Service ==
    LET Identified(fails) == Method("auth", <<"credentials">>, fails)
        Failed(what, cause) == <<"failure", <<what, cause>>>>
    IN  [IssueCert |-> Unchecked(Identified({<<"missing", <<"failed_to_create", "sdk">>>>,
                                             Failed("failed_to_create", "pki"),
                                             Part(<<"save_failed", "error_conflict">>),
                                             Part(<<"save_failed", "db">>)})),
         RevokeCert |-> Identified({<<"missing", <<"failed_to_revoke", "sdk">>>>,
                                    <<"missing", <<"failed_to_revoke", "non-existent_entity", "db">>>>,
                                    Failed("failed_to_revoke", "pki"),
                                    Part(<<"failed_to_remove", "db">>)}),
         ListCerts |-> Unchecked(Identified({<<"failure", <<Raw, "db">>>>}))]

ErrorCodes ==
    << <<{"unsupported_content_type"}, 415>>,
       <<{"EOF", "malformed_entity"}, 400>>,
       <<{"entity_exists"}, 409>>,
       <<{"invalid_JSON"}, 400>> >>

EncodeError(err) == FirstCode(ErrorCodes, LAMBDA m : err \in {<<m>>, <<Raw, m>>})
===============================================================================

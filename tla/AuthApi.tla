------------------------------- MODULE AuthApi -------------------------------
(***************************************************************************)
(* The HTTP API of the auth service (auth/api/http), how the service tells *)
(* a caller by a token (auth/service.go, auth/jwt/tokenizer.go), and the   *)
(* gRPC call with which the other services ask it to (auth/api/grpc).      *)
(***************************************************************************)
EXTENDS ApiErrors
G == INSTANCE GroupsApi

(* What a token may be: a user's, one of an API key, one to reset a        *)
(* password, one of the former expired, and one that was never signed.     *)
Tokens == {"user_key", "API_key", "recovery_key", "expired_user_key", "expired_API_key", "forged"}

(***************************************************************************)
(* Identification                                                          *)
(***************************************************************************)
Parse(token) ==
    CASE token \in {"user_key", "API_key", "recovery_key"} -> <<>>
      [] token = "expired_API_key" -> <<"expired_API_key">>
      [] token = "expired_user_key" -> <<"expired_key", "jwt">>
      [] token = "forged" -> <<"unauthorized_access", "jwt">>

(* Mutant: any key logs in.                                                *)
loginAnyKey(token) == Parse(token)

login(token) ==
    IF token \in {"API_key", "recovery_key"} THEN <<"unauthorized_access">> ELSE Parse(token)

(* The error of removing the expired API key is inside, if there is one.   *)
Identify(token) ==
    IF Parse(token) \in {<<>>, <<"expired_API_key">>}
    THEN Parse(token) ELSE Wrap(<<"failed_to_validate">>, Parse(token))

GrpcStatus(err) ==
    CASE err = <<>> -> "OK"
      [] Contains(err, "malformed_specification") -> "InvalidArgument"
      [] Contains(err, "unauthorized_access") -> "Unauthenticated"
      [] Contains(err, "expired_key") -> "Unauthenticated"
      [] OTHER -> "Internal"

(* The request without a token is malformed.  The client passes the status *)
(* on; a call that takes too long or finds no server ends with one too.    *)
GrpcIdentify(token) ==
    {GrpcStatus(IF token = "none" THEN <<"malformed_specification">> ELSE Identify(token)),
     "Unavailable", "DeadlineExceeded"}

(***************************************************************************)
(* The HTTP API.  A login key is issued to anyone who asks, an API key to  *)
(* a user: issue stands for two endpoints.                                 *)
(***************************************************************************)
Routes ==
    {<<"POST", <<"keys">>, "issueUserKey", "decodeIssue">>,
     <<"POST", <<"keys">>, "issueAPIKey", "decodeIssue">>,
     <<"GET", <<"keys", "*">>, "retrieve", "decodeKeyReq">>,
     <<"DELETE", <<"keys", "*">>, "revoke", "decodeKeyReq">>,
     <<"POST", <<"groups">>, "CreateGroupEndpoint", "DecodeGroupCreate">>,
     <<"GET", <<"groups", "*">>, "ViewGroupEndpoint", "DecodeGroupRequest">>,
     <<"GET", <<"groups">>, "ListGroupsEndpoint", "DecodeListGroupsRequest">>,
     <<"GET", <<"groups", "*", "children">>, "ListGroupChildrenEndpoint", "DecodeListGroupsRequest">>,
     <<"GET", <<"groups", "*", "parents">>, "ListGroupParentsEndpoint", "DecodeListGroupsRequest">>,
     <<"PUT", <<"groups", "*">>, "UpdateGroupEndpoint", "DecodeGroupUpdate">>,
     <<"DELETE", <<"groups", "*">>, "DeleteGroupEndpoint", "DecodeGroupRequest">>,
     <<"PUT", <<"groups", "*", "members", "*">>, "AssignEndpoint", "DecodeMemberGroupRequest">>,
     <<"DELETE", <<"groups", "*", "members", "*">>, "UnassignEndpoint", "DecodeMemberGroupRequest">>,
     <<"GET", <<"groups", "*", "members">>, "ListMembersEndpoint", "DecodeListMemberGroupRequest">>,
     <<"GET", <<"members", "*", "groups">>, "ListMembership", "DecodeListMemberGroupRequest">>}

KeyDecoders ==
    [decodeIssue |-> ContentType("unsupported_content_type") \o Json(<<"malformed_specification">>),
     decodeKeyReq |-> <<>>]
Decoders == KeyDecoders @@ G!ListDecoders @@ G!GroupDecoders

Bad(field) == <<field, <<"malformed_specification">>>>
KeyRequests ==
    [issueKeyReq_UserKey |-> <<>>,
     issueKeyReq_APIKey |-> <<Bad("token"), Bad("type")>>,
     keyReq |-> <<Bad("token"), Bad("id")>>]
Requests == KeyRequests @@ G!Requests

KeyEndpoints ==
    [issueUserKey |-> Endpoint("issueKeyReq_UserKey", "tmpKey", "issueKeyRes"),
     issueAPIKey |-> Endpoint("issueKeyReq_APIKey", "userKey", "issueKeyRes"),
     retrieve |-> Endpoint("keyReq", "RetrieveKey", "retrieveKeyRes"),
     revoke |-> Endpoint("keyReq", "Revoke", "revokeKeyRes")]
Endpoints == KeyEndpoints @@ G!GroupEndpoints @@ G!MemberEndpoints

KeyResponses == [issueKeyRes |-> 201, retrieveKeyRes |-> 200, revokeKeyRes |-> 204]
Responses == KeyResponses @@ G!Responses

KeyMethods ==
    [tmpKey |-> Method("none", <<>>, {<<"failure", <<"failed_to_issue_temporary", "jwt">>>>}),
     userKey |-> Method("login", <<"failed_to_issue">>,
                        {<<"conflict", <<"failed_to_issue", "already_exists", "db">>>>,
                         <<"failure", <<"failed_to_issue", "save_failed", "db">>>>}),
     RetrieveKey |-> Method("login", <<"failed_to_retrieve">>,
                            {<<"missing", <<"entity_not_found", "db">>>>, Failure("retrieve_failed")}),
     Revoke |-> Method("login", <<"failed_to_revoke">>,
                       {<<"failure", <<"failed_to_revoke", "delete_failed", "db">>>>})]

(* Update and Delete name no group type and fail, Assign and Unassign take *)
(* the ULID of a group for a UUID, and the queries of Members and          *)
(* Memberships are malformed.                                              *)
GroupMethods ==
    LET Identified(fails) == Method("Identify", <<"unauthorized_access">>, fails)
        Failing(err) == [Identified({<<"failure", err>>}) EXCEPT !.works = FALSE]
    IN  [CreateGroup |-> Identified({<<"malformed", <<"malformed_entity", "db">>>>,
                                     <<"conflict", <<"group_exists", "db">>>>,
                                     <<"missing", <<Raw, "no_rows">>>>,
                                     Failure("failed_to_create_group")}),
         ListGroups |-> Unchecked(Identified({Failure("select_group_error")})),
         ListParents |-> Unchecked(Identified({Failure("select_group_error")})),
         ListChildren |-> Unchecked(Identified({Failure("select_group_error")})),
         ViewGroup |-> Identified({<<"missing", <<"group_not_found", "db">>>>, Failure("retrieve_failed")}),
         ListMembers |-> Failing(<<"retrieve_members", "select_group_error", "db">>),
         ListMemberships |-> Failing(<<"select_group_error", "db">>),
         UpdateGroup |-> Failing(<<"update_db_failed", "invalid_group_type">>),
         RemoveGroup |-> Failing(<<"update_db_failed", "invalid_group_type">>),
         Assign |-> Failing(<<"failed_to_assign", "uuid">>),
         Unassign |-> Failing(<<"group_not_found", "uuid">>)]
Service == KeyMethods @@ GroupMethods

ErrorCodes ==
    << <<{"malformed_specification"}, 400>>,
       <<{"unauthorized_access"}, 403>>,
       <<{"entity_not_found"}, 404>>,
       <<{"already_exists"}, 409>>,
       <<{"EOF"}, 400>>,
       <<{"unexpected_EOF"}, 400>>,
       <<{"unsupported_content_type"}, 415>> >>

EncodeError(err) == FirstCode(ErrorCodes, LAMBDA m : Contains(err, m))
==============================================================================

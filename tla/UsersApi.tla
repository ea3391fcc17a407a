------------------------------ MODULE UsersApi ------------------------------
(***************************************************************************)
(* The HTTP API of the users service (users/api), what its endpoints       *)
(* expect of users/service.go, and how its errors are answered.            *)
(***************************************************************************)
EXTENDS ApiErrors

UserRoutes ==
    {<<"POST", <<"users">>, "registration", "decodeCredentials">>,
     <<"GET", <<"users", "profile">>, "viewProfile", "decodeViewProfile">>,
     <<"GET", <<"users", "*">>, "viewUser", "decodeViewUser">>,
     <<"GET", <<"users">>, "listUsers", "decodeListUsers">>,
     <<"PUT", <<"users">>, "updateUser", "decodeUpdateUser">>,
     <<"GET", <<"users", "*", "groups">>, "listMemberships", "decodeListUserGroupsRequest">>,
     <<"POST", <<"password", "reset-request">>, "passwordResetRequest", "decodePasswordResetRequest">>,
     <<"PUT", <<"password", "reset">>, "passwordReset", "decodePasswordReset">>,
     <<"PATCH", <<"password">>, "passwordChange", "decodePasswordChange">>}
GroupRoutes ==
    {<<"POST", <<"groups">>, "createGroup", "decodeGroupCreate">>,
     <<"GET", <<"groups">>, "listGroups", "decodeListUserGroupsRequest">>,
     <<"DELETE", <<"groups", "*">>, "deleteGroup", "decodeGroupRequest">>,
     <<"PUT", <<"groups", "*", "users", "*">>, "assignUserToGroup", "decodeUserGroupRequest">>,
     <<"DELETE", <<"groups", "*", "users", "*">>, "removeUserFromGroup", "decodeUserGroupRequest">>,
     <<"GET", <<"groups", "*", "users">>, "listMembers", "decodeListUserGroupsRequest">>,
     <<"PATCH", <<"groups", "*">>, "updateGroup", "decodeGroupUpdate">>,
     <<"GET", <<"groups", "*", "groups">>, "listGroups", "decodeListUserGroupsRequest">>,
     <<"GET", <<"groups", "*">>, "viewGroup", "decodeGroupRequest">>}
TokenRoutes == {<<"POST", <<"tokens">>, "login", "decodeCredentials">>}
Routes == UserRoutes \cup GroupRoutes \cup TokenRoutes

UserDecoders ==
    LET type == ContentType("unsupported_content_type")
    IN  [decodeViewUser |-> <<>>, decodeViewProfile |-> <<>>,
         decodeListUsers |-> << <<"query", <<"invalid_query">>>> >>,
         decodeUpdateUser |-> Json(<<"malformed_specification">>),
         decodeCredentials |-> type \o Json(<<"malformed_specification">>),
         decodePasswordResetRequest |-> type \o Json(<<"failed_decode">>),
         decodePasswordReset |-> type \o Json(<<"failed_decode">>),
         decodePasswordChange |-> type \o Json(<<"failed_decode">>)]

GroupDecoders ==
    LET body == ContentType("unsupported_content_type") \o Json(<<"malformed_specification">>)
    IN  [decodeGroupCreate |-> body, decodeGroupUpdate |-> body,
         decodeGroupRequest |-> <<>>,
         decodeListUserGroupsRequest |-> << <<"query", <<"invalid_query">>>> >>,
         decodeUserGroupRequest |-> <<>>]

Decoders == UserDecoders @@ GroupDecoders

NoToken == <<"token", <<"credentials">>>>
Bad(field) == <<field, <<"malformed_specification">>>>
UserRequests ==
    [userReq |-> <<Bad("email"), Bad("password")>>,
     viewUserReq |-> <<NoToken>>, listUsersReq |-> <<NoToken>>, updateUserReq |-> <<NoToken>>,
     passwResetReq |-> <<Bad("email"), Bad("host")>>,
     resetTokenReq |-> <<Bad("password"), <<"token", <<"missing_reset_token">>>>, Bad("confirmation")>>,
     passwChangeReq |-> <<NoToken, Bad("password"), <<"old_password", <<"credentials">>>> >>]

GroupRequests ==
    [createGroupReq |-> <<NoToken, Bad("name")>>,
     updateGroupReq |-> <<NoToken, Bad("id"), Bad("name")>>,
     listUserGroupReq |-> <<NoToken>>,
     userGroupReq |-> <<NoToken, Bad("group_id"), Bad("user_id")>>,
     groupReq |-> <<NoToken, Bad("id")>>]

Requests == UserRequests @@ GroupRequests

UserEndpoints ==
    [registration |-> Endpoint("userReq", "Register", "createUserRes_created"),
     passwordResetRequest |-> Endpoint("passwResetReq", "GenerateResetToken", "passwChangeRes"),
     passwordReset |-> Endpoint("resetTokenReq", "ResetPassword", "passwChangeRes"),
     viewUser |-> Endpoint("viewUserReq", "ViewUser", "viewUserRes"),
     viewProfile |-> Endpoint("viewUserReq", "ViewProfile", "viewUserRes"),
     listUsers |-> Endpoint("listUsersReq", "ListUsers", "userPageRes"),
     updateUser |-> Endpoint("updateUserReq", "UpdateUser", "updateUserRes")]

GroupEndpoints ==
    [passwordChange |-> Endpoint("passwChangeReq", "ChangePassword", "passwChangeRes"),
     login |-> Endpoint("userReq", "Login", "tokenRes"),
     createGroup |-> Endpoint("createGroupReq", "CreateGroup", "createGroupRes_created"),
     assignUserToGroup |-> Endpoint("userGroupReq", "Assign", "assignUserToGroupRes"),
     removeUserFromGroup |-> Endpoint("userGroupReq", "Unassign", "removeUserFromGroupRes"),
     listMembers |-> Endpoint("listUserGroupReq", "ListMembers", "userPageRes"),
     listMemberships |-> Endpoint("listUserGroupReq", "ListMemberships", "groupPageRes")]

GroupViewEndpoints ==
    [updateGroup |-> Endpoint("updateGroupReq", "UpdateGroup", "updateGroupRes"),
     viewGroup |-> Endpoint("groupReq", "ViewGroup", "viewGroupRes"),
     listGroups |-> Endpoint("listUserGroupReq", "ListGroups", "groupPageRes"),
     deleteGroup |-> Endpoint("groupReq", "RemoveGroup", "groupDeleteRes")]

Endpoints == UserEndpoints @@ GroupEndpoints @@ GroupViewEndpoints

UserResponses ==
    [createUserRes_created |-> 201, tokenRes |-> 201, updateUserRes |-> 200,
     viewUserRes |-> 200, userPageRes |-> 200]
GroupResponses ==
    [createGroupRes_created |-> 201, updateGroupRes |-> 200, viewGroupRes |-> 200,
     passwChangeRes |-> 201, groupPageRes |-> 200, groupDeleteRes |-> 204,
     assignUserToGroupRes |-> 204, removeUserFromGroupRes |-> 204]
Responses == UserResponses @@ GroupResponses

Open(fails) == Method("none", <<>>, fails)
Identified(fails) == Method("auth", <<"credentials">>, fails)
Wrapped(fails) == Method("auth", <<"credentials", "credentials">>, fails)
Malformed == <<"malformed", <<"malformed_specification", "db">>>>
Missing == <<"missing", <<"non-existent_entity", "db">>>>
NoUser == <<"missing", <<"non-existent_user">>>>

UserMethods ==
    [Register |-> Open({Malformed, <<"conflict", <<"email_taken", "db">>>>, Failure("save_failed")}),
     Login |-> Open({<<"denied", <<"credentials", "non-existent_entity", "db">>>>,
                             <<"denied", <<"credentials", "compare_failed">>>>,
                             <<"failure", <<"non-existent_user", "status">>>>}),
     ViewUser |-> Identified({<<"missing", <<"credentials", "non-existent_entity", "db">>>>,
                                  <<"failure", <<"credentials", "retrieve_failed", "db">>>>}),
     ViewProfile |-> Identified({<<"missing", <<"credentials", "non-existent_entity", "db">>>>,
                                     <<"failure", <<"credentials", "retrieve_failed", "db">>>>}),
     ListUsers |-> Unchecked(Identified({Failure("select_group_error")})),
     UpdateUser |-> Wrapped({Failure("update_failed")})]

PasswordMethods ==
    [GenerateResetToken |-> Open({NoUser, <<"failure", <<"recovery_token", "non-existent_user", "status">>>>,
                                          <<"failure", <<"send_mail", "smtp">>>>}),
     ResetPassword |-> Wrapped({NoUser, Failure("update_password_failed")}),
     ChangePassword |-> Wrapped({<<"denied", <<"credentials">>>>, NoUser, Failure("update_password_failed")})]

(* The service checks a group's name once more, against groupRegexp;       *)
(* CreateGroup returns the error of the auth service as it is.             *)
GroupMethods ==
    [CreateGroup |-> [Method("auth", <<>>,
                              {Malformed, <<"conflict", <<"group_exists", "db">>>>, Failure("failed_to_create_group")})
                        EXCEPT !.checks = <<Bad("name_letters")>>],
     ListGroups |-> Unchecked(Identified({Failure("select_group_error")})),
     ListMembers |-> Unchecked(Identified({Failure("select_group_error")})),
     RemoveGroup |-> Identified({<<"missing", <<"already_deleted">>>>, Failure("delete_group_failed")}),
     Unassign |-> Identified({Missing, Failure("email_taken")}),
     UpdateGroup |-> Identified({Failure("failed_to_update_group")}),
     ViewGroup |-> Identified({Missing, Failure("retrieve_failed")}),
     Assign |-> Identified({Malformed, <<"conflict", <<"group_exists", "db">>>>, Missing,
                                Failure("failed_to_assign")}),
     ListMemberships |-> Unchecked(Identified({Failure("select_group_error")}))]

Service == UserMethods @@ PasswordMethods @@ GroupMethods
ErrorCodes ==
    << <<{"malformed_specification"}, 400>>,
       <<{"credentials"}, 403>>,
       <<{"email_taken"}, 409>>,
       <<{"group_exists"}, 409>>,
       <<{"unsupported_content_type"}, 415>>,
       <<{"failed_decode"}, 400>>,
       <<{"unexpected_EOF"}, 400>>,
       <<{"EOF"}, 400>>,
       <<{"non-existent_user"}, 400>>,
       <<{"recovery_token"}, 404>> >>

EncodeError(err) == FirstCode(ErrorCodes, LAMBDA m : err[1] # Raw /\ Contains(err, m))
=============================================================================

----------------------------- MODULE GroupsApi -----------------------------
(***************************************************************************)
(* The part of the group APIs of the things and of the auth service that   *)
(* the two share (internal/groups/api).                                    *)
(***************************************************************************)
EXTENDS ApiErrors

ListDecoders ==
    LET list == ContentType("unsupported_content_type")
                    \o << <<"query", <<"invalid_query">>>> >>
    IN  [DecodeListGroupsRequest |-> list, DecodeListMemberGroupRequest |-> list]

GroupDecoders ==
    LET body == ContentType("unsupported_content_type") \o Json(<<"failed_decode">>)
    IN  [DecodeGroupCreate |-> body, DecodeGroupUpdate |-> body,
         DecodeGroupRequest |-> <<>>, DecodeMemberGroupRequest |-> <<>>]

NoToken == <<"token", <<"unauthorized_access">>>>
Requests ==
    [createGroupReq |-> <<NoToken,
                          <<"name", <<"malformed_entity", "bad_name">>>>,
                          <<"type", <<"malformed_entity", "missing_type">>>> >>,
     updateGroupReq |-> <<NoToken, <<"id", <<"malformed_entity">>>>,
                          <<"parent", <<"parent_invariant">>>> >>,
     listGroupsReq |-> <<NoToken, <<"level", <<"malformed_entity">>>> >>,
     listMemberGroupReq |-> <<NoToken, <<"ids", <<"malformed_entity">>>> >>,
     memberGroupReq |-> <<NoToken, <<"ids", <<"malformed_entity">>>> >>,
     groupReq |-> <<NoToken, <<"id", <<"malformed_entity">>>> >>]

GroupEndpoints ==
    LET Of(req, call, failed, res) ==
            Wrapping(req, <<"malformed_entity">>, call, failed, res)
    IN  [CreateGroupEndpoint |-> Wrapping("createGroupReq", <<>>, "CreateGroup",
                                          <<"failed_to_create_group">>, "groupRes_created"),
         ViewGroupEndpoint |-> Of("groupReq", "ViewGroup", <<"failed_to_fetch">>, "viewGroupRes"),
         UpdateGroupEndpoint |-> Of("updateGroupReq", "UpdateGroup", <<"failed_to_update">>, "groupRes"),
         DeleteGroupEndpoint |-> Of("groupReq", "RemoveGroup", <<"failed_to_delete_group">>, "groupDeleteRes"),
         ListGroupsEndpoint |-> Of("listGroupsReq", "ListGroups", <<"failed_to_fetch">>, "groupPageRes"),
         ListMembership |-> Endpoint("listMemberGroupReq", "ListMemberships", "groupPageRes")]

MemberEndpoints ==
    LET Of(req, call, failed, res) ==
            Wrapping(req, <<"malformed_entity">>, call, failed, res)
    IN  [ListGroupChildrenEndpoint |-> Of("listGroupsReq", "ListChildren", <<"failed_to_fetch">>, "groupPageRes"),
         ListGroupParentsEndpoint |-> Of("listGroupsReq", "ListParents", <<"failed_to_fetch">>, "groupPageRes"),
         AssignEndpoint |-> Of("memberGroupReq", "Assign", <<"failed_to_assign">>, "assignMemberToGroupRes"),
         UnassignEndpoint |-> Of("memberGroupReq", "Unassign", <<"failed_to_unassign">>, "removeMemberFromGroupRes"),
         ListMembersEndpoint |-> Of("listMemberGroupReq", "ListMembers", <<>>, "memberPageRes")]

Responses ==
    [memberPageRes |-> 200, viewGroupRes |-> 200, groupRes_created |-> 201,
     groupRes |-> 200, groupPageRes |-> 200, groupDeleteRes |-> 204,
     assignMemberToGroupRes |-> 204, removeMemberFromGroupRes |-> 204]
============================================================================

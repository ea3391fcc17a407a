----------------------------- MODULE ThingsApi -----------------------------
(***************************************************************************)
(* The HTTP API of the things service (things/api/things/http), what its   *)
(* endpoints expect of things/service.go, and how its errors are answered. *)
(* A route is <<method, path, endpoint, decoder>>, with "*" for a          *)
(* parameter in the path.                                                  *)
(***************************************************************************)
EXTENDS ApiErrors
G == INSTANCE GroupsApi

ThingRoutes ==
    {<<"POST", <<"things">>, "createThing", "decodeThingCreation">>,
     <<"POST", <<"things", "bulk">>, "createThings", "decodeThingsCreation">>,
     <<"PATCH", <<"things", "*", "key">>, "updateKey", "decodeKeyUpdate">>,
     <<"PUT", <<"things", "*">>, "updateThing", "decodeThingUpdate">>,
     <<"DELETE", <<"things", "*">>, "removeThing", "decodeView">>,
     <<"GET", <<"things", "*">>, "viewThing", "decodeView">>,
     <<"GET", <<"things", "*", "channels">>, "listChannelsByThing", "decodeListByConnection">>,
     <<"GET", <<"things">>, "listThings", "decodeList">>}

ChannelRoutes ==
    {<<"POST", <<"channels">>, "createChannel", "decodeChannelCreation">>,
     <<"POST", <<"channels", "bulk">>, "createChannels", "decodeChannelsCreation">>,
     <<"PUT", <<"channels", "*">>, "updateChannel", "decodeChannelUpdate">>,
     <<"DELETE", <<"channels", "*">>, "removeChannel", "decodeView">>,
     <<"GET", <<"channels", "*">>, "viewChannel", "decodeView">>,
     <<"GET", <<"channels", "*", "things">>, "listThingsByChannel", "decodeListByConnection">>,
     <<"GET", <<"channels">>, "listChannels", "decodeList">>,
     <<"PUT", <<"channels", "*", "things", "*">>, "connect", "decodeConnection">>,
     <<"POST", <<"connect">>, "createConnections", "decodeCreateConnections">>,
     <<"DELETE", <<"channels", "*", "things", "*">>, "disconnect", "decodeConnection">>}

GroupRoutes ==
    {<<"GET", <<"things", "*", "groups">>, "ListMembership", "DecodeListMemberGroupRequest">>,
     <<"POST", <<"groups">>, "CreateGroupEndpoint", "DecodeGroupCreate">>,
     <<"GET", <<"groups">>, "ListGroupsEndpoint", "DecodeListGroupsRequest">>,
     <<"DELETE", <<"groups", "*">>, "DeleteGroupEndpoint", "DecodeGroupRequest">>,
     <<"PUT", <<"groups", "*", "things", "*">>, "AssignEndpoint", "DecodeMemberGroupRequest">>,
     <<"DELETE", <<"groups", "*", "things", "*">>, "UnassignEndpoint", "DecodeMemberGroupRequest">>,
     <<"GET", <<"groups", "*", "things">>, "ListMembersEndpoint", "DecodeListMemberGroupRequest">>,
     <<"PUT", <<"groups", "*">>, "UpdateGroupEndpoint", "DecodeGroupUpdate">>,
     <<"GET", <<"groups", "*", "children">>, "ListGroupChildrenEndpoint", "DecodeListGroupsRequest">>,
     <<"GET", <<"groups", "*", "parents">>, "ListGroupParentsEndpoint", "DecodeListGroupsRequest">>,
     <<"GET", <<"groups", "*">>, "ViewGroupEndpoint", "DecodeGroupRequest">>}

Routes == ThingRoutes \cup ChannelRoutes \cup GroupRoutes

BodyDecoders ==
    LET body == ContentType("unsupported_content_type") \o Json(<<"malformed_specification">>)
    IN  [decodeThingCreation |-> body, decodeThingsCreation |-> body,
         decodeThingUpdate |-> body, decodeKeyUpdate |-> body,
         decodeChannelCreation |-> body, decodeChannelsCreation |-> body,
         decodeChannelUpdate |-> body, decodeCreateConnections |-> body]

ReadDecoders ==
    LET query == << <<"query", <<"invalid_query">>>> >>
    IN  [decodeView |-> <<>>, decodeConnection |-> <<>>,
         decodeList |-> query, decodeListByConnection |-> query]

Decoders == BodyDecoders @@ ReadDecoders @@ G!ListDecoders @@ G!GroupDecoders

NoToken == <<"token", <<"credentials">>>>
Bad(field) == <<field, <<"malformed_specification">>>>
WriteRequests ==
    [createThingReq |-> <<NoToken, Bad("name")>>,
     createThingsReq |-> <<NoToken, Bad("no_things"), Bad("name")>>,
     updateThingReq |-> <<NoToken, Bad("id"), Bad("name")>>,
     updateKeyReq |-> <<NoToken, Bad("id"), Bad("key")>>,
     createChannelReq |-> <<NoToken, Bad("name")>>,
     createChannelsReq |-> <<NoToken, Bad("no_channels"), Bad("name")>>,
     updateChannelReq |-> <<NoToken, Bad("id"), Bad("name")>>]

ReadRequests ==
    [viewResourceReq |-> <<NoToken, Bad("id")>>,
     listResourcesReq |-> <<NoToken, Bad("limit"), Bad("name"), Bad("order"), Bad("dir")>>,
     listByConnectionReq |-> <<NoToken, Bad("id"), Bad("limit")>>,
     connectionReq |-> <<NoToken, Bad("id")>>,
     createConnectionsReq |-> <<NoToken, Bad("no_ids"), Bad("id")>>]

Requests == WriteRequests @@ ReadRequests @@ G!Requests

(* The endpoints removing a thing or a channel answer a validation error   *)
(* ErrNotFound with success, but validate returns no such error.           *)
ThingEndpoints ==
    [createThing |-> Endpoint("createThingReq", "CreateThings", "thingRes_created"),
     createThings |-> Endpoint("createThingsReq", "CreateThings", "thingsRes_created"),
     updateThing |-> Endpoint("updateThingReq", "UpdateThing", "thingRes"),
     updateKey |-> Endpoint("updateKeyReq", "UpdateKey", "thingRes"),
     viewThing |-> Endpoint("viewResourceReq", "ViewThing", "viewThingRes")]
ThingListEndpoints ==
    [listThings |-> Endpoint("listResourcesReq", "ListThings", "thingsPageRes"),
     listThingsByChannel |-> Endpoint("listByConnectionReq", "ListThingsByChannel", "thingsPageRes"),
     removeThing |-> Endpoint("viewResourceReq", "RemoveThing", "removeRes")]
ChannelEndpoints ==
    [createChannel |-> Endpoint("createChannelReq", "CreateChannels", "channelRes_created"),
     createChannels |-> Endpoint("createChannelsReq", "CreateChannels", "channelsRes_created"),
     updateChannel |-> Endpoint("updateChannelReq", "UpdateChannel", "channelRes"),
     viewChannel |-> Endpoint("viewResourceReq", "ViewChannel", "viewChannelRes"),
     listChannels |-> Endpoint("listResourcesReq", "ListChannels", "channelsPageRes")]
ConnectionEndpoints ==
    [listChannelsByThing |-> Endpoint("listByConnectionReq", "ListChannelsByThing", "channelsPageRes"),
     removeChannel |-> Endpoint("viewResourceReq", "RemoveChannel", "removeRes"),
     connect |-> Endpoint("connectionReq", "Connect", "connectionRes"),
     createConnections |-> Endpoint("createConnectionsReq", "Connect", "createConnectionsRes"),
     disconnect |-> Endpoint("connectionReq", "Disconnect", "disconnectionRes")]

Endpoints ==
    ThingEndpoints @@ ThingListEndpoints @@ ChannelEndpoints @@ ConnectionEndpoints
        @@ G!GroupEndpoints @@ G!MemberEndpoints

ThingResponses ==
    [removeRes |-> 204, thingRes_created |-> 201, thingRes |-> 200,
     thingsRes_created |-> 201, viewThingRes |-> 200, thingsPageRes |-> 200]
ChannelResponses ==
    [channelRes_created |-> 201, channelRes |-> 200, channelsRes_created |-> 201,
     viewChannelRes |-> 200, channelsPageRes |-> 200, connectionRes |-> 200,
     createConnectionsRes |-> 200, disconnectionRes |-> 204]
Responses == ThingResponses @@ ChannelResponses @@ G!Responses

Identified(fails) == Method("auth", <<"credentials">>, fails)
Malformed == <<"malformed", <<"malformed_specification", "db">>>>
Missing == <<"missing", <<"non-existent_entity">>>>
Conflict == <<"conflict", <<"already_exists">>>>

ThingMethods ==
    [CreateThings |-> Identified({Malformed, Conflict, Failure("create_failed"),
                                      <<"failure", <<"uuid_creation_failed", "rand">>>>}),
     UpdateThing |-> Identified({Malformed, Missing, Failure("update_failed")}),
     UpdateKey |-> Identified({Malformed, Missing, Conflict, Failure("update_failed")}),
     ViewThing |-> Identified({Missing, Failure("select_error")}),
     ListThings |-> Unchecked(Identified({Failure("select_error"), Failure("view_failed")})),
     ListThingsByChannel |-> Unchecked(Identified({Missing, Failure("select_error"), Failure("view_failed")})),
     RemoveThing |-> Identified({Failure("remove_failed")})]

(* channels.Remove drops the error of its DELETE and answers nil; only the *)
(* cache, asked before, has an error to return.  No list asks rows.Err: a  *)
(* page cut short by the database is answered like a whole one.            *)
ChannelMethods ==
    [CreateChannels |-> Identified({Malformed, Conflict, Failure("create_failed"),
                                        <<"failure", <<"uuid_creation_failed", "rand">>>>}),
     UpdateChannel |-> Identified({Malformed, Missing, Failure("update_failed")}),
     ViewChannel |-> Identified({Missing, Failure("select_error")}),
     ListChannels |-> Unchecked(Identified({Failure("select_error")})),
     ListChannelsByThing |-> Unchecked(Identified({Missing, Failure("select_error")})),
     RemoveChannel |-> Unchecked(Identified({Failure("remove_failed")})),
     Connect |-> Identified({Missing, Conflict, Failure("connect_failed")}),
     Disconnect |-> Identified({Missing, Failure("disconnect_failed")})]

GroupMethods ==
    [CreateGroup |-> Identified({<<"malformed", <<"malformed_entity", "db">>>>,
                                     <<"conflict", <<"group_exists", "db">>>>,
                                     <<"missing", <<Raw, "no_rows">>>>,
                                     Failure("failed_to_create_group")}),
     ListGroups |-> Unchecked(Identified({Failure("select_group_error")})),
     ListParents |-> Unchecked(Identified({Failure("select_group_error")})),
     ListChildren |-> Unchecked(Identified({Failure("select_group_error")})),
     ListMembers |-> Unchecked(Identified({<<"failure", <<"retrieve_members", "select_group_error", "db">>>>})),
     RemoveGroup |-> Identified({<<"missing", <<"failed_to_delete_group">>>>, Failure("delete_group_failed")}),
     Unassign |-> Identified({<<"malformed", <<"group_not_found", "uuid">>>>, Failure("group_exists")})]

MemberMethods ==
    [UpdateGroup |-> Identified({Failure("update_db_failed")}),
     ViewGroup |-> Identified({<<"missing", <<"group_not_found", "db">>>>, Failure("retrieve_failed")}),
     Assign |-> Identified({<<"malformed", <<"malformed_entity", "db">>>>,
                                <<"conflict", <<"group_exists", "db">>>>,
                                <<"missing", <<"group_not_found", "db">>>>,
                                Failure("failed_to_assign")}),
     ListMemberships |-> Unchecked(Identified({Failure("select_group_error")}))]

Service == ThingMethods @@ ChannelMethods @@ GroupMethods @@ MemberMethods

ErrorCodes ==
    << <<{"credentials", "check_connection"}, 401>>,
       <<{"invalid_query"}, 400>>,
       <<{"unsupported_content_type"}, 415>>,
       <<{"malformed_specification"}, 400>>,
       <<{"non-existent_entity"}, 404>>,
       <<{"already_exists"}, 409>>,
       <<{"scan_metadata", "select_error"}, 422>>,
       <<{"create_failed", "update_failed", "view_failed", "remove_failed",
          "connect_failed", "disconnect_failed", "failed_to_create_group"}, 400>>,
       <<{"unexpected_EOF", "EOF"}, 400>>,
       <<{"uuid_creation_failed"}, 500>> >>

(* Mutants: the switch compares the error itself; removing what is not     *)
(* there is a success.                                                     *)
EncodeErrorOutermost(err) == FirstCode(ErrorCodes, LAMBDA m : err = <<m>>)
EncodeErrorGone(err) ==
    IF Contains(err, "non-existent_entity") THEN 204
    ELSE FirstCode(ErrorCodes, LAMBDA m : err[1] # Raw /\ Contains(err, m))

EncodeError(err) == FirstCode(ErrorCodes, LAMBDA m : err[1] # Raw /\ Contains(err, m))
============================================================================

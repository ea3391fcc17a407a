--------------------------------- MODULE Sdk ---------------------------------
(***************************************************************************)
(* The Go SDK (pkg/sdk/go): for every function the request it sends, the   *)
(* codes it takes for success, and the operation of the service it is for. *)
(* The prefixes of the URLs are the ones each service is deployed under.   *)
(***************************************************************************)
EXTENDS ApiErrors

(* Mutant: every code 2xx is a success.                                    *)
SentAnySuccess(service, method, path, want, for) ==
    [service |-> service, method |-> method, path |-> path,
     want |-> {200, 201, 202, 204}, for |-> for]

(* sendRequest sets the content type, and the token when there is one.     *)
Sent(service, method, path, want, for) ==
    [service |-> service, method |-> method, path |-> path, want |-> want, for |-> for]

ThingFunctions ==
    [CreateThing |-> Sent("things", "POST", <<"things">>, {201}, "CreateThings"),
     CreateThings |-> Sent("things", "POST", <<"things", "bulk">>, {201}, "CreateThings"),
     Things |-> Sent("things", "GET", <<"things">>, {200}, "ListThings"),
     ThingsByChannel |-> Sent("things", "GET", <<"channels", "*", "things">>, {200}, "ListThingsByChannel")]
ThingWriteFunctions ==
    [Thing |-> Sent("things", "GET", <<"things", "*">>, {200}, "ViewThing"),
     UpdateThing |-> Sent("things", "PUT", <<"things", "*">>, {200}, "UpdateThing"),
     DeleteThing |-> Sent("things", "DELETE", <<"things", "*">>, {204}, "RemoveThing"),
     Connect |-> Sent("things", "POST", <<"connect">>, {200}, "Connect"),
     DisconnectThing |-> Sent("things", "DELETE", <<"channels", "*", "things", "*">>, {204}, "Disconnect")]

ChannelFunctions ==
    [CreateChannel |-> Sent("things", "POST", <<"channels">>, {201}, "CreateChannels"),
     CreateChannels |-> Sent("things", "POST", <<"channels", "bulk">>, {201}, "CreateChannels"),
     Channels |-> Sent("things", "GET", <<"channels">>, {200}, "ListChannels"),
     ChannelsByThing |-> Sent("things", "GET", <<"things", "*", "channels">>, {200}, "ListChannelsByThing")]
ChannelWriteFunctions ==
    [Channel |-> Sent("things", "GET", <<"channels", "*">>, {200}, "ViewChannel"),
     UpdateChannel |-> Sent("things", "PUT", <<"channels", "*">>, {200}, "UpdateChannel"),
     DeleteChannel |-> Sent("things", "DELETE", <<"channels", "*">>, {204}, "RemoveChannel")]

GroupFunctions ==
    [CreateGroup |-> Sent("users", "POST", <<"groups">>, {201}, "CreateGroup"),
     DeleteGroup |-> Sent("users", "DELETE", <<"groups", "*">>, {204}, "RemoveGroup"),
     Assign |-> Sent("users", "PUT", <<"groups", "*", "users", "*">>, {204}, "Assign"),
     Unassign |-> Sent("users", "DELETE", <<"groups", "*", "users", "*">>, {204}, "Unassign"),
     Members |-> Sent("users", "GET", <<"groups", "*", "users">>, {200}, "ListMembers")]
(* Groups has two requests; the users service knows PATCH, not PUT, for    *)
(* what UpdateGroup asks.                                                  *)
GroupViewFunctions ==
    [Groups |-> Sent("users", "GET", <<"groups">>, {200}, "ListGroups"),
     GroupsOf |-> Sent("users", "GET", <<"groups", "*", "groups">>, {200}, "ListGroups"),
     Group |-> Sent("users", "GET", <<"groups", "*">>, {200}, "ViewGroup"),
     UpdateGroup |-> Sent("users", "PUT", <<"groups", "*">>, {200}, "UpdateGroup")]

(* User is to return the user of the token, but asks for the list.         *)
UserFunctions ==
    [CreateUser |-> Sent("users", "POST", <<"users">>, {201}, "Register"),
     User |-> Sent("users", "GET", <<"users">>, {200}, "ViewProfile"),
     CreateToken |-> Sent("users", "POST", <<"tokens">>, {201}, "Login"),
     UpdateUser |-> Sent("users", "PUT", <<"users">>, {200}, "UpdateUser"),
     UpdatePassword |-> Sent("users", "PATCH", <<"password">>, {201}, "ChangePassword"),
     Memberships |-> Sent("users", "GET", <<"users", "*", "groups">>, {200}, "ListMemberships")]

BootstrapFunctions ==
    [AddBootstrap |-> Sent("bootstrap", "POST", <<"things", "configs">>, {200, 201}, "Add"),
     Whitelist |-> Sent("bootstrap", "PUT", <<"things", "state", "*">>, {200, 201}, "ChangeState"),
     ViewBootstrap |-> Sent("bootstrap", "GET", <<"things", "configs", "*">>, {200}, "View")]
BootstrapWriteFunctions ==
    [UpdateBootstrap |-> Sent("bootstrap", "PUT", <<"things", "configs", "*">>, {200}, "Update"),
     UpdateBootstrapCerts |-> Sent("bootstrap", "PATCH", <<"things", "configs", "certs", "*">>, {200}, "UpdateCert"),
     RemoveBootstrap |-> Sent("bootstrap", "DELETE", <<"things", "configs", "*">>, {204}, "Remove"),
     Bootstrap |-> Sent("bootstrap", "GET", <<"things", "bootstrap", "*">>, {200}, "Bootstrap")]

(* RemoveCert names the certificate right after the service's URL;         *)
(* RevokeCert is not implemented and panics before it sends anything.      *)
CertFunctions ==
    [IssueCert |-> Sent("certs", "POST", <<"certs">>, {200}, "IssueCert"),
     RemoveCert |-> Sent("certs", "DELETE", <<"*">>, {204}, "RevokeCert")]
MessageFunctions ==
    [SendMessage |-> Sent("http", "POST", <<"channels", "*", "messages">>, {202}, "Publish"),
     SendMessageOn |-> Sent("http", "POST", <<"channels", "*", "messages", "*">>, {202}, "Publish"),
     ReadMessages |-> Sent("readers", "GET", <<"channels", "*", "messages">>, {200}, "ReadAll")]

Functions ==
    ThingFunctions @@ ThingWriteFunctions @@ ChannelFunctions @@ ChannelWriteFunctions
        @@ GroupFunctions @@ GroupViewFunctions @@ UserFunctions
        @@ BootstrapFunctions @@ BootstrapWriteFunctions @@ CertFunctions @@ MessageFunctions
==============================================================================

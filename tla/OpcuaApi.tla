------------------------------- MODULE OpcuaApi -------------------------------
(***************************************************************************)
(* The HTTP API of the OPC-UA adapter (opcua/api): browsing a server.      *)
(***************************************************************************)
EXTENDS ApiErrors

Routes == {<<"GET", <<"browse">>, "browse", "decodeBrowse">>}
Decoders == [decodeBrowse |-> << <<"query", <<Raw, "invalid_query">>>> >>]
Requests == [browseReq |-> << <<"server", <<Raw, "malformed_specification">>>> >>]
Endpoints == [browse |-> Endpoint("browseReq", "Browse", "browseRes")]
Responses == [browseRes |-> 200]

Service == [Browse |-> Method("none", <<>>, {<<"failure", <<"browse_failed", "opcua">>>>})]

ErrorCodes == << <<{"malformed_specification"}, 400>>, <<{"invalid_query"}, 400>> >>
EncodeError(err) == FirstCode(ErrorCodes, LAMBDA m : err = <<Raw, m>>)
===============================================================================

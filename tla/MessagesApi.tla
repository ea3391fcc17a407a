----------------------------- MODULE MessagesApi -----------------------------
(***************************************************************************)
(* The HTTP adapter (http/api, http/adapter.go): a thing sends a message   *)
(* with its key.                                                           *)
(***************************************************************************)
EXTENDS ApiErrors

Routes ==
    {<<"POST", <<"channels", "*", "messages">>, "sendMessage", "decodeRequest">>,
     <<"POST", <<"channels", "*", "messages", "*">>, "sendMessage", "decodeRequest">>}

(* The URI must have the form of a channel's, the subtopic be one NATS can *)
(* take; the body is read as it is.                                        *)
parseSubtopic == << <<"subtopic", <<Raw, "malformed_subtopic">>>> >>
Decoders ==
    [decodeRequest |-> << <<"id", <<Raw, "malformed_data">>>> >>
                           \o parseSubtopic \o << <<"body", <<Raw, "malformed_data">>>> >>]

Requests == [publishReq |-> <<>>]
Endpoints == [sendMessage |-> Endpoint("publishReq", "Publish", "accepted")]
Responses == [accepted |-> 202]

Service == [Publish |-> Method("things", <<>>, {<<"failure", <<Raw, "nats">>>>})]

ErrorCodes ==
    << <<{"malformed_data", "malformed_subtopic"}, 400>>,
       <<{"PermissionDenied"}, 403>>,
       <<{"InvalidArgument", "NotFound", "Internal", "Unavailable", "DeadlineExceeded"}, 503>> >>

EncodeError(err) == FirstCode(ErrorCodes, LAMBDA m : err = <<Raw, m>>)
==============================================================================

------------------------------ MODULE ReadersApi ------------------------------
(***************************************************************************)
(* The HTTP API of the readers (readers/api): a thing reads the messages   *)
(* of a channel with its key.                                              *)
(***************************************************************************)
EXTENDS ApiErrors

Routes == {<<"GET", <<"channels", "*", "messages">>, "listMessages", "decodeList">>}

(* decodeList asks the things service before it reads the query; what      *)
(* comes after that is part of ReadAll here.                               *)
Decoders ==
    [decodeList |-> << <<"id", <<"invalid_request">>>>, <<"token", <<"credentials">>>> >>]
Requests == [listMessagesReq |-> <<>>]
Endpoints == [listMessages |-> Endpoint("listMessagesReq", "ReadAll", "pageRes")]
Responses == [pageRes |-> 200]

getQuery == << <<"query", <<"invalid_request">>>> >>
validate == << <<"limit", <<"invalid_request">>>> >>

(* authorize passes every status on but PermissionDenied.  No reader asks  *)
(* for the error that ended its rows early.                                *)
authorize(fails) == [Method("things", <<>>, fails) EXCEPT !.then = getQuery \o validate]
Service == [ReadAll |-> Unchecked(authorize({Failure("read_messages")}))]

ErrorCodes ==
    << <<{"invalid_request"}, 400>>,
       <<{"credentials", "PermissionDenied"}, 403>> >>

(* A status other than PermissionDenied is no error of the package.        *)
EncodeError(err) ==
    FirstCode(ErrorCodes, LAMBDA m : (err[1] # Raw /\ Contains(err, m)) \/ err = <<Raw, m>>)
===============================================================================

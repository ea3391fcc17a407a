----------------------------- MODULE MCMessaging -----------------------------
(* Messaging for TLC: no subtopic, one with an empty element, one that is   *)
(* malformed, and one that names the table of SenML messages; each payload  *)
(* under one of them, some payload under each, and every protocol.          *)
EXTENDS Messaging

MCSubtopics == {<<>>, <<"", "a">>, <<"a*">>, <<"messages">>}

MCRequests ==
    {[protocol |-> "http", raw |-> <<"", "a">>, payload |-> pl] : pl \in Payloads} \cup
    {[protocol |-> "mqtt", raw |-> raw, payload |-> "pack"] : raw \in {<<"a*">>, <<"messages">>}} \cup
    {[protocol |-> "coap", raw |-> <<>>, payload |-> "object"]}
==============================================================================

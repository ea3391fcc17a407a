----------------------------- MODULE ApiErrors -----------------------------
(***************************************************************************)
(* What the HTTP APIs of all services share: errors (pkg/errors/errors.go) *)
(* and the checks a request passes.                                        *)
(*                                                                         *)
(* An error is the sequence of the messages of its layers, outermost       *)
(* first; <<>> is nil.  An error that is no errors.Error of this package   *)
(* (the one of a JSON decoder, a gRPC status) has the first layer Raw.     *)
(*                                                                         *)
(* A check is <<what is wrong, the error returned>>; a decoder or the      *)
(* validate method of a request is a sequence of checks.                   *)
(***************************************************************************)
EXTENDS Naturals, Sequences

(* Tables are merged like TLC's @@ does it; this is a definition the       *)
(* proofs can expand.                                                      *)
f @@ g == [x \in DOMAIN f \cup DOMAIN g |-> IF x \in DOMAIN f THEN f[x] ELSE g[x]]

Raw == "raw"

(* errors.Contains compares messages, layer by layer.                      *)
Contains(err, msg) == \E i \in 1..Len(err) : err[i] = msg

(* errors.Wrap, for a layer put around an error that is not nil; the raw   *)
(* error becomes one of the package's.                                     *)
Wrap(msgs, err) ==
    IF msgs = <<>> THEN err ELSE msgs \o (IF err[1] = Raw THEN Tail(err) ELSE err)

First(S) == CHOOSE i \in S : \A j \in S : i <= j

(* The error of the first check the request fails, or nil.                 *)
FirstError(checks, flaws) ==
    LET failed == {i \in 1..Len(checks) : checks[i][1] \in flaws}
    IN  IF failed = {} THEN <<>> ELSE checks[First(failed)][2]

Flaws(checks) == {checks[i][1] : i \in 1..Len(checks)}

(* The code of the first case of encodeError that has a matching message.  *)
FirstCode(cases, Matches(_)) ==
    LET hits == {i \in 1..Len(cases) : \E m \in cases[i][1] : Matches(m)}
    IN  IF hits = {} THEN 500 ELSE cases[First(hits)][2]

(* json.NewDecoder(r.Body).Decode: an empty body, one that ends too early, *)
(* one that is no JSON; the error inside the layers given.                 *)
Json(layers) ==
    << <<"empty_body", Wrap(layers, <<Raw, "EOF">>)>>,
       <<"cut_body", Wrap(layers, <<Raw, "unexpected_EOF">>)>>,
       <<"not_JSON", Wrap(layers, <<Raw, "invalid_JSON">>)>> >>

BodyFlaws == {"empty_body", "cut_body", "not_JSON"}
ContentType(msg) == << <<"content_type", <<msg>>>> >>

(* An endpoint: the request it validates and the layers put around that    *)
(* error, the method of the service it calls and the layers put around     *)
(* that error, the response.  A masking endpoint answers an error of the   *)
(* service with a response too, one that tells it in its body.             *)
Wrapping(req, invalid, call, failed, res) ==
    [req |-> req, invalid |-> invalid, call |-> call, failed |-> failed, res |-> res,
     masked |-> FALSE]
Endpoint(req, call, res) == Wrapping(req, <<>>, call, <<>>, res)
Masking(req, call, res) == [Endpoint(req, call, res) EXCEPT !.masked = TRUE]

(* A method of a service: what it checks before anything else; how it      *)
(* identifies the caller ("none" when it does not), the layers it puts     *)
(* around that error and whether the cause stays inside; what it checks    *)
(* once the caller is known; whether it can succeed at all, and what else  *)
(* goes wrong, each reason with its error; whether it may succeed although *)
(* it failed, because it drops an error of its database.                   *)
Method(by, layers, fails) ==
    [checks |-> <<>>, by |-> by, layers |-> layers, keeps |-> TRUE,
     then |-> <<>>, works |-> TRUE, fails |-> fails, drops |-> FALSE]
Unchecked(method) == [method EXCEPT !.drops = TRUE]

(* The failure of a later step: some or all of the work of the method was  *)
(* done before it, and stays.                                              *)
Part(err) == <<"part", err>>
Failure(msg) == <<"failure", <<msg, "db">>>>
============================================================================

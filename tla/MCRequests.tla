----------------------------- MODULE MCRequests -----------------------------
(* Requests to the LLM router: one that is cheaper on each target, a routing *)
(* question, a private one, and the two baseline modes.                      *)
EXTENDS LlmRouter

\* Cheap for the edge, cheap for the server.
RequestOf(url, hidden, chosen, tokens) ==
  [path |-> url, private |-> hidden, mode |-> chosen, expected_output_tokens |-> tokens,
   network_latency_ms |-> 500, priority |-> Full]
ShortRequest   == RequestOf("/infer", FALSE, "routeedge", 16)
LongRequest    == RequestOf("/infer", FALSE, "routeedge", 256)
RouteRequest   == RequestOf("/route", FALSE, "routeedge", 256)
PrivateRequest == RequestOf("/infer", TRUE, "routeedge", 256)
EdgeRequest    == RequestOf("/infer", FALSE, "always_edge", 256)
ServerRequest  == RequestOf("/infer", TRUE, "always_server", 16)
AllRequests == {ShortRequest, LongRequest, RouteRequest, PrivateRequest, EdgeRequest,
                ServerRequest}
=============================================================================

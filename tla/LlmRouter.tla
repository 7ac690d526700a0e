----------------------------- MODULE LlmRouter ------------------------------
(***************************************************************************)
(* The HTTP service of router/router.py: /route and /infer, each request   *)
(* handled by a thread of its own, in front of two Ollama endpoints whose  *)
(* state may change between any two steps of a request.                    *)
(*                                                                         *)
(* choose_target takes the baseline modes and the privacy constraint       *)
(* first; only then does it ask the edge and, after that, the server       *)
(* whether they are available.  run_inference posts the prompt once.       *)
(***************************************************************************)
EXTENDS LlmCosts, FiniteSets

CONSTANTS Jobs,       \* requests the service receives
          Requests    \* the InferenceRequests they can be

Modes == {"routeedge", "always_edge", "always_server"}

InferenceRequest ==
  [path : {"/route", "/infer"}, private : BOOLEAN, mode : Modes,
   expected_output_tokens : 1..MAX_OUTPUT_TOKENS,
   network_latency_ms : 0..MaxNetworkLatencyMs, priority : 0..Full]

ASSUME RequestsAssumption == Requests \subseteq InferenceRequest

VARIABLES endpoint,      \* per target, what it does with a connection
          phase,         \* per job, where its thread is
          request,       \* per job
          edge_online,   \* per job, what the first health check returned
          target,        \* per job, the decision's target
          status,        \* per job, the HTTP status of the reply, 0 before it
          received       \* history: per job, the targets its prompt may have reached
routerVars == <<endpoint, phase, request, edge_online, target, status, received>>
jobVars == <<phase, request, edge_online, target, status, received>>

\* up: answers; failing: answers 5xx; garbled: answers 200 with a body that is no JSON;
\* silent: accepts or drops, and never answers; down: refuses or resets.
EndpointStates == {"up", "failing", "garbled", "silent", "down"}

NoTarget == "none"
NoRequest == [path |-> "none"]

Init ==
  /\ endpoint \in [Targets -> EndpointStates]
  /\ phase = [j \in Jobs |-> "idle"]
  /\ request = [j \in Jobs |-> NoRequest]
  /\ edge_online = [j \in Jobs |-> FALSE]
  /\ target = [j \in Jobs |-> NoTarget]
  /\ status = [j \in Jobs |-> 0]
  /\ received = [j \in Jobs |-> {}]

-----------------------------------------------------------------------------
(* choose_target.                                                          *)

\* /route replies with the decision, /infer goes on to run it.
DecideAnd(j, r, where) ==
  /\ target' = [target EXCEPT ![j] = where]
  /\ IF r.path = "/route"
     THEN /\ phase' = [phase EXCEPT ![j] = "done"]
          /\ status' = [status EXCEPT ![j] = 200]
     ELSE phase' = [phase EXCEPT ![j] = "post"] /\ UNCHANGED status

Fail(j, code) ==
  /\ phase' = [phase EXCEPT ![j] = "done"]
  /\ status' = [status EXCEPT ![j] = code]

\* Faulty: the privacy constraint checked after the availability; a private request
\* given the name the other router of the repository has for its own device.
ForcedModesOnly(r) ==
  IF r.mode = "always_edge" THEN "edge"
  ELSE IF r.mode = "always_server" THEN "server"
  ELSE NoTarget

ForcedLocal(r) ==
  IF r.mode = "always_edge" THEN "edge"
  ELSE IF r.mode = "always_server" THEN "server"
  ELSE IF r.private THEN "local"
  ELSE NoTarget

\* The target of a request for which availability and cost are not looked at.
Forced(r) ==
  IF r.mode = "always_edge" THEN "edge"
  ELSE IF r.mode = "always_server" THEN "server"
  ELSE IF r.private THEN "edge"
  ELSE NoTarget

Receive(j, r) ==
  /\ phase[j] = "idle"
  /\ request' = [request EXCEPT ![j] = r]
  /\ IF Forced(r) # NoTarget
     THEN DecideAnd(j, r, Forced(r))
     ELSE phase' = [phase EXCEPT ![j] = "check_edge"] /\ UNCHANGED <<target, status>>
  /\ UNCHANGED <<endpoint, edge_online, received>>

\* endpoint_available: GET /api/tags within 2 s, response.ok.
Available(t) == endpoint[t] \in {"up", "garbled"}

CheckEdge(j) ==
  /\ phase[j] = "check_edge"
  /\ edge_online' = [edge_online EXCEPT ![j] = Available("edge")]
  /\ phase' = [phase EXCEPT ![j] = "check_server"]
  /\ UNCHANGED <<endpoint, request, target, status, received>>

\* Faulty: the answer of the second check taken for both.
OnlineServerOnly(j) == IF Available("server") THEN Targets ELSE {}

\* What the two checks of the job say, the first one possibly outdated.
Online(j) ==
  {t \in Targets : IF t = "edge" THEN edge_online[j] ELSE Available(t)}

CheapestOf(r) ==
  Preferred(r.expected_output_tokens, r.network_latency_ms, r.priority)

CheckServer(j) ==
  /\ phase[j] = "check_server"
  /\ \/ Online(j) = {} /\ Fail(j, 503) /\ UNCHANGED target
     \/ \E t \in Online(j) :
          /\ Online(j) = {t} \/ t = CheapestOf(request[j])
          /\ DecideAnd(j, request[j], t)
  /\ UNCHANGED <<endpoint, request, edge_online, received>>

-----------------------------------------------------------------------------
(* run_inference.                                                          *)

\* The connection: refused by a target that is down.
Post(j) ==
  /\ phase[j] = "post"
  /\ IF endpoint[target[j]] = "down"
     THEN Fail(j, 503) /\ UNCHANGED received
     ELSE /\ received' = [received EXCEPT ![j] = @ \cup {target[j]}]
          /\ phase' = [phase EXCEPT ![j] = "wait"]
          /\ UNCHANGED status
  /\ UNCHANGED <<endpoint, request, edge_online, target>>

\* The answer.  200 with a body that is no JSON raises outside the try block, which
\* the framework reports as 500; a connection lost in the middle of the body is a
\* RequestException that is no ConnectionError.
Statuses(state) ==
  CASE state = "up"      -> {200}
    [] state = "garbled" -> {500}
    [] state = "failing" -> {502}
    [] state = "silent"  -> {504}
    [] state = "down"    -> {502, 503}

\* Faulty: a failure is retried on the other target; no timeout on the post.
AnswerRetries(j) ==
  /\ phase[j] = "wait"
  /\ \E code \in Statuses(endpoint[target[j]]) :
       IF code = 200 \/ Cardinality(received[j]) = 2
       THEN Fail(j, code) /\ UNCHANGED target
       ELSE /\ phase' = [phase EXCEPT ![j] = "post"]
            /\ \E t \in Targets \ received[j] : target' = [target EXCEPT ![j] = t]
            /\ UNCHANGED status
  /\ UNCHANGED <<endpoint, request, edge_online, received>>
AnswerNoTimeout(j) ==
  /\ phase[j] = "wait"
  /\ endpoint[target[j]] # "silent"
  /\ \E code \in Statuses(endpoint[target[j]]) : Fail(j, code)
  /\ UNCHANGED <<endpoint, request, edge_online, target, received>>

Answer(j) ==
  /\ phase[j] = "wait"
  /\ \E code \in Statuses(endpoint[target[j]]) : Fail(j, code)
  /\ UNCHANGED <<endpoint, request, edge_online, target, received>>

Handle(j) == CheckEdge(j) \/ CheckServer(j) \/ Post(j) \/ Answer(j)

-----------------------------------------------------------------------------
EndpointChanges ==
  /\ \E t \in Targets, state \in EndpointStates : endpoint' = [endpoint EXCEPT ![t] = state]
  /\ UNCHANGED jobVars

Next ==
  \/ \E j \in Jobs : Handle(j) \/ \E r \in Requests : Receive(j, r)
  \/ EndpointChanges

\* Both HTTP calls have a timeout, so every started request runs to its reply.
Spec == Init /\ [][Next]_routerVars /\ \A j \in Jobs : WF_routerVars(Handle(j))

-----------------------------------------------------------------------------
\* Types of the service: every decision is one of the two targets infer() can reach,
\* every reply has one of its statuses.
RouterTypeOK ==
  /\ endpoint \in [Targets -> EndpointStates]
  /\ phase \in [Jobs -> {"idle", "check_edge", "check_server", "post", "wait", "done"}]
  /\ request \in [Jobs -> Requests \cup {NoRequest}]
  /\ edge_online \in [Jobs -> BOOLEAN]
  /\ target \in [Jobs -> Targets \cup {NoTarget}]
  /\ status \in [Jobs -> {0, 200, 500, 502, 503, 504}]
  /\ received \in [Jobs -> SUBSET Targets]

\* Whatever the endpoints do while the request is handled, a private prompt sent in
\* the adaptive mode never leaves for the server, not even when the Pi is down.
PrivatePromptsStayOnEdge ==
  \A j \in Jobs : "server" \in received[j] =>
    ~request[j].private \/ request[j].mode = "always_server"

\* Nobody is told a prompt was answered by a target it did not reach, and no prompt
\* is ever run on both targets: a failure is reported, not retried elsewhere.
AnsweredWhereItRan ==
  \A j \in Jobs :
    /\ received[j] \subseteq {target[j]}
    /\ status[j] = 200 /\ request[j].path = "/infer" => received[j] = {target[j]}

\* Every request gets its reply, however the endpoints fail or hang.
EveryRequestEnds == \A j \in Jobs : phase[j] # "idle" ~> phase[j] = "done"
=============================================================================

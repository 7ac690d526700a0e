---------------------------- MODULE MCLlmRouter -----------------------------
(***************************************************************************)
(* LlmRouter with a history variable, per job:                             *)
(*   failed   the targets that were not up at some moment since it arrived *)
(* Jobs share nothing but the two endpoints, which change at any moment.   *)
(* Next to the requests of MCRequests, routing questions that differ in    *)
(* the three arguments of the cost model.                                  *)
(***************************************************************************)
EXTENDS MCRequests

CONSTANTS TokenCounts, NetworkLatencies   \* values to ask for

ASSUME TokenCountsAssumption == TokenCounts \subseteq 1..MAX_OUTPUT_TOKENS
ASSUME NetworkLatenciesAssumption == NetworkLatencies \subseteq 0..MaxNetworkLatencyMs

Sweep ==
  [path : {"/route"}, private : {FALSE}, mode : {"routeedge"},
   expected_output_tokens : TokenCounts, network_latency_ms : NetworkLatencies,
   priority : 0..Full]

RequestsAndSweep == AllRequests \cup Sweep

VARIABLE failed
mcVars == <<routerVars, failed>>

NotUp(e) == {t \in Targets : e[t] # "up"}

MCInit == Init /\ failed = [j \in Jobs |-> {}]

\* A job watches from the state in which it arrives to the one in which it is done.
Watch ==
  failed' = [j \in Jobs |-> IF phase[j] = "done" THEN failed[j]
                            ELSE IF phase'[j] = "idle" THEN {}
                            ELSE failed[j] \cup NotUp(endpoint')]

MCNext == Next /\ Watch

MCSpec == MCInit /\ [][MCNext]_mcVars /\ \A j \in Jobs : WF_routerVars(Handle(j))

\* A request fails only if the target it was sent to was not up at some moment while
\* it was handled, and without a target only if that holds of both; it is sent away
\* from the cheaper target only if that one was not up.  The health checks are two
\* separate calls and the post a third, so all of this is decided on old news.
FailuresHaveCauses ==
  \A j \in Jobs : phase[j] = "done" =>
    /\ status[j] # 200 =>
         IF target[j] = NoTarget THEN failed[j] = Targets ELSE target[j] \in failed[j]
    /\ Forced(request[j]) = NoTarget /\ target[j] # CheapestOf(request[j]) =>
         CheapestOf(request[j]) \in failed[j]

\* The job was decided by cost alone: adaptive, not private, both endpoints up all along.
DecidedByCost(j) ==
  phase[j] = "done" /\ Forced(request[j]) = NoTarget /\ failed[j] = {}

\* router.py:117-119 "1.0 = latency only": a request decided by cost goes to the target
\* whose predicted latency is the smaller, up to the rounding of the normalisation.
LatencyOnlyIsFastest ==
  \A j \in Jobs : DecidedByCost(j) /\ request[j].priority = Full =>
    LET r == request[j]
        edge == predict_edge_latency(r.expected_output_tokens)
        server == predict_server_latency(r.expected_output_tokens, r.network_latency_ms)
    IN  target[j] = "edge" <=> edge <= server

\* "0.0 = energy proxy only": every length the request model admits then stays on the
\* Pi.  The edge uses more energy only from 323 tokens on, beyond MAX_OUTPUT_TOKENS.
EnergyOnlyStaysOnEdge ==
  \A j \in Jobs : DecidedByCost(j) /\ request[j].priority = 0 => target[j] = "edge"

\* The requests whose costs are lower on the Pi.
EdgeRequests == {r \in Requests : Forced(r) = NoTarget /\ CheapestOf(r) = "edge"}

\* A request that is decided by cost and goes to the server would still go there if it
\* were longer, the network faster or latency more important.  Normalising each pair
\* by its own maximum could break this: a longer answer raises all four predictions.
ServerChoiceIsMonotone ==
  \A j \in Jobs : DecidedByCost(j) /\ target[j] = "server" =>
    ~\E r \in EdgeRequests :
        /\ r.expected_output_tokens >= request[j].expected_output_tokens
        /\ r.network_latency_ms <= request[j].network_latency_ms
        /\ r.priority >= request[j].priority
=============================================================================

------------------------------ MODULE LlmCosts ------------------------------
(***************************************************************************)
(* The cost model of router/router.py: predicted latency and energy of an  *)
(* LLM request on the Raspberry Pi (edge) and on the GPU server, and the   *)
(* cheaper of the two.                                                     *)
(*                                                                         *)
(* Latencies are in ms and energies in mJ, rounded down; a normalised cost *)
(* of 1.0 is Norm and a priority of 1.0 is Full, so that every product     *)
(* stays below 2^31.  The code's doubles may differ where the two costs    *)
(* are equal up to that rounding.                                          *)
(***************************************************************************)
EXTENDS Integers

Targets == {"edge", "server"}

MAX_OUTPUT_TOKENS == 256
MaxNetworkLatencyMs == 5000

\* Tenths of a token per second.
EDGE_TOKENS_PER_10S == 185
SERVER_TOKENS_PER_10S == 1935

EDGE_BASE_LATENCY_MS == 800
SERVER_BASE_LATENCY_MS == 2500

EDGE_POWER_PROXY_W == 8
SERVER_POWER_PROXY_W == 35

Norm == 10000
Full == 10

-----------------------------------------------------------------------------
predict_edge_latency(tokens) ==
  EDGE_BASE_LATENCY_MS + (10000 * tokens) \div EDGE_TOKENS_PER_10S

predict_server_latency(tokens, network_latency_ms) ==
  SERVER_BASE_LATENCY_MS + (10000 * tokens) \div SERVER_TOKENS_PER_10S
  + 2 * network_latency_ms

predict_edge_energy(tokens) ==
  (EDGE_POWER_PROXY_W * (EDGE_BASE_LATENCY_MS * EDGE_TOKENS_PER_10S + 10000 * tokens))
    \div EDGE_TOKENS_PER_10S

\* Faulty: the power of the Pi taken for that of the server.
predict_server_energy_EdgePower(tokens) ==
  (EDGE_POWER_PROXY_W
     * (SERVER_BASE_LATENCY_MS * SERVER_TOKENS_PER_10S + 10000 * tokens))
    \div SERVER_TOKENS_PER_10S

predict_server_energy(tokens) ==
  (SERVER_POWER_PROXY_W
     * (SERVER_BASE_LATENCY_MS * SERVER_TOKENS_PER_10S + 10000 * tokens))
    \div SERVER_TOKENS_PER_10S

\* Each of two positive costs relative to the larger.
normalize_pair(first, second) ==
  LET maximum == IF first < second THEN second ELSE first
  IN  IF maximum <= 0 THEN <<0, 0>>
      ELSE <<(first * Norm) \div maximum, (second * Norm) \div maximum>>

-----------------------------------------------------------------------------
\* Faulty: latency and energy weighted the other way round; the network counted
\* once, and for the edge.
costs_PrioritySwapped(tokens, network_latency_ms, priority) ==
  LET latency == normalize_pair(predict_edge_latency(tokens),
                                predict_server_latency(tokens, network_latency_ms))
      energy == normalize_pair(predict_edge_energy(tokens), predict_server_energy(tokens))
  IN  [edge   |-> (Full - priority) * latency[1] + priority * energy[1],
       server |-> (Full - priority) * latency[2] + priority * energy[2]]
costs_NetworkOnEdge(tokens, network_latency_ms, priority) ==
  LET latency == normalize_pair(predict_edge_latency(tokens) + network_latency_ms,
                                predict_server_latency(tokens, 0))
      energy == normalize_pair(predict_edge_energy(tokens), predict_server_energy(tokens))
  IN  [edge   |-> priority * latency[1] + (Full - priority) * energy[1],
       server |-> priority * latency[2] + (Full - priority) * energy[2]]

\* calculate_routing_metrics: edge_cost and server_cost.
costs(tokens, network_latency_ms, priority) ==
  LET latency == normalize_pair(predict_edge_latency(tokens),
                                predict_server_latency(tokens, network_latency_ms))
      energy == normalize_pair(predict_edge_energy(tokens), predict_server_energy(tokens))
  IN  [edge   |-> priority * latency[1] + (Full - priority) * energy[1],
       server |-> priority * latency[2] + (Full - priority) * energy[2]]

\* The adaptive choice: a tie goes to the edge.
Preferred(tokens, network_latency_ms, priority) ==
  LET cost == costs(tokens, network_latency_ms, priority)
  IN  IF cost.edge <= cost.server THEN "edge" ELSE "server"
=============================================================================

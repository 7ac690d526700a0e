----------------------------- MODULE RouteScore -----------------------------
(***************************************************************************)
(* The weighted-scoring policy of edge/router/router.c, called through     *)
(* edge/router/router_bindings.py.                                         *)
(*                                                                         *)
(* Weights are in hundredths, delays and latencies in whole milliseconds,  *)
(* signals in 0..Unit (ConfidenceSignal).  Both costs are the code's cost  *)
(* times 100 * Unit * Scale, so that the comparison of the two is exact;   *)
(* the code compares the same two sums in 32-bit floats and may differ     *)
(* only where they are equal up to rounding.                               *)
(***************************************************************************)
EXTENDS ConfidenceSignal

CONSTANT INFINITY              \* the cost the router reports for a private frame
ASSUME InfinityAssumption == INFINITY \notin Int

W_NO_CONTOUR    == 35
W_ASPECT_MARGIN == 20
W_MASK_NOISE    == 15
W_FLICKER       == 15
W_NETWORK_DELAY == 30
W_CLOUD_LATENCY == 20

NETWORK_DELAY_BASELINE_MS == 200
CLOUD_LATENCY_BASELINE_MS == 100
Scale == NETWORK_DELAY_BASELINE_MS * CLOUD_LATENCY_BASELINE_MS

ROUTE_LOCAL == 0
ROUTE_CLOUD == 1

LocalCost(sig) ==
  Scale * ( W_NO_CONTOUR    * (IF sig.has_contour THEN 0 ELSE Unit)
          + W_ASPECT_MARGIN * (Unit - sig.aspect_margin)
          + W_MASK_NOISE    * sig.mask_noise
          + W_FLICKER       * sig.flicker_rate )

\* Faulty: the two cloud weights swapped.
CloudCostWeightsSwapped(network_delay_ms, predicted_cloud_latency_ms) ==
  Unit * ( W_CLOUD_LATENCY * CLOUD_LATENCY_BASELINE_MS * network_delay_ms
         + W_NETWORK_DELAY * NETWORK_DELAY_BASELINE_MS * predicted_cloud_latency_ms )

CloudCost(network_delay_ms, predicted_cloud_latency_ms) ==
  Unit * ( W_NETWORK_DELAY * CLOUD_LATENCY_BASELINE_MS * network_delay_ms
         + W_CLOUD_LATENCY * NETWORK_DELAY_BASELINE_MS * predicted_cloud_latency_ms )

\* Faulty: privacy raises the cloud cost that is reported but does not gate the decision.
router_decide_Ungated(sig, network_delay_ms, predicted_cloud_latency_ms, privacy_flag) ==
  LET local_cost == LocalCost(sig)
      cloud_cost == CloudCost(network_delay_ms, predicted_cloud_latency_ms)
  IN  [decision   |-> IF local_cost < cloud_cost THEN ROUTE_LOCAL ELSE ROUTE_CLOUD,
       local_cost |-> local_cost,
       cloud_cost |-> IF privacy_flag THEN INFINITY ELSE cloud_cost]

router_decide(sig, network_delay_ms, predicted_cloud_latency_ms, privacy_flag) ==
  LET local_cost == LocalCost(sig)
      cloud_cost == CloudCost(network_delay_ms, predicted_cloud_latency_ms)
  IN  IF privacy_flag
      THEN [decision   |-> ROUTE_LOCAL,
            local_cost |-> local_cost,
            cloud_cost |-> INFINITY]
      ELSE [decision   |-> IF local_cost < cloud_cost THEN ROUTE_LOCAL ELSE ROUTE_CLOUD,
            local_cost |-> local_cost,
            cloud_cost |-> cloud_cost]

RouteResult == [decision   : {ROUTE_LOCAL, ROUTE_CLOUD},
                local_cost : Int,
                cloud_cost : Int \cup {INFINITY}]

-----------------------------------------------------------------------------
\* t is at least as bad a local reading as s, by the polarity of each field
\* (confidence_signal.py:31-33).
WorseReading(s, t) ==
  /\ t.has_contour => s.has_contour
  /\ t.aspect_margin <= s.aspect_margin
  /\ t.mask_noise >= s.mask_noise
  /\ t.flicker_rate >= s.flicker_rate
=============================================================================

------------------------------ MODULE Experiment -----------------------------
(***************************************************************************)
(* The baseline experiments: experiments/network_conditions.py shapes the  *)
(* link with tc netem, NetworkProbe measures what is left of it, and the   *)
(* four policies of experiments/run_baselines.py decide about the same     *)
(* frame on the same estimates.                                            *)
(***************************************************************************)
EXTENDS NetworkProbe, RouteScore

CONSTANTS Presets,         \* the presets that are applied
          UnshapedMs,      \* round trip of the link without a preset
          ThresholdMs,     \* threshold_ms
          CloudTimes,      \* latencies recorded
          MaxStepBack      \* bound: seconds the clock can be behind the stored instant

Unshaped == "unshaped"

PRESETS == [good   |-> [delay_ms |-> 5,   jitter_ms |-> 1],
            medium |-> [delay_ms |-> 50,  jitter_ms |-> 10],
            bad    |-> [delay_ms |-> 200, jitter_ms |-> 50]]

ASSUME PresetsAssumption == Presets \subseteq DOMAIN PRESETS
ASSUME MsAssumption == UnshapedMs \in Nat /\ ThresholdMs \in Nat
ASSUME MeasuredAssumption == CloudTimes \subseteq Nat /\ MaxStepBack \in Nat

BASELINES == {"always_edge", "always_cloud", "network_threshold", "routeedge"}

VARIABLE netem       \* the preset in force, or Unshaped
experimentVars == <<probeVars, netem>>

ExperimentInit == ProbeInit /\ netem = Unshaped

\* The round trips of the link: the delay of the preset, more or less its jitter.
RoundTrips ==
  IF netem = Unshaped THEN {UnshapedMs}
  ELSE LET p == PRESETS[netem]
       IN  {p.delay_ms - p.jitter_ms, p.delay_ms, p.delay_ms + p.jitter_ms}

-----------------------------------------------------------------------------
(* network_conditions.py.                                                  *)

\* clear_conditions, whose failure is ignored, then the new qdisc, whose failure is
\* raised: the link is then left without any.
apply_condition(preset) ==
  /\ netem' \in {preset, Unshaped}
  /\ UNCHANGED probeVars

clear_conditions == netem' = Unshaped /\ UNCHANGED probeVars

-----------------------------------------------------------------------------
(* run_baselines.py.                                                       *)

\* Faulty: the comparison with the threshold the other way round.
decide_baseline_Swapped(name, sig, network_delay_ms, predicted_cloud_latency_ms, privacy_flag) ==
  IF privacy_flag THEN ROUTE_LOCAL
  ELSE CASE name = "always_edge"       -> ROUTE_LOCAL
         [] name = "always_cloud"      -> ROUTE_CLOUD
         [] name = "network_threshold" ->
              IF network_delay_ms > ThresholdMs THEN ROUTE_CLOUD ELSE ROUTE_LOCAL
         [] name = "routeedge" ->
              router_decide(sig, network_delay_ms, predicted_cloud_latency_ms, FALSE).decision

decide_baseline(name, sig, network_delay_ms, predicted_cloud_latency_ms, privacy_flag) ==
  IF privacy_flag THEN ROUTE_LOCAL
  ELSE CASE name = "always_edge"       -> ROUTE_LOCAL
         [] name = "always_cloud"      -> ROUTE_CLOUD
         [] name = "network_threshold" ->
              IF network_delay_ms > ThresholdMs THEN ROUTE_LOCAL ELSE ROUTE_CLOUD
         [] name = "routeedge" ->
              router_decide(sig, network_delay_ms, predicted_cloud_latency_ms, FALSE).decision

-----------------------------------------------------------------------------
(* One call of current_delay_ms per frame, in any order with the rest.     *)

PingAnswered == (\E pong \in RoundTrips : Ping(pong, 0)) /\ UNCHANGED netem

PingLost == (\E took \in 0..2 : Ping(NoPong, took)) /\ UNCHANGED netem

NoPing == SkipPing /\ UNCHANGED netem

Record == (\E t \in CloudTimes : RecordCloudLatency(t)) /\ UNCHANGED netem

TimePasses == Elapse(1) /\ UNCHANGED netem

ClockJumps ==
  /\ \E seconds \in 1..(PingInterval + MaxStepBack) : ClockSetBack(seconds)
  /\ sincePing' >= -MaxStepBack
  /\ UNCHANGED netem

Shape == (\E preset \in Presets : apply_condition(preset)) \/ clear_conditions

Next ==
  \/ PingAnswered \/ PingLost \/ NoPing
  \/ Record
  \/ TimePasses \/ ClockJumps
  \/ Shape

\* Time passes, and a link that is up does not lose every ping.
Fairness == WF_experimentVars(TimePasses) /\ SF_experimentVars(PingAnswered)

Spec == ExperimentInit /\ [][Next]_experimentVars /\ Fairness

-----------------------------------------------------------------------------
\* Types of the experiment: the link has one of the presets or none, and the clock is
\* behind the stored instant by no more than the bound.
ExperimentTypeOK ==
  /\ ProbeTypeOK
  /\ netem \in Presets \cup {Unshaped}
  /\ sincePing >= -MaxStepBack
=============================================================================

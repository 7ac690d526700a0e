---------------------------- MODULE NetworkProbe ----------------------------
(***************************************************************************)
(* NetworkProbe of edge/network_probe.py: rolling estimates of the round   *)
(* trip to the server and of the cloud's own latency.                      *)
(*                                                                         *)
(* The wall clock is kept only as the whole seconds since the instant      *)
(* stored in _last_ping_time, up to ping_interval_s, beyond which it makes *)
(* no difference; _last_ping_time = 0.0 is long ago.  A clock that is set  *)
(* back may make them negative.  Milliseconds are integers and a mean is   *)
(* rounded down.                                                           *)
(***************************************************************************)
EXTENDS Integers, Sequences, SequencesExt

CONSTANTS HistoryLen,         \* history_len: maxlen of both deques
          PingInterval,       \* ping_interval_s
          DefaultDelayMs,     \* _last_delay_ms before the first measurement
          DefaultLatencyMs,   \* default_ms of predicted_cloud_latency_ms
          NoPong              \* _do_ping returned None

ASSUME HistoryLenAssumption == HistoryLen \in Nat \ {0}
ASSUME PingIntervalAssumption == PingInterval \in Nat \ {0}
ASSUME DefaultsMsAssumption == DefaultDelayMs \in Nat /\ DefaultLatencyMs \in Nat
ASSUME NoPongAssumption == NoPong \notin Int

VARIABLES pings,            \* _ping_history
          cloudLatencies,   \* _cloud_latency_history
          sincePing,        \* now - _last_ping_time, up to PingInterval
          lastDelay         \* _last_delay_ms
probeVars == <<pings, cloudLatencies, sincePing, lastDelay>>

\* Faulty: no maxlen; a full deque that ignores new entries.
PushUnbounded(deque, x) == Append(deque, x)
PushWhileRoom(deque, x) ==
  IF Len(deque) < HistoryLen THEN Append(deque, x) ELSE deque

\* deque(maxlen=HistoryLen).append(x): a full deque drops its oldest entry.
PushBounded(deque, x) ==
  IF Len(deque) < HistoryLen THEN Append(deque, x) ELSE Append(Tail(deque), x)

\* The seconds since an instant, elapsed seconds later.
Later(seconds, elapsed) ==
  IF seconds + elapsed < PingInterval THEN seconds + elapsed ELSE PingInterval

Mean(deque) == FoldSeq(LAMBDA x, total : x + total, 0, deque) \div Len(deque)

-----------------------------------------------------------------------------
ProbeInit ==
  /\ pings = <<>>
  /\ cloudLatencies = <<>>
  /\ sincePing = PingInterval
  /\ lastDelay = DefaultDelayMs

\* A new process makes a new NetworkProbe.
ProbeRestart ==
  /\ pings' = <<>>
  /\ cloudLatencies' = <<>>
  /\ sincePing' = PingInterval
  /\ lastDelay' = DefaultDelayMs

PingDue == sincePing >= PingInterval

\* The state change of current_delay_ms when a ping is due: pong is the round
\* trip or NoPong (any failure of ping is swallowed), took the seconds _do_ping
\* blocked.  The instant stored is the one read before the ping.
Ping(pong, took) ==
  /\ PingDue
  /\ sincePing' = Later(0, took)
  /\ IF pong = NoPong
     THEN UNCHANGED <<pings, lastDelay>>
     ELSE pings' = PushBounded(pings, pong) /\ lastDelay' = pong
  /\ UNCHANGED cloudLatencies

SkipPing == ~PingDue /\ UNCHANGED probeVars

\* Faulty: the default kept until the deque is full.
CurrentDelayWhenFull(deque, last) ==
  IF Len(deque) = HistoryLen THEN Mean(deque) ELSE DefaultDelayMs

\* What current_delay_ms returns after that.
CurrentDelay(deque, last) == IF deque # <<>> THEN Mean(deque) ELSE last

PredictedCloudLatency ==
  IF cloudLatencies # <<>> THEN Mean(cloudLatencies) ELSE DefaultLatencyMs

RecordCloudLatency(latency_ms) ==
  /\ cloudLatencies' = PushBounded(cloudLatencies, latency_ms)
  /\ UNCHANGED <<pings, sincePing, lastDelay>>

Elapse(seconds) ==
  /\ sincePing' = Later(sincePing, seconds)
  /\ UNCHANGED <<pings, cloudLatencies, lastDelay>>

\* time.time() is a wall clock.  After a longer time than the interval only a bound is
\* known of what is left of it.
ClockSetBack(seconds) ==
  /\ sincePing' \in IF PingDue THEN (sincePing - seconds)..PingInterval
                     ELSE {sincePing - seconds}
  /\ UNCHANGED <<pings, cloudLatencies, lastDelay>>

-----------------------------------------------------------------------------
\* Neither history outgrows its maxlen, and every estimate kept is a delay.
ProbeTypeOK ==
  /\ pings \in Seq(Nat) /\ Len(pings) <= HistoryLen
  /\ cloudLatencies \in Seq(Nat) /\ Len(cloudLatencies) <= HistoryLen
  /\ sincePing \in Int /\ sincePing <= PingInterval
  /\ lastDelay \in Nat
=============================================================================

----------------------------- MODULE MCExperiment ----------------------------
(***************************************************************************)
(* Experiment with the probe called in any order, under a wall clock that  *)
(* may be set back, and history variables:                                 *)
(*   streak   length of the current run of equal successful pings, up to   *)
(*            HistoryLen, and their value                                  *)
(*   recent   the last HistoryLen round trips, the newest first            *)
(*   estimate what the last current_delay_ms() returned                    *)
(***************************************************************************)
EXTENDS Experiment

VARIABLES streak, recent, estimate
answers == <<streak, recent>>
mcVars == <<experimentVars, answers, estimate>>

MCInit ==
  /\ ExperimentInit
  /\ streak = [value |-> 0, length |-> 0]
  /\ recent = <<>>
  /\ estimate = DefaultDelayMs

Longer(n) == IF n < HistoryLen THEN n + 1 ELSE n

Called == estimate' = CurrentDelay(pings', lastDelay')

MCPingAnswered ==
  /\ PingAnswered /\ Called
  /\ streak' = [value  |-> lastDelay',
                length |-> IF lastDelay' = streak.value THEN Longer(streak.length) ELSE 1]
  /\ recent' = [i \in 1..Longer(Len(recent)) |-> IF i = 1 THEN lastDelay' ELSE recent[i - 1]]

MCNext ==
  \/ MCPingAnswered
  \/ (PingLost \/ NoPing) /\ Called /\ UNCHANGED answers
  \/ (Record \/ TimePasses \/ ClockJumps \/ Shape) /\ UNCHANGED <<answers, estimate>>

MCSpec == MCInit /\ [][MCNext]_mcVars /\ Fairness

-----------------------------------------------------------------------------
\* After HistoryLen equal answers in a row the estimate is that round trip,
\* whatever was measured before: the rolling window forgets.
EstimateConverges ==
  streak.length = HistoryLen => estimate = streak.value

\* The made-up default delay is in use until a ping is first answered.  From then on the
\* estimate lies between two of the last HistoryLen round trips: no failed ping, no clock
\* and no older measurement takes it outside of what the network has shown lately.
EstimateIsMeasured ==
  IF recent = <<>>
  THEN estimate = DefaultDelayMs
  ELSE \E i, k \in DOMAIN recent : recent[i] <= estimate /\ estimate <= recent[k]

-----------------------------------------------------------------------------
(* The policies.                                                           *)

\* Frames as the local pipeline sees them: lit well, borderline, lit badly, empty.
SignalOf(contour, margin, noise, flicker) ==
  [has_contour |-> contour, aspect_margin |-> margin, mask_noise |-> noise,
   flicker_rate |-> flicker, brightness |-> Unit]
Clear      == SignalOf(TRUE, Unit, Unit \div 20, 0)
Borderline == SignalOf(TRUE, Unit \div 4, Unit \div 4, Unit \div 3)
Noisy      == SignalOf(TRUE, 0, Unit, Unit \div 2)
Nothing    == SignalOf(FALSE, 0, 0, 0)
Signals == {Clear, Borderline, Noisy, Nothing}

\* A frame and one that reads no better.
Worsening == {pair \in Signals \X Signals : WorseReading(pair[1], pair[2])}

Decision(name, sig) == decide_baseline(name, sig, estimate, PredictedCloudLatency, FALSE)

\* No policy takes a frame back from the cloud while the network is estimated no slower
\* and the frame reads no better, whatever was measured in between: what makes the four
\* policies comparable on the same scenario.
PoliciesAreMonotone ==
  [][ estimate' <= estimate /\ PredictedCloudLatency' <= PredictedCloudLatency =>
        \A name \in BASELINES : \A pair \in Worsening :
          Decision(name, pair[1]) = ROUTE_CLOUD => Decision(name, pair[2])' = ROUTE_CLOUD
    ]_mcVars

\* The link is shaped in the one way for good, and the clock only moves forward.
StaysAt(condition) == <>[](netem = condition) /\ <>[][~ClockJumps]_mcVars

\* docs/demo_video_script.md, beats 3 and 4: the same borderline gesture ends up in the
\* cloud on a good link and on the Pi on a bad one, however the link was shaped before,
\* which pings were lost and how far the clock was set back, and so it does under the
\* threshold rule.
SameGestureReroutes ==
  [](cloudLatencies = <<>>) =>
    \A name \in {"routeedge", "network_threshold"} :
      /\ StaysAt("good") => <>[](Decision(name, Borderline) = ROUTE_CLOUD)
      /\ StaysAt("bad") => <>[](Decision(name, Borderline) = ROUTE_LOCAL)
=============================================================================

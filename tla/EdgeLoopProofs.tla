--------------------------- MODULE EdgeLoopProofs ---------------------------
(***************************************************************************)
(* Theorems about the camera loop for every set of scenes, every window    *)
(* length, history length, link and number of keys.                        *)
(***************************************************************************)
EXTENDS MCEdgeLoop, RouteScoreProofs, FiniteSetTheorems

-----------------------------------------------------------------------------
(* The parts.                                                              *)

\* Time passing keeps the probe typed and records no cloud latency.
LEMMA ElapseTyped ==
  ASSUME NEW seconds \in Nat, ProbeTypeOK, NoCloudLatency, Elapse(seconds)
  PROVE  ProbeTypeOK' /\ NoCloudLatency'
<1>1. Later(sincePing, seconds) \in Int /\ Later(sincePing, seconds) <= PingInterval
  BY PingIntervalAssumption DEF Later, ProbeTypeOK
<1> QED
  BY <1>1 DEF Elapse, ProbeTypeOK, NoCloudLatency

\* So does a call of current_delay_ms.
LEMMA ProbeTyped ==
  ASSUME ProbeTypeOK, NoCloudLatency, link \in Links, Probe
  PROVE  ProbeTypeOK' /\ NoCloudLatency'
<1>1. CASE SkipPing
  BY <1>1 DEF SkipPing, probeVars, ProbeTypeOK, NoCloudLatency
<1>2. ASSUME NEW pong \in Pongs, NEW took \in Nat, Ping(pong, took)
      PROVE  ProbeTypeOK' /\ NoCloudLatency'
  <2>1. pong = NoPong \/ pong \in Nat
    BY LinkAssumption DEF Pongs, Links
  <2>2. Later(0, took) \in Int /\ Later(0, took) <= PingInterval
    BY PingIntervalAssumption DEF Later
  <2>3. CASE pong = NoPong
    BY <1>2, <2>2, <2>3 DEF Ping, ProbeTypeOK, NoCloudLatency
  <2>4. CASE pong # NoPong
    <3>1. PushBounded(pings, pong) \in Seq(Nat) /\ Len(PushBounded(pings, pong)) <= HistoryLen
      <4>1. CASE Len(pings) < HistoryLen
        BY <2>1, <2>4, <4>1, HistoryLenAssumption DEF PushBounded, ProbeTypeOK
      <4>2. CASE ~(Len(pings) < HistoryLen)
        <5>1. pings \in Seq(Nat) /\ Len(pings) = HistoryLen /\ pings # <<>>
          BY <4>2, HistoryLenAssumption DEF ProbeTypeOK
        <5>2. Tail(pings) \in Seq(Nat) /\ Len(Tail(pings)) = HistoryLen - 1
          BY <5>1
        <5>3. Append(Tail(pings), pong) \in Seq(Nat)
              /\ Len(Append(Tail(pings), pong)) = HistoryLen
          BY <2>1, <2>4, <5>2, HistoryLenAssumption
        <5> QED
          BY <4>2, <5>3, HistoryLenAssumption DEF PushBounded
      <4> QED
        BY <4>1, <4>2
    <3> QED
      BY <1>2, <2>1, <2>2, <2>4, <3>1 DEF Ping, ProbeTypeOK, NoCloudLatency
  <2> QED
    BY <2>3, <2>4
<1>3. CASE \E pong \in Pongs : \E took \in IF pong = NoPong THEN 0..MaxBlockSeconds ELSE {0} :
             Ping(pong, took)
  <2>1. PICK pong \in Pongs, took \in Nat : Ping(pong, took)
    BY <1>3, BoundsAssumption
  <2> QED
    BY <1>2, <2>1
<1> QED
  BY <1>1, <1>3 DEF Probe

\* The signal of a captured frame is typed and fits.
LEMMA CapturedSignal ==
  ASSUME NEW scene \in Scenes, NEW h \in Seq(Reading), NEW a \in Nat \ {0},
         NEW s, s = build_confidence_signal(HasContour(scene), Dims(scene), scene.contours,
                                            scene.light, h, a)
  PROVE  /\ s \in Signal
         /\ 2 * s.flicker_rate <= Unit
         /\ ~s.has_contour => s.aspect_margin = 0
<1>1. scene \in Scene
  BY ScenesAssumption
<1>2. HasContour(scene) \in BOOLEAN /\ Dims(scene) \in Nat \cup {None}
  BY <1>1 DEF HasContour, Dims, Scene
<1>3. ~HasContour(scene) => Dims(scene) = None
  BY DEF Dims
<1>4. scene.contours \in Nat /\ scene.light \in 0..Unit
  BY <1>1 DEF Scene
<1>5. /\ AspectMargin(Dims(scene), a) \in 0..Unit
      /\ Dims(scene) = None => AspectMargin(Dims(scene), a) = 0
      /\ MaskNoise(scene.contours) \in 0..Unit
  BY <1>2, <1>4, MarginAndNoise
<1>6. FlickerRate(h) \in 0..Unit /\ 2 * FlickerRate(h) <= Unit
  BY FlickerAtMostHalf
<1> QED
  BY <1>2, <1>3, <1>4, <1>5, <1>6 DEF build_confidence_signal, Signal

-----------------------------------------------------------------------------
(* The invariant.                                                          *)

\* The router's answer on a typed signal is typed.
LEMMA NoRouteTyped == NoSignal \in Signal /\ NoRoute \in RouteResult
<1>1. NoSignal \in Signal
  BY UnitAssumption DEF NoSignal, Signal
<1> QED
  BY <1>1, DecisionTyped, DefaultsMsAssumption DEF NoRoute

\* The first state satisfies the invariant.
LEMMA EdgeInitially == Init => EdgeInv
<1> SUFFICES ASSUME Init PROVE EdgeInv
  OBVIOUS
<1> USE DEF Init
<1>1. DetectorTypeOK
  BY DefaultsAssumption
  DEF DetectorInit, DetectorTypeOK, NothingShown, Reading
<1>2. ProbeTypeOK /\ NoCloudLatency
  BY HistoryLenAssumption, PingIntervalAssumption, DefaultsMsAssumption
  DEF ProbeInit, ProbeTypeOK, NoCloudLatency
<1>3. EdgeTypeOK
  BY <1>1, <1>2, NoRouteTyped, DefaultPrivacyAssumption, BoundsAssumption,
     DefaultsMsAssumption
  DEF EdgeTypeOK, Reading
<1>4. SignalFits
  BY UnitAssumption DEF SignalFits, NoSignal
<1> QED
  BY <1>2, <1>3, <1>4 DEF EdgeInv, DecisionStands, LogIsHonest

\* CaptureFrame keeps it: the signal is that of the frame.
LEMMA CaptureKeeps == EdgeInv /\ Capture => EdgeInv'
<1> SUFFICES ASSUME EdgeInv, NEW scene \in Scenes, NEW seconds \in 0..MaxFrameSeconds,
                    CaptureFrame(scene, seconds)
             PROVE  EdgeInv'
  BY DEF Capture
<1> USE DEF CaptureFrame, EdgeInv, EdgeTypeOK
<1>1. DetectorTypeOK' /\ shown'.has_contour = HasContour(scene)
      /\ shown'.dims = Dims(scene) /\ shown'.contours = scene.contours
  BY UpdateTyped
<1>2. ProbeTypeOK' /\ NoCloudLatency'
  BY ElapseTyped, BoundsAssumption
<1>3. sig' = build_confidence_signal(HasContour(scene), Dims(scene), scene.contours,
                                     scene.light, history', aspect)
  BY <1>1
<1>4. history' \in Seq(Reading) /\ aspect \in Nat \ {0}
  BY <1>1 DEF DetectorTypeOK
<1>5. sig' \in Signal /\ SignalFits'
  BY <1>3, <1>4, CapturedSignal DEF SignalFits
<1>6. DecisionStands' /\ LogIsHonest'
  BY DEF DecisionStands, LogIsHonest
<1> QED
  BY <1>1, <1>2, <1>5, <1>6

\* Route keeps it: this is where the decision of the frame is made.
LEMMA RouteKeeps == EdgeInv /\ Route => EdgeInv'
<1> SUFFICES ASSUME EdgeInv, Route PROVE EdgeInv'
  OBVIOUS
<1> USE DEF Route, EdgeInv, EdgeTypeOK
<1>1. ProbeTypeOK' /\ NoCloudLatency'
  BY ProbeTyped
<1>2. PredictedCloudLatency = DefaultLatencyMs
  BY DEF PredictedCloudLatency, NoCloudLatency
<1>3. delay' \in Nat
      /\ route_result' = router_decide(sig, delay', DefaultLatencyMs, privacy_flag)
  BY <1>2
<1>4. route_result' \in RouteResult
  BY <1>3, DecisionTyped, DefaultsMsAssumption
<1>5. route_result'.decision \in {ROUTE_LOCAL, ROUTE_CLOUD}
  BY <1>4 DEF RouteResult
<1>6. DetectorTypeOK'
  BY DEF detectorVars, DetectorTypeOK
<1>7. final_direction' \in Reading
  BY DEF DetectorTypeOK
<1>8. EdgeTypeOK'
  BY <1>1, <1>3, <1>4, <1>6, <1>7
<1>9. DecisionStands'
  BY <1>3, <1>5 DEF DecisionStands, ROUTE_LOCAL, ROUTE_CLOUD
<1>10. SignalFits' /\ LogIsHonest'
  BY DEF SignalFits, LogIsHonest
<1> QED
  BY <1>1, <1>8, <1>9, <1>10

\* So does the end of send_frame, in either way.
LEMMA SendKeeps == EdgeInv /\ SendCompletes => EdgeInv'
<1> SUFFICES ASSUME EdgeInv, NEW took \in 0..MaxBlockSeconds, NEW direction \in Reading,
                    SendReturns(direction, took)
             PROVE  EdgeInv'
  BY DEF SendCompletes, SendFails, SendAnswered, Reading
<1> USE DEF SendReturns, EdgeInv, EdgeTypeOK
<1>1. ProbeTypeOK' /\ NoCloudLatency'
  BY ElapseTyped, BoundsAssumption
<1>2. DetectorTypeOK'
  BY DEF detectorVars, DetectorTypeOK
<1>3. SignalFits' /\ DecisionStands' /\ LogIsHonest'
  BY DEF SignalFits, DecisionStands, LogIsHonest
<1> QED
  BY <1>1, <1>2, <1>3

\* A logged cloud answer had a finite cloud cost, since the router chose the cloud.
LEMMA LogKeeps == EdgeInv /\ LogFrame => EdgeInv'
<1> SUFFICES ASSUME EdgeInv, LogFrame PROVE EdgeInv'
  OBVIOUS
<1> USE DEF LogFrame, EdgeInv, EdgeTypeOK
<1>1. DetectorTypeOK' /\ ProbeTypeOK' /\ NoCloudLatency'
  BY DEF detectorVars, probeVars, DetectorTypeOK, ProbeTypeOK, NoCloudLatency
<1>2. log' \in LogRecord
  BY DEF LogRecord
<1>3. source = "cloud" => route_result.cloud_cost # INFINITY
  <2>1. route_result = router_decide(sig, delay, DefaultLatencyMs, privacy_flag)
        /\ (source = "cloud" <=> route_result.decision = ROUTE_CLOUD)
    BY DEF DecisionStands
  <2> QED
    BY <2>1, PrivacyGates, DefaultsMsAssumption
<1>4. LogIsHonest'
  BY <1>3 DEF LogIsHonest
<1>5. SignalFits' /\ DecisionStands'
  BY DEF SignalFits, DecisionStands
<1> QED
  BY <1>1, <1>2, <1>4, <1>5

\* The keyboard: privacy_flag changes only where no decision has to stand.
LEMMA PollKeeps == EdgeInv /\ Poll => EdgeInv'
<1> SUFFICES ASSUME EdgeInv, Poll PROVE EdgeInv'
  OBVIOUS
<1> USE DEF Poll, EdgeInv, EdgeTypeOK
<1>1. DetectorTypeOK' /\ ProbeTypeOK' /\ NoCloudLatency'
  BY DEF detectorVars, probeVars, DetectorTypeOK, ProbeTypeOK, NoCloudLatency
<1>2. (frame_id + 1) % FrameWrap \in 0..(FrameWrap - 1)
  BY BoundsAssumption
<1>3. pc' \in {"capture", "stopped"} /\ frame_id' \in 0..(FrameWrap - 1)
      /\ privacy_flag' \in BOOLEAN
  BY <1>2 DEF PollNoKey, PollKey, NextFrame
<1>4. keys' \in Seq(Keys) /\ Len(keys') <= MaxKeys
  <2>1. CASE PollNoKey
    BY <2>1 DEF PollNoKey
  <2>2. CASE PollKey
    <3>1. keys # <<>> /\ keys' = Tail(keys)
      BY <2>2 DEF PollKey
    <3>2. Tail(keys) \in Seq(Keys) /\ Len(Tail(keys)) = Len(keys) - 1
      BY <3>1
    <3> QED
      BY <3>1, <3>2, BoundsAssumption
  <2> QED
    BY <2>1, <2>2
<1>5. SignalFits' /\ DecisionStands' /\ LogIsHonest'
  BY <1>3 DEF SignalFits, DecisionStands, LogIsHonest
<1> QED
  BY <1>1, <1>3, <1>4, <1>5

\* The steps that touch the loop's own state not at all, or reset it.
LEMMA OthersKeep ==
  ASSUME EdgeInv,
         \/ CameraFails \/ TrackbarMoves \/ LinkChanges \/ Restart \/ UNCHANGED vars
         \/ \E key \in Keys : PressKey(key)
  PROVE  EdgeInv'
<1> USE DEF EdgeInv, EdgeTypeOK
<1>1. CASE CameraFails
  BY <1>1 DEF CameraFails, detectorVars, probeVars, DetectorTypeOK, ProbeTypeOK,
              NoCloudLatency, SignalFits, DecisionStands, LogIsHonest
<1>2. CASE TrackbarMoves
  <2>1. DetectorTypeOK'
    BY <1>2, TrackbarTyped DEF TrackbarMoves
  <2> QED
    BY <1>2, <2>1 DEF TrackbarMoves, probeVars, loopVars, ProbeTypeOK,
              NoCloudLatency, SignalFits, DecisionStands, LogIsHonest
<1>3. CASE LinkChanges
  BY <1>3 DEF LinkChanges, detectorVars, probeVars, loopVars, DetectorTypeOK, ProbeTypeOK,
              NoCloudLatency, SignalFits, DecisionStands, LogIsHonest
<1>4. CASE Restart
  <2>1. DetectorTypeOK'
    BY <1>4, DefaultsAssumption
    DEF Restart, DetectorRestart, DetectorTypeOK, NothingShown, Reading
  <2>2. ProbeTypeOK' /\ NoCloudLatency'
    BY <1>4, HistoryLenAssumption, PingIntervalAssumption, DefaultsMsAssumption
    DEF Restart, ProbeRestart, ProbeTypeOK, NoCloudLatency
  <2>3. SignalFits' /\ DecisionStands' /\ LogIsHonest'
    BY <1>4, UnitAssumption DEF Restart, SignalFits, NoSignal, DecisionStands, LogIsHonest
  <2>4. EdgeTypeOK'
    BY <1>4, <2>1, <2>2, NoRouteTyped, DefaultPrivacyAssumption, BoundsAssumption,
       DefaultsMsAssumption
    DEF Restart, Reading
  <2> QED
    BY <2>2, <2>3, <2>4
<1>5. CASE UNCHANGED vars
  BY <1>5 DEF vars, detectorVars, probeVars, loopVars, DetectorTypeOK, ProbeTypeOK,
              NoCloudLatency, SignalFits, DecisionStands, LogIsHonest
<1>6. ASSUME NEW key \in Keys, PressKey(key) PROVE EdgeInv'
  <2>1. Append(keys, key) \in Seq(Keys) /\ Len(Append(keys, key)) = Len(keys) + 1
    OBVIOUS
  <2>2. keys' \in Seq(Keys) /\ Len(keys') <= MaxKeys
    BY <1>6, <2>1, BoundsAssumption DEF PressKey
  <2> QED
    BY <1>6, <2>2 DEF PressKey, detectorVars, probeVars, loopVars, DetectorTypeOK,
              ProbeTypeOK, NoCloudLatency, SignalFits, DecisionStands, LogIsHonest
<1> QED
  BY <1>1, <1>2, <1>3, <1>4, <1>5, <1>6

\* Every step keeps it.
LEMMA EdgeInvariantStep == EdgeInv /\ [Next]_vars => EdgeInv'
BY CaptureKeeps, RouteKeeps, SendKeeps, LogKeeps, PollKeeps, OthersKeep
DEF Next, LoopStep

\* The routing decision of a frame stands until it is logged, on a signal whose parts
\* fit together, whatever the operator and the network do.
THEOREM EdgeInvariant == Spec => []EdgeInv
BY EdgeInvariantStep, EdgeInitially, PTL DEF Spec

\* A frame on its way to the cloud was not private when the router decided.
LEMMA DecisionIsPublic ==
  ASSUME EdgeTypeOK, DecisionStands, pc = "send"
  PROVE  ~privacy_flag
<1>1. route_result = router_decide(sig, delay, DefaultLatencyMs, privacy_flag)
      /\ route_result.decision = ROUTE_CLOUD
  BY DEF DecisionStands
<1>2. sig \in Signal /\ delay \in Nat /\ privacy_flag \in BOOLEAN
  BY DEF EdgeTypeOK
<1> QED
  BY <1>1, <1>2, PrivacyGates, DefaultsMsAssumption DEF ROUTE_LOCAL, ROUTE_CLOUD

-----------------------------------------------------------------------------
(* The theorems.                                                           *)

\* Every variable of the camera loop keeps its type: a direction shown or logged is
\* LEFT, RIGHT or None whichever path answered, and no history outgrows its maxlen.
THEOREM EdgeTypes == Spec => []EdgeTypeOK
<1>1. EdgeInv => EdgeTypeOK
  BY DEF EdgeInv
<1> QED
  BY <1>1, EdgeInvariant, PTL

\* No private frame is sent to the cloud or logged as answered by it, whatever keys
\* are typed and however many frames the operator's key presses wait.
THEOREM Privacy == Spec => []PrivateFramesStayLocal
<1>1. EdgeInv => PrivateFramesStayLocal
  <2> SUFFICES ASSUME EdgeInv PROVE PrivateFramesStayLocal
    OBVIOUS
  <2>1. pc = "send" => ~privacy_flag
    BY DecisionIsPublic DEF EdgeInv
  <2> QED
    BY <2>1 DEF PrivateFramesStayLocal, EdgeInv, LogIsHonest
<1> QED
  BY <1>1, EdgeInvariant, PTL

\* A frame with a contour is never sent over a network the probe estimates as slow.
THEOREM BadNetwork == Spec => []BadNetworkKeepsContourLocal
<1>1. EdgeInv => BadNetworkKeepsContourLocal
  <2> SUFFICES ASSUME EdgeInv, pc = "send", sig.has_contour, SlowForContour(delay)
               PROVE  FALSE
    BY DEF BadNetworkKeepsContourLocal
  <2>1. sig \in Signal /\ delay \in Nat /\ privacy_flag \in BOOLEAN
    BY DEF EdgeInv, EdgeTypeOK
  <2>2. route_result = router_decide(sig, delay, DefaultLatencyMs, privacy_flag)
        /\ route_result.decision = ROUTE_CLOUD
    BY DEF EdgeInv, DecisionStands
  <2>3. LocalCost(sig) <= 850000 * Unit
    BY <2>1, ContourCostsAtMost DEF EdgeInv, SignalFits
  <2>4. CloudCost(delay, DefaultLatencyMs) > 850000 * Unit
    <3>1. \A bound \in Nat : 3 * delay + 4 * DefaultLatencyMs > bound =>
            CloudCost(delay, DefaultLatencyMs) > 1000 * bound * Unit
      BY <2>1, CloudCostAgainst, DefaultsMsAssumption
    <3>2. CloudCost(delay, DefaultLatencyMs) > 1000 * 850 * Unit
      BY <3>1 DEF SlowForContour
    <3> QED
      BY <3>2
  <2>5. LocalCost(sig) < CloudCost(delay, DefaultLatencyMs)
    BY <2>1, <2>3, <2>4, CostsAreIntegers, DefaultsMsAssumption, UnitAssumption
  <2> QED
    BY <2>2, <2>5 DEF router_decide, ROUTE_LOCAL, ROUTE_CLOUD
<1> QED
  BY <1>1, EdgeInvariant, PTL

\* A frame without a contour that is not private is answered by the cloud unless the
\* estimate is slow.
THEOREM EmptyFrame == Spec => []EmptySceneEscalates
<1>1. EdgeInv => EmptySceneEscalates
  <2> SUFFICES ASSUME EdgeInv, pc \in {"send", "log", "poll"}, ~sig.has_contour,
                      FastForEmpty(delay), route_result.cloud_cost # INFINITY
               PROVE  source = "cloud"
    BY DEF EmptySceneEscalates
  <2>1. sig \in Signal /\ delay \in Nat /\ privacy_flag \in BOOLEAN
    BY DEF EdgeInv, EdgeTypeOK
  <2>2. route_result = router_decide(sig, delay, DefaultLatencyMs, privacy_flag)
        /\ (source = "cloud" <=> route_result.decision = ROUTE_CLOUD)
    BY DEF EdgeInv, DecisionStands
  <2>3. LocalCost(sig) >= 1100000 * Unit
    BY <2>1, NoContourCostsAtLeast DEF EdgeInv, SignalFits
  <2>4. CloudCost(delay, DefaultLatencyMs) <= 1100000 * Unit
    <3>1. \A bound \in Nat : 3 * delay + 4 * DefaultLatencyMs <= bound =>
            CloudCost(delay, DefaultLatencyMs) <= 1000 * bound * Unit
      BY <2>1, CloudCostAgainst, DefaultsMsAssumption
    <3>2. CloudCost(delay, DefaultLatencyMs) <= 1000 * 1100 * Unit
      BY <3>1 DEF FastForEmpty
    <3> QED
      BY <3>2
  <2>5. ~(LocalCost(sig) < CloudCost(delay, DefaultLatencyMs))
    BY <2>1, <2>3, <2>4, CostsAreIntegers, DefaultsMsAssumption, UnitAssumption
  <2>6. ~privacy_flag
    BY <2>2 DEF router_decide
  <2> QED
    BY <2>2, <2>5, <2>6 DEF router_decide
<1> QED
  BY <1>1, EdgeInvariant, PTL

-----------------------------------------------------------------------------
(* The numbers in the log.                                                 *)

\* frame_id is the number of records of this run until its frame is logged, and the
\* number of frames captured before this one once it is captured.
Numbering ==
  /\ pc \in {"capture", "route", "send", "log"} => logged = frame_id
  /\ pc = "poll" => logged = More(frame_id)
  /\ pc = "capture" => captured = frame_id
  /\ pc \in {"route", "send", "log", "poll"} => captured = More(frame_id)

\* Which step of the loop it is follows from the part that runs next.
LEMMA OneStepAtATime ==
  /\ Capture => pc = "capture" /\ ~LogFrame
  /\ Route \/ SendCompletes \/ Poll => ~Capture /\ ~LogFrame
  /\ LogFrame => pc = "log" /\ ~Capture
<1>1. (Capture => pc = "capture") /\ (Route => pc = "route") /\ (LogFrame => pc = "log")
      /\ (SendCompletes => pc = "send") /\ (Poll => pc = "poll")
  BY DEF Capture, CaptureFrame, Route, LogFrame, SendCompletes, SendFails, SendAnswered,
         SendReturns, Poll, PollNoKey, PollKey
<1> QED
  BY <1>1

\* Every step keeps it, the first one of a new run included.
LEMMA NumberingKept == Numbering /\ [MCNext]_mcVars => Numbering'
<1> SUFFICES ASSUME Numbering, [MCNext]_mcVars PROVE Numbering'
  OBVIOUS
<1>1. CASE Capture /\ captured' = More(captured) /\ logged' = logged
  <2>1. pc = "capture" /\ pc' = "route" /\ frame_id' = frame_id
    BY <1>1 DEF Capture, CaptureFrame
  <2> QED
    BY <1>1, <2>1 DEF Numbering, More
<1>2. CASE LogFrame /\ captured' = captured /\ logged' = More(logged)
  BY <1>2 DEF LogFrame, Numbering, More
<1>3. CASE (Route \/ SendCompletes) /\ UNCHANGED counts
  <2>1. /\ pc \in {"route", "send"} /\ pc' \in {"send", "log"} /\ frame_id' = frame_id
    BY <1>3 DEF Route, SendCompletes, SendFails, SendAnswered, SendReturns
  <2> QED
    BY <1>3, <2>1 DEF Numbering, More, counts
<1>4. CASE Poll /\ UNCHANGED counts
  <2>1. /\ pc = "poll"
        /\ \/ pc' = "stopped"
           \/ pc' = "capture" /\ frame_id' = (frame_id + 1) % FrameWrap
    BY <1>4 DEF Poll, PollNoKey, PollKey, NextFrame
  <2> QED
    BY <1>4, <2>1 DEF Numbering, More, counts
<1>5. CASE CameraFails /\ UNCHANGED counts
  BY <1>5 DEF CameraFails, Numbering
<1>6. CASE Restart /\ captured' = 0 /\ logged' = 0
  BY <1>6 DEF Restart, Numbering
<1>7. CASE (TrackbarMoves \/ LinkChanges \/ UNCHANGED vars \/ \E key \in Keys : PressKey(key))
           /\ UNCHANGED counts
  BY <1>7 DEF TrackbarMoves, LinkChanges, PressKey, vars, loopVars, Numbering, More, counts
<1> QED
  BY <1>1, <1>2, <1>3, <1>4, <1>5, <1>6, <1>7, OneStepAtATime
  DEF MCNext, LoopStep, mcVars, counts

\* The records of every run of the program are numbered from 0 without a gap, each with
\* the number of its frame, whichever path answered it and whatever is typed.
THEOREM LogNumbers == MCSpec => LogNumbersFrames
<1>1. MCInit => Numbering
  BY DEF MCInit, Init, Numbering
<1>2. Numbering /\ [MCNext]_mcVars =>
        [LogFrame => log'.frame_id = logged /\ captured = More(log'.frame_id)]_mcVars
  <2> SUFFICES ASSUME Numbering, LogFrame
               PROVE  log'.frame_id = logged /\ captured = More(log'.frame_id)
    OBVIOUS
  <2>1. pc = "log" /\ log'.frame_id = frame_id
    BY DEF LogFrame
  <2> QED
    BY <2>1 DEF Numbering
<1> QED
  BY <1>1, <1>2, NumberingKept, PTL DEF MCSpec, LogNumbersFrames

-----------------------------------------------------------------------------
(* The keyboard and the allowance.                                         *)

\* The 'v' keys in the order they were pressed.
Toggles(s) == {i \in DOMAIN s : s[i] = "v"}

\* Behind the decision the frame of this round has used its part of the allowance.
Spent == IF pc \in {"capture", "route"} THEN 0 ELSE 1

\* While the operator wants privacy, the allowance pays for every round of the loop
\* until the last of the toggles is returned.
RoundsCovered == Intent => \A i \in Toggles(keys) : i <= allowance + Spent

KeysInv == EdgeInv /\ allowance \in Nat /\ RoundsCovered

\* Pressing a key adds a toggle at the end or none.
LEMMA TogglesAppend ==
  ASSUME NEW s \in Seq(Keys), NEW key \in Keys
  PROVE  /\ Toggles(Append(s, key)) = Toggles(s) \cup (IF key = "v" THEN {Len(s) + 1} ELSE {})
         /\ Cardinality(Toggles(s)) \in Nat
         /\ Cardinality(Toggles(Append(s, key))) =
              Cardinality(Toggles(s)) + IF key = "v" THEN 1 ELSE 0
<1> DEFINE longer == Append(s, key)
<1>1. /\ Len(s) \in Nat /\ DOMAIN s = 1..Len(s) /\ DOMAIN longer = 1..(Len(s) + 1)
      /\ \A i \in 1..Len(s) : longer[i] = s[i]
      /\ longer[Len(s) + 1] = key
  OBVIOUS
<1> HIDE DEF longer
<1>2. IsFiniteSet(Toggles(s)) /\ Cardinality(Toggles(s)) \in Nat
  <2>1. IsFiniteSet(1..Len(s))
    BY <1>1, FS_Interval
  <2>2. Toggles(s) \in SUBSET (1..Len(s))
    BY <1>1 DEF Toggles
  <2> QED
    BY <2>1, <2>2, FS_Subset, FS_CardinalityType
<1>3. Toggles(longer) = Toggles(s) \cup (IF key = "v" THEN {Len(s) + 1} ELSE {})
  BY <1>1 DEF Toggles
<1>4. Len(s) + 1 \notin Toggles(s)
  BY <1>1 DEF Toggles
<1>5. CASE key = "v"
  BY <1>2, <1>3, <1>4, <1>5, FS_AddElement DEF longer
<1>6. CASE key # "v"
  <2>1. Toggles(longer) = Toggles(s)
    BY <1>3, <1>6
  <2> QED
    BY <1>2, <1>3, <1>6, <2>1 DEF longer
<1> QED
  BY <1>5, <1>6

\* Returning a key moves the toggles behind it one place forward.
LEMMA TogglesTail ==
  ASSUME NEW s \in Seq(Keys), s # <<>>
  PROVE  /\ \A i \in Toggles(Tail(s)) : i + 1 \in Toggles(s)
         /\ Cardinality(Toggles(Tail(s))) \in Nat
         /\ Cardinality(Toggles(s)) =
              Cardinality(Toggles(Tail(s))) + IF Head(s) = "v" THEN 1 ELSE 0
<1> DEFINE rest == Tail(s)
           moved == [i \in Toggles(rest) |-> i + 1]
           later == {j \in Toggles(s) : j # 1}
<1>1. /\ Len(s) \in Nat \ {0} /\ DOMAIN s = 1..Len(s) /\ DOMAIN rest = 1..(Len(s) - 1)
      /\ \A i \in 1..(Len(s) - 1) : rest[i] = s[i + 1]
      /\ Head(s) = s[1]
  OBVIOUS
<1> HIDE DEF rest
<1>2. IsFiniteSet(Toggles(rest)) /\ Cardinality(Toggles(rest)) \in Nat
  <2>1. IsFiniteSet(1..(Len(s) - 1))
    BY <1>1, FS_Interval
  <2>2. Toggles(rest) \in SUBSET (1..(Len(s) - 1))
    BY <1>1 DEF Toggles
  <2> QED
    BY <2>1, <2>2, FS_Subset, FS_CardinalityType
<1>3. \A i \in Toggles(rest) : i \in Int /\ i + 1 \in later
  BY <1>1 DEF Toggles
<1>4. \A j \in later : j - 1 \in Toggles(rest) /\ j \in Int
  BY <1>1 DEF Toggles
<1>5. moved \in Bijection(Toggles(rest), later)
  <2>1. moved \in [Toggles(rest) -> later]
    BY <1>3
  <2>2. \A i, j \in Toggles(rest) : moved[i] = moved[j] => i = j
    BY <1>3
  <2>3. \A j \in later : \E i \in Toggles(rest) : moved[i] = j
    <3> TAKE j \in later
    <3>1. j - 1 \in Toggles(rest) /\ moved[j - 1] = j
      BY <1>4
    <3> QED
      BY <3>1
  <2> HIDE DEF moved, later
  <2> QED
    BY <2>1, <2>2, <2>3 DEF Bijection, Injection, Surjection, IsInjective
<1>6. IsFiniteSet(later) /\ Cardinality(later) = Cardinality(Toggles(rest))
  <2>1. ExistsBijection(Toggles(rest), later)
    BY <1>5 DEF ExistsBijection
  <2> HIDE DEF later, moved
  <2> QED
    BY <1>2, <2>1, FS_Bijection
<1>7. Toggles(s) = later \cup (IF Head(s) = "v" THEN {1} ELSE {})
  BY <1>1 DEF Toggles
<1>8. 1 \notin later
  OBVIOUS
<1> HIDE DEF later, moved
<1>9. Cardinality(Toggles(s)) = Cardinality(Toggles(rest)) + IF Head(s) = "v" THEN 1 ELSE 0
  <2>1. CASE Head(s) = "v"
    BY <1>2, <1>6, <1>7, <1>8, <2>1, FS_AddElement
  <2>2. CASE Head(s) # "v"
    <3>1. Toggles(s) = later
      BY <1>7, <2>2
    <3> QED
      BY <1>2, <1>6, <2>2, <3>1
  <2> QED
    BY <2>1, <2>2
<1> QED
  BY <1>2, <1>3, <1>9 DEF rest, later

\* Returning a key changes what is still to be toggled and the flag together.
LEMMA IntentStands ==
  ASSUME keys \in Seq(Keys), keys # <<>>, privacy_flag \in BOOLEAN,
         keys' = Tail(keys),
         privacy_flag' = IF Head(keys) = "v" THEN ~privacy_flag ELSE privacy_flag
  PROVE  Intent' <=> Intent
<1> DEFINE n == Cardinality(Toggles(Tail(keys)))
<1>1. n \in Nat /\ Cardinality(Toggles(keys)) = n + IF Head(keys) = "v" THEN 1 ELSE 0
  BY TogglesTail
<1>2. Intent <=> IF Cardinality(Toggles(keys)) % 2 = 0 THEN privacy_flag ELSE ~privacy_flag
  BY DEF Intent, Toggles
<1>3. Intent' <=> IF n % 2 = 0 THEN privacy_flag' ELSE ~privacy_flag'
  BY DEF Intent, Toggles
<1> HIDE DEF n
<1>4. (n + 1) % 2 = 0 <=> n % 2 # 0
  BY <1>1
<1>5. CASE Head(keys) = "v"
  <2>1. privacy_flag' <=> ~privacy_flag
    BY <1>5
  <2>2. Cardinality(Toggles(keys)) = n + 1
    BY <1>1, <1>5
  <2> QED
    BY <1>2, <1>3, <1>4, <2>1, <2>2
<1>6. CASE Head(keys) # "v"
  <2>1. privacy_flag' <=> privacy_flag
    BY <1>6
  <2>2. Cardinality(Toggles(keys)) = n
    BY <1>1, <1>6
  <2> QED
    BY <1>2, <1>3, <2>1, <2>2
<1> QED
  BY <1>5, <1>6

\* Pressing a key changes the intent if it is a toggle.
LEMMA IntentPressed ==
  ASSUME keys \in Seq(Keys), privacy_flag \in BOOLEAN, privacy_flag' = privacy_flag,
         NEW key \in Keys, keys' = Append(keys, key)
  PROVE  Intent' <=> (IF key = "v" THEN ~Intent ELSE Intent)
<1> DEFINE n == Cardinality(Toggles(keys))
           m == Cardinality(Toggles(Append(keys, key)))
<1>1. n \in Nat /\ m = n + IF key = "v" THEN 1 ELSE 0
  BY TogglesAppend
<1>2. Intent <=> IF n % 2 = 0 THEN privacy_flag ELSE ~privacy_flag
  BY DEF Intent, Toggles
<1>3. Intent' <=> IF m % 2 = 0 THEN privacy_flag ELSE ~privacy_flag
  BY DEF Intent, Toggles
<1> HIDE DEF n, m
<1>4. (n + 1) % 2 = 0 <=> n % 2 # 0
  BY <1>1
<1> QED
  BY <1>1, <1>2, <1>3, <1>4

\* A round that sends a frame although the operator wants privacy has a toggle left
\* to be returned, and pays for the frame.
LEMMA RoundsKept == KeysInv /\ [MCNext]_mcVars => KeysInv'
<1> SUFFICES ASSUME KeysInv, [MCNext]_mcVars PROVE KeysInv'
  OBVIOUS
<1>1. EdgeInv /\ EdgeInv'
  <2>1. [Next]_vars
    BY DEF MCNext, mcVars, Next
  <2> QED
    BY <2>1, EdgeInvariantStep DEF KeysInv
<1>2. /\ keys \in Seq(Keys) /\ privacy_flag \in BOOLEAN /\ sig \in Signal
      /\ allowance \in Nat
      /\ Intent => \A i \in Toggles(keys) : i <= allowance + Spent
      /\ \A i \in Toggles(keys) : i \in Nat \ {0}
  BY <1>1 DEF KeysInv, RoundsCovered, EdgeInv, EdgeTypeOK, Toggles
<1>3. ASSUME allowance' \in Nat, RoundsCovered' PROVE KeysInv'
  BY <1>1, <1>3 DEF KeysInv
<1>4. ASSUME UNCHANGED <<keys, privacy_flag>>, allowance' = allowance, Spent' >= Spent
      PROVE  KeysInv'
  <2>1. (Intent' <=> Intent) /\ Toggles(keys)' = Toggles(keys)
    BY <1>4 DEF Intent, Toggles
  <2>2. Spent \in Nat /\ Spent' \in Nat
    BY DEF Spent
  <2> HIDE DEF Spent
  <2> QED
    BY <1>2, <1>3, <1>4, <2>1, <2>2 DEF RoundsCovered
<1>5. CASE LoopStep /\ allowance' = IF pc = "route" /\ pc' = "send" /\ Intent THEN allowance - 1
                                    ELSE allowance
  <2>1. CASE Capture \/ SendCompletes \/ LogFrame
    BY <1>4, <1>5, <2>1
    DEF Capture, CaptureFrame, SendCompletes, SendFails, SendAnswered, SendReturns, LogFrame,
        Spent
  <2>2. CASE Route /\ ~(pc' = "send" /\ Intent)
    BY <1>4, <1>5, <2>2 DEF Route, Spent
  <2>3. CASE Route /\ pc' = "send" /\ Intent
    <3>1. /\ UNCHANGED <<keys, privacy_flag>> /\ pc = "route" /\ allowance' = allowance - 1
      BY <1>5, <2>3 DEF Route
    <3>2. ~privacy_flag
      <4>1. delay' \in Nat /\ privacy_flag' \in BOOLEAN /\ sig' \in Signal
            /\ route_result' = router_decide(sig', delay', DefaultLatencyMs, privacy_flag')
            /\ route_result'.decision = ROUTE_CLOUD
        BY <1>1, <2>3 DEF EdgeInv, EdgeTypeOK, DecisionStands
      <4> QED
        BY <3>1, <4>1, PrivacyGates, DefaultsMsAssumption DEF ROUTE_LOCAL, ROUTE_CLOUD
    <3>3. (Intent' <=> Intent) /\ Toggles(keys)' = Toggles(keys)
      BY <3>1 DEF Intent, Toggles
    <3>4. Toggles(keys) # {}
      <4> SUFFICES ASSUME Toggles(keys) = {} PROVE FALSE
        OBVIOUS
      <4>1. Cardinality({i \in DOMAIN keys : keys[i] = "v"}) = 0
        BY FS_EmptySet DEF Toggles
      <4> QED
        BY <2>3, <3>2, <4>1 DEF Intent
    <3>5. Spent = 0 /\ Spent' = 1
      BY <2>3, <3>1 DEF Spent
    <3>6. allowance' \in Nat
      BY <1>2, <2>3, <3>1, <3>4, <3>5
    <3> QED
      BY <1>2, <1>3, <2>3, <3>1, <3>3, <3>5, <3>6 DEF RoundsCovered
  <2>4. CASE Poll /\ PollNoKey
    <3>1. keys = <<>> /\ keys' = <<>> /\ allowance' = allowance
      BY <1>5, <2>4 DEF Poll, PollNoKey
    <3> QED
      BY <1>2, <1>3, <3>1 DEF RoundsCovered, Toggles
  <2>5. CASE Poll /\ PollKey
    <3>1. /\ keys # <<>> /\ keys' = Tail(keys) /\ pc = "poll" /\ allowance' = allowance
          /\ privacy_flag' = IF Head(keys) = "v" THEN ~privacy_flag ELSE privacy_flag
      BY <1>5, <2>5 DEF PollKey
    <3>2. Intent' <=> Intent
      BY <1>2, <3>1, IntentStands
    <3>3. Toggles(keys)' = Toggles(Tail(keys)) /\ \A i \in Toggles(Tail(keys)) : i + 1 \in Toggles(keys)
      BY <1>2, <3>1, TogglesTail DEF Toggles
    <3>4. Spent = 1 /\ Spent' \in Nat
      BY <3>1 DEF Spent
    <3>5. \A i \in Toggles(Tail(keys)) : i \in Nat
      BY <1>2, <3>1 DEF Toggles
    <3> HIDE DEF Spent
    <3>6. RoundsCovered'
      BY <1>2, <3>1, <3>2, <3>3, <3>4, <3>5 DEF RoundsCovered
    <3> QED
      BY <1>2, <1>3, <3>1, <3>6
  <2> QED
    BY <1>5, <2>1, <2>2, <2>3, <2>4, <2>5 DEF LoopStep, Poll
<1>6. CASE (CameraFails \/ TrackbarMoves \/ LinkChanges) /\ UNCHANGED <<allowance, counts>>
  BY <1>4, <1>6 DEF CameraFails, TrackbarMoves, LinkChanges, loopVars, Spent
<1>7. ASSUME NEW key \in Keys, PressKey(key),
             allowance' = IF key = "v" /\ ~Intent THEN Len(keys') ELSE allowance
      PROVE  KeysInv'
  <2>1. UNCHANGED <<pc, privacy_flag>> /\ keys' = Append(keys, key)
    BY <1>7 DEF PressKey, loopVars
  <2>2. Intent' <=> (IF key = "v" THEN ~Intent ELSE Intent)
    BY <1>2, <2>1, IntentPressed
  <2>3. Toggles(keys)' = Toggles(keys) \cup (IF key = "v" THEN {Len(keys) + 1} ELSE {})
    BY <1>2, <2>1, TogglesAppend DEF Toggles
  <2>4. Len(keys') = Len(keys) + 1 /\ Len(keys) \in Nat /\ \A i \in Toggles(keys) : i <= Len(keys)
    BY <1>2, <2>1 DEF Toggles
  <2>5. Spent' = Spent /\ Spent \in Nat
    BY <2>1 DEF Spent
  <2> HIDE DEF Spent
  <2>6. CASE key = "v"
    BY <1>2, <1>3, <1>7, <2>2, <2>3, <2>4, <2>5, <2>6 DEF RoundsCovered
  <2>7. CASE key # "v"
    BY <1>2, <1>3, <1>7, <2>2, <2>3, <2>4, <2>5, <2>7 DEF RoundsCovered
  <2> QED
    BY <2>6, <2>7
<1>8. CASE Restart /\ allowance' = 0
  BY <1>3, <1>8 DEF Restart, RoundsCovered, Toggles
<1>9. CASE UNCHANGED mcVars
  BY <1>4, <1>9 DEF mcVars, vars, loopVars, Spent
<1> QED
  BY <1>5, <1>6, <1>7, <1>8, <1>9 DEF MCNext

\* After the key that asks for privacy no more frames leave the device than the rounds
\* the loop needs to return that key, however many keys wait and whatever blocks.
THEOREM PrivacyTakes == MCSpec => []PrivacyTakesHold
<1>1. MCInit => KeysInv
  <2>1. MCInit => keys = <<>>
    BY DEF MCInit, Init
  <2> QED
    BY <2>1, EdgeInitially DEF MCInit, KeysInv, RoundsCovered, Toggles
<1>2. KeysInv => PrivacyTakesHold
  BY DEF KeysInv, PrivacyTakesHold
<1> QED
  BY <1>1, <1>2, RoundsKept, PTL DEF MCSpec
=============================================================================

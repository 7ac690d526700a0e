------------------------------ MODULE EdgeLoop ------------------------------
(***************************************************************************)
(* The camera loop of edge/gesture_detect.py (main): per frame the local   *)
(* reading, the confidence signal, the network estimates, the routing      *)
(* decision, the local or the cloud answer, the log record and one poll of *)
(* the keyboard.  It composes Detector, NetworkProbe and RouteScore with   *)
(* the operator, who presses keys and moves sliders, and with the network, *)
(* whose state may change between any two steps.                           *)
(*                                                                         *)
(* The loop is one thread; its body is split where it hands control to     *)
(* something that takes time (the camera, ping, the cloud, the log, the    *)
(* window system), so that keys and the network can change in between.     *)
(***************************************************************************)
EXTENDS Detector, NetworkProbe, RouteScore

CONSTANTS DefaultPrivacy,    \* cfg["privacy"]["default_flag"]
          LinkDelays,        \* round trips the network can have, in ms
          Down,              \* the network state in which nothing gets through
          MaxFrameSeconds,   \* bound: whole seconds a frame's own work takes
          MaxBlockSeconds,   \* bound: whole seconds ping or send_frame block
          MaxKeys,           \* bound on key presses waiting for waitKey
          FrameWrap          \* frame_id is counted modulo FrameWrap

ASSUME DefaultPrivacyAssumption == DefaultPrivacy \in BOOLEAN
ASSUME LinkAssumption == LinkDelays \subseteq Nat /\ Down \notin Int
ASSUME BoundsAssumption ==
  /\ MaxFrameSeconds \in Nat /\ MaxBlockSeconds \in Nat /\ MaxKeys \in Nat
  /\ FrameWrap \in Nat \ {0, 1}

VARIABLES pc,             \* the part of the loop body that runs next
          frame_id,
          privacy_flag,
          keys,           \* key presses waitKey has not returned yet
          link,           \* the network: a round trip in ms, or Down
          delay,          \* network_delay_ms
          sig,            \* the ConfidenceSignal of the frame
          route_result,
          final_direction,
          source,
          log             \* the last record of the session log, <<>> before the first
loopVars == <<pc, frame_id, privacy_flag, delay, sig, route_result, final_direction, source, log>>
vars == <<detectorVars, probeVars, loopVars, keys, link>>

Links == LinkDelays \cup {Down}
Keys == {"q", "p", "v"}

NoSignal == [has_contour |-> FALSE, aspect_margin |-> 0, mask_noise |-> 0,
             flicker_rate |-> 0, brightness |-> 0]

NoRoute == router_decide(NoSignal, DefaultDelayMs, DefaultLatencyMs, TRUE)

Init ==
  /\ DetectorInit
  /\ ProbeInit
  /\ pc = "capture"
  /\ frame_id = 0
  /\ privacy_flag = DefaultPrivacy
  /\ keys = <<>>
  /\ delay = DefaultDelayMs
  /\ sig = NoSignal
  /\ route_result = NoRoute
  /\ final_direction = None
  /\ source = "local"
  /\ link \in Links
  /\ log = <<>>

-----------------------------------------------------------------------------
(* One frame.                                                              *)

CaptureFrame(scene, seconds) ==
  /\ pc = "capture"
  /\ Update(scene)
  /\ Elapse(seconds)
  /\ sig' = build_confidence_signal(shown'.has_contour, shown'.dims, shown'.contours,
                                    scene.light, history', aspect)
  /\ pc' = "route"
  /\ UNCHANGED <<frame_id, privacy_flag, keys, link, delay, route_result,
                 final_direction, source, log>>

\* capture_array() returned None: break, and the finally clause.
CameraFails ==
  /\ pc = "capture"
  /\ pc' = "stopped"
  /\ UNCHANGED <<detectorVars, probeVars, frame_id, privacy_flag, keys, link, delay, sig,
                 route_result, final_direction, source, log>>

\* ping may fail on a live network (ICMP blocked); it cannot succeed on a dead one.
Pongs == IF link = Down THEN {NoPong} ELSE {link, NoPong}

Probe ==
  \/ SkipPing
  \/ \E pong \in Pongs : \E took \in IF pong = NoPong THEN 0..MaxBlockSeconds ELSE {0} :
       Ping(pong, took)

\* The estimates, the decision, and the choice of the path.  The round-trip estimate
\* is a mean of naturals.
Route ==
  /\ pc = "route"
  /\ Probe
  /\ \E estimate \in {CurrentDelay(pings', lastDelay')} \cap Nat :
       /\ delay' = estimate
       /\ route_result' = router_decide(sig, estimate, PredictedCloudLatency, privacy_flag)
  /\ IF route_result'.decision = ROUTE_LOCAL
     THEN /\ final_direction' = shown.smoothed
          /\ source' = "local"
          /\ pc' = "log"
     ELSE /\ source' = "cloud"
          /\ pc' = "send"
          /\ UNCHANGED final_direction
  /\ UNCHANGED <<detectorVars, frame_id, privacy_flag, keys, link, sig, log>>

SendReturns(direction, took) ==
  /\ pc = "send"
  /\ final_direction' = direction
  /\ Elapse(took)
  /\ pc' = "log"
  /\ UNCHANGED <<detectorVars, frame_id, privacy_flag, keys, link, delay, sig,
                 route_result, source, log>>

\* send_frame is called without a network_probe, so no latency is recorded.
SendAnswered(direction, took) == link # Down /\ SendReturns(direction, took)

\* Faulty: the failure is reported in place of a direction.
SendFailsLoudly(took) == SendReturns("error", took)

\* Any timeout, refusal, reset or unparsable reply: None.
SendFails(took) == SendReturns(None, took)

LogFrame ==
  /\ pc = "log"
  /\ log' = [frame_id |-> frame_id, sig |-> sig, route_result |-> route_result,
             final_direction |-> final_direction, source |-> source]
  /\ pc' = "poll"
  /\ UNCHANGED <<detectorVars, probeVars, frame_id, privacy_flag, keys, link, delay, sig,
                 route_result, final_direction, source>>

-----------------------------------------------------------------------------
(* waitKey: pending slider moves run their callbacks, then at most one key *)
(* is returned.                                                            *)

TrackbarMoves ==
  /\ pc = "poll"
  /\ \/ \E v \in AspectSettings : MoveAspectTrackbar(v)
     \/ \E v \in SmoothSettings : MoveSmoothTrackbar(v)
  /\ UNCHANGED <<probeVars, loopVars, keys, link>>

\* Faulty: a frame answered by the cloud does not advance frame_id.
NextFrameLocalOnly ==
  /\ frame_id' = IF source = "local" THEN (frame_id + 1) % FrameWrap ELSE frame_id
  /\ pc' = "capture"

NextFrame == frame_id' = (frame_id + 1) % FrameWrap /\ pc' = "capture"

\* Faulty: waitKey is not called after a frame answered by the cloud.
PollNotAfterCloud ==
  /\ pc = "poll" /\ (keys = <<>> \/ source = "cloud")
  /\ NextFrame
  /\ UNCHANGED <<privacy_flag, keys>>

PollNoKey ==
  /\ pc = "poll" /\ keys = <<>>
  /\ NextFrame
  /\ UNCHANGED <<privacy_flag, keys>>

\* 'q' leaves the loop before frame_id += 1; 'p' prints the settings.
PollKey ==
  /\ pc = "poll" /\ keys # <<>>
  /\ keys' = Tail(keys)
  /\ privacy_flag' = IF Head(keys) = "v" THEN ~privacy_flag ELSE privacy_flag
  /\ IF Head(keys) = "q" THEN pc' = "stopped" /\ UNCHANGED frame_id ELSE NextFrame

Poll ==
  /\ PollNoKey \/ PollKey
  /\ UNCHANGED <<detectorVars, probeVars, link, delay, sig, route_result,
                 final_direction, source, log>>

-----------------------------------------------------------------------------
(* The operator and the network.                                           *)

PressKey(key) ==
  /\ pc # "stopped"
  /\ Len(keys) < MaxKeys
  /\ keys' = Append(keys, key)
  /\ UNCHANGED <<detectorVars, probeVars, loopVars, link>>

LinkChanges ==
  /\ link' \in Links \ {link}
  /\ UNCHANGED <<detectorVars, probeVars, loopVars, keys>>

\* A new run of the program, appending to the same log.
Restart ==
  /\ pc = "stopped"
  /\ DetectorRestart
  /\ ProbeRestart
  /\ pc' = "capture"
  /\ frame_id' = 0
  /\ privacy_flag' = DefaultPrivacy
  /\ keys' = <<>>
  /\ delay' = DefaultDelayMs
  /\ sig' = NoSignal
  /\ route_result' = NoRoute
  /\ final_direction' = None
  /\ source' = "local"
  /\ UNCHANGED <<link, log>>

SendCompletes ==
  \E took \in 0..MaxBlockSeconds :
    SendFails(took) \/ \E direction \in Reading : SendAnswered(direction, took)

Capture == \E scene \in Scenes, seconds \in 0..MaxFrameSeconds : CaptureFrame(scene, seconds)

LoopStep == Capture \/ Route \/ SendCompletes \/ LogFrame \/ Poll

Next ==
  \/ LoopStep
  \/ CameraFails
  \/ TrackbarMoves
  \/ \E key \in Keys : PressKey(key)
  \/ LinkChanges
  \/ Restart

\* Every step of the loop ends: the camera delivers, ping and send_frame have
\* timeouts, waitKey(1) returns.
Spec == Init /\ [][Next]_vars /\ WF_vars(LoopStep)

-----------------------------------------------------------------------------
LogRecord == [frame_id : 0..(FrameWrap - 1), sig : Signal, route_result : RouteResult,
              final_direction : Reading, source : {"local", "cloud"}]

\* Types of the whole loop: in particular a direction that is shown or logged is LEFT,
\* RIGHT or None whichever path it came by, send_frame failing included.
EdgeTypeOK ==
  /\ DetectorTypeOK
  /\ ProbeTypeOK
  /\ pc \in {"capture", "route", "send", "log", "poll", "stopped"}
  /\ frame_id \in 0..(FrameWrap - 1)
  /\ privacy_flag \in BOOLEAN
  /\ keys \in Seq(Keys) /\ Len(keys) <= MaxKeys
  /\ link \in Links
  /\ delay \in Nat
  /\ sig \in Signal
  /\ route_result \in RouteResult
  /\ final_direction \in Reading
  /\ source \in {"local", "cloud"}
  /\ log \in LogRecord \cup {<<>>}

\* While the camera is marked private no frame is on its way to the cloud, and the
\* log never shows a private frame (its cloud_cost is INFINITY) answered by the cloud:
\* the gate in router.c holds whatever keys arrive while a frame is in flight.
PrivateFramesStayLocal ==
  /\ pc = "send" => ~privacy_flag
  /\ log # <<>> => (log.source = "cloud" => log.route_result.cloud_cost # INFINITY)

\* With a contour the local cost stays at or below 0.425 (no margin 0.20, noise 0.15,
\* flicker 0.15 * 1/2, as the majority is at least half of the votes).
SlowForContour(d) == 3 * d + 4 * DefaultLatencyMs > 850

\* A frame with a contour is not sent over a network whose estimate is that slow
\* (177 ms with the default cloud latency, which never changes): the worst readings
\* of all signals together cannot outbid the network term.
BadNetworkKeepsContourLocal ==
  pc = "send" /\ sig.has_contour => ~SlowForContour(delay)

\* A frame without any contour costs at least 0.55 locally (0.35, and no margin 0.20).
FastForEmpty(d) == 3 * d + 4 * DefaultLatencyMs <= 1100

\* A frame in which nothing was found is answered by the cloud unless it is private
\* or the network estimate is slow (over 260 ms): the local path never gets to
\* report "nothing" on a usable network.
EmptySceneEscalates ==
  /\ pc \in {"send", "log", "poll"}
  /\ ~sig.has_contour /\ FastForEmpty(delay)
  /\ route_result.cloud_cost # INFINITY
  => source = "cloud"

\* 'q' stops the program however many keys were typed before it and whatever the
\* network does: send_frame and ping cannot hold the loop for ever.
QuitStops == (\E i \in DOMAIN keys : keys[i] = "q") ~> pc = "stopped"

-----------------------------------------------------------------------------
(* Why the routing properties hold: the inductive invariant of the proofs. *)

\* The predicted cloud latency stays the default: nothing ever records one.
NoCloudLatency == cloudLatencies = <<>>

\* A frame's flicker is at most one half; without a contour there is no margin.
SignalFits ==
  /\ 2 * sig.flicker_rate <= Unit
  /\ ~sig.has_contour => sig.aspect_margin = 0

\* From the decision to the poll, the decision is the router's on what is still the
\* signal, the delay and the privacy flag, and source tells which path it chose.
DecisionStands ==
  pc \in {"send", "log", "poll"} =>
    /\ route_result = router_decide(sig, delay, DefaultLatencyMs, privacy_flag)
    /\ source = "cloud" <=> route_result.decision = ROUTE_CLOUD
    /\ pc = "send" => source = "cloud"

LogIsHonest ==
  log # <<>> => (log.source = "cloud" => log.route_result.cloud_cost # INFINITY)

\* The routing decision of a frame stands until it is logged, on a signal whose parts
\* fit together; inductive, and what the safety properties above follow from.
EdgeInv == EdgeTypeOK /\ NoCloudLatency /\ SignalFits /\ DecisionStands /\ LogIsHonest

-----------------------------------------------------------------------------
(* What the repository says and the code does not do.                      *)

\* cloud_client.py:75 "A bad network is exactly the condition the router should already
\* be trying to avoid routing into": once the network is down for good, frames
\* eventually stop being sent to it.
DeadNetworkAvoided ==
  <>[](link = Down /\ pc # "stopped") /\ []<>PingDue => <>[](pc # "send")
=============================================================================

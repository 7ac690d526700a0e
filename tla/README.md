# RouteEdge in TLA+

TLA+ modules, TLC configurations and TLAPS proofs kept beside the RouteEdge code.
Paths such as `edge/network_probe.py:60` are relative to the repository root.

1. [The system](#1-the-system)
2. [Modules](#2-modules)
3. [From code to model](#3-from-code-to-model)
4. [What is checked](#4-what-is-checked)
5. [Fairness](#5-fairness)
6. [What is proved](#6-what-is-proved)
7. [Where code and documentation disagree](#7-where-code-and-documentation-disagree)
8. [What is not modelled](#8-what-is-not-modelled)
9. [Plan](#9-plan)
10. [Running it](#10-running-it)

## 1. The system

RouteEdge is two routers in one repository. The first runs on a Raspberry Pi with a camera
and decides, frame by frame, whether the local gesture reading is good enough or the frame
goes to a cloud model. The second is an HTTP service that sends LLM prompts to an Ollama
endpoint on the Pi or on a GPU server, behind a chat page.

| Component | State | Operations | Talks to |
|---|---|---|---|
| Confidence signal `edge/confidence_signal.py` | none | `build_confidence_signal` | detector window, frame router |
| Frame router `edge/router/router.c` | none | `router_decide` | camera loop |
| Direction detector `edge/gesture_detect.py` | window of readings, trackbar settings | `update`, trackbar callbacks | camera loop, window system |
| Network probe `edge/network_probe.py` | two bounded deques, time of the last ping | `current_delay_ms`, `predicted_cloud_latency_ms`, `record_cloud_latency` | `ping`, camera loop |
| Camera loop `edge/gesture_detect.py` `main` | frame number, privacy flag, the frame in work | capture, route, send or not, log, poll a key | all of the above, cloud client, log |
| Cloud client `edge/cloud_client.py` | the call in work | `send_frame` | cloud server, over TCP |
| Cloud server `cloud/server.py`, `cloud/load_agent.py` | accept queue, one thread per connection, load counter | accept, handle, count | client, gesture model |
| Gesture model `cloud/gesture_model.py` | one MediaPipe graph shared by all threads | `predict` | server |
| LLM router `router/router.py` | none of its own; a thread per request | `/route`, `/infer` | two Ollama endpoints, chat page |
| Chat page `web/index.html` | messages, button, fetches in flight | `sendPrompt` | LLM router |
| Benchmark programs `edge/profiler.py`, `scripts/test_server.py` | rows in memory, a CSV file | request, save | Ollama |
| Frame logger `edge/logger.py` | the session's log file | `log` | camera loop, dashboard |
| Dashboard `dashboard/app.py`, `dashboard.html` | the last records, an offset into the log, the page | `tail_file`, `/ingest`, `/api/records`, `refresh` | the log or a copy of it |
| Baseline experiments `experiments/` | the shaping of the link | `apply_condition`, `decide_baseline` | `tc netem`, frame router, probe |
| C client `edge/router/network_client.c` | the call in work | `send_frame_to_cloud` | cloud server |
| Analysis, setup and demo scripts | | | not modelled, see 8 |

What is hard here is not any one function but what lies between them:

* **Keys against frames.** The loop reads one key per frame, after the frame was routed and
  sent; `ping` and `send_frame` block for seconds in the meantime. A request for privacy is
  honoured a frame late for each key that waits before it, never later, and never for a
  frame already routed.
* **Stale estimates.** The router decides on a rolling mean of old pings, on a latency that
  is predicted, and on a vote over a window whose length the operator moves.
* **Abandoned exchanges.** The client gives up after its timeouts, the server has none.
  Both sides carry on with different ideas of the call; the server may stop and start; a
  connection may die without a FIN.
* **Three calls, one decision.** The LLM router asks one endpoint, then the other, then
  posts. Any of the three answers may be out of date when it is used.
* **Two prompts on one page.** Only the button is disabled while a prompt is under way; the
  Enter key is not.
* **A log read while it is written.** The dashboard follows a copy of the log that grows by
  any number of bytes, ends inside a line, vanishes and is replaced; its page fetches every
  second whether the last fetch has ended or not.
* **A clock that is set.** The probe measures its interval with the wall clock.
* **Programs that end early.** The benchmarks keep everything in memory and write at the end.

The correctness properties that follow from these are in section 4, the exact places where
each hazard bites in `PROJECT.json`.

## 2. Modules

| Module | Models | Extends |
|---|---|---|
| `ConfidenceSignal` | the four scored readings and brightness | |
| `RouteScore` | both costs, the privacy gate, the decision | `ConfidenceSignal` |
| `Detector` | window, vote, sliders | `ConfidenceSignal` |
| `NetworkProbe` | deques, rate limit, estimates, a clock that is set back | |
| `Experiment` | the shaped link, the probe behind it and the four policies | `NetworkProbe`, `RouteScore` |
| `EdgeLoop` | the camera loop, composing the three above with operator and network | `Detector`, `NetworkProbe`, `RouteScore` |
| `FrameService` | abstract: what `send_frame` promises | |
| `CloudExchange` | Python or C client, TCP, server; implements `FrameService` | instance of `FrameService` |
| `LiveView` | log, its copy, dashboard server, page | |
| `LlmCosts` | predictions, normalisation, cheaper target | |
| `LlmRouter` | requests, decisions, endpoints | `LlmCosts` |
| `WebChat` | the chat page in front of `LlmRouter` | `LlmRouter` |
| `Profiler` | the two benchmark programs and their file | |
| `MC*` | inputs and history variables | the component |
| `RouteScoreProofs` | lemmas on signals, costs and the window | `RouteScore`, `Detector` |
| `DetectorProofs` | theorems | `MCDetector`, `RouteScoreProofs` |
| `ExperimentProofs` | theorems, and lemmas on sums and means | `MCExperiment`, `RouteScoreProofs` |
| `EdgeLoopProofs` | theorems | `MCEdgeLoop`, `RouteScoreProofs` |
| `CloudExchangeProofs` | theorems, the refinement of `FrameService` | `CloudExchange` |
| `LlmRouterProofs` | theorems on router, cost model and page | `WebChat`, `MCLlmRouter` |
| `LiveViewProofs` | theorems | `MCLiveView` |
| `ProfilerProofs` | theorems | `Profiler` |

Operators introduced by a comment `Faulty:` are deliberately wrong variants of the operator
that follows them. No module uses them. Replacing the right one by the wrong one makes TLC
find a violation; that is how each property was shown to have teeth.

## 3. From code to model

**Numbers.** Floats in [0, 1] are integers in `0..Unit`. The costs of `router.c` are
multiplied out to integers, so their comparison is exact; the code compares the same sums in
32-bit floats and may differ only at a tie up to rounding. Milliseconds and millijoules are
integers. The LLM router's normalised costs are in ten-thousandths.

**Frames** are scenes: how many contours the mask has, whether the largest is large enough
and has enough points, its aspect ratio, the side its tip points to. Colour sliders and
`min_area` only change which scene a frame becomes, and any scene may follow any other.
A frame sent to the cloud is what the model would say of it alone.

**The camera loop** (`gesture_detect.py` `main`) is one thread. Its body is cut where it
hands control to something that takes time: `CaptureFrame` (read, `update`, signal),
`Route` (probe, decision), `SendAnswered`/`SendFails`, `LogFrame`, `Poll` (`waitKey`, which
also runs trackbar callbacks: `TrackbarMoves`). Key presses, link changes and time fit
between any two. `CameraFails` is the `break` on a missing frame, `Restart` a new run on the
same log. `send_frame` is called without the probe, as in the code, so `cloudLatencies`
stays empty; `RecordCloudLatency` exists in `NetworkProbe` and is exercised there.

**Time.** `NetworkProbe` keeps whole seconds since the stored instant, up to the ping
interval. A ping that blocks advances it *after* the instant was stored, as the code does.
`ClockSetBack` sets the wall clock back: the seconds may become negative, and no ping is due
until they have come up to the interval again.

**The experiments.** `apply_condition` deletes the old qdisc, ignores a failure, adds the
new one and raises on a failure: afterwards the preset is in force or none is. A preset is
its delay and its jitter, that is three possible round trips (`RoundTrips`); the rate is left
out. `decide_baseline` is the function of `run_baselines.py`, applied to what the probe
returned last. One estimate is used by all policies, which is what the experiments compare.

**The live view.** Frame `n` is the n-th one logged in any session; of its record only the
privacy is kept. A line of the file is three pieces (the beginning of the JSON object, the
rest, the newline), and `Sync` lets the copy grow by any number of them. `TailFinds`,
`TailReads`, `TailAppends` are one poll of `tail_file`, cut where another thread or the file
system can come in between: `exists`, `open` and the reading up to the end, one `append`
under the lock after the other. A line that grows while it is read is two polls here; they
have the same effect. `TailDies` is the exception of `open` on a file that just vanished.
`api_records` and `Render` are the two halves of `refresh()` around its `await`.

**The exchange.** A connection carries two queues of items (prefix, JPEG or part of one,
reply, FIN). `Cut` makes a connection lose everything from then on, FIN included. Each
client timeout is an action enabled whenever the phase is, so every race of a late answer
with a timeout is there. The C client makes the same calls; its single `recv` (`RecvOnce`) may
return the first part of a reply. Handler threads are actions per connection from
`connection_started` to `close`. The model shared without a lock answers a frame alone with
its direction, and frames in it together with the direction of any of them, or nothing.

**The LLM router.** One phase per step that can see a different world: first health check,
second health check with the decision, connect and post, answer. Endpoint states are *up*,
*failing* (5xx), *garbled* (200 without JSON), *silent*, *down*, and change at any moment.
A garbled 200 raises outside the `try` and becomes the framework's 500.

**The chat page.** `SendPrompt` is `sendPrompt` up to the `fetch`, `ReplyShown` and
`FetchFails` what follows it. The page finds the loading message of a prompt by its id
(`LoadingAt`) and removes it or writes the error into it. Sending does not test `disabled`, because the Enter key does not.

**The benchmarks.** One module for both: `appends` says which. The file is the sequence of
the headers and rows written to it. A kill or a full disk may cut what is being written
anywhere, also inside a row (`Killed`): such an entry is not `whole`, and what the next run
appends goes on in the same line of text (`StartsLine`). A row that lost no more than its
newline counts as one that lost its end. The model speaks of lines of text; a row cut inside a
quoted error message also hides rows from a CSV reader, up to the next quote. Pages of a file
that reach the disk out of order at a power loss are not modelled.

## 4. What is checked

Nine configurations that hold, three that show a disagreement (section 7).

| Run | Properties | Instance |
|---|---|---|
| `Detector` | `DetectorTypeOK`, `FlickerMatchesVote`, `NoGhostDirection`, `WindowNeverGrowsPastSetting` | six scenes, windows of 1 to 4, sliders at and below their floors |
| `Experiment` | `ExperimentTypeOK`, `EstimateConverges`, `EstimateIsMeasured`, `PoliciesAreMonotone`, `SameGestureReroutes` | windows of 2, the three presets and no shaping, two cloud times, lost pings, a clock set back by up to an interval and a second |
| `EdgeLoopKeys` | `EdgeTypeOK`, `PrivateFramesStayLocal`, `PrivacyTakesHold`, `LogNumbersFrames`, `QuitStops` | two waiting keys, two scenes, a link up and down |
| `EdgeLoopRouting` | `EdgeInv`, `BadNetworkKeepsContourLocal`, `EmptySceneEscalates` | four scenes, windows of 3 and 2, delays 178 and 350 ms and down, one waiting key, a slider |
| `CloudExchange` | `ExchangeTypeOK`, `LoadCountsHandlers`, `KeepsServicePromise`, `HandlersEndUncut` | two connections, two directions, cuts, server restarts |
| `LlmRouter` | `RouterTypeOK`, `PrivatePromptsStayOnEdge`, `AnsweredWhereItRan`, `FailuresHaveCauses`, `EveryRequestEnds`, `LatencyOnlyIsFastest`, `EnergyOnlyStaysOnEdge`, `ServerChoiceIsMonotone` | one request: six kinds of them, and routing questions over seven lengths up to the cap, four network latencies and all priorities in tenths; all endpoint states |
| `LiveView` | `ViewTypeOK`, `RecordsInOrder`, `OnlyTornLinesAreLost`, `PageCatchesUp`, `LogReachesPage` | three frames, two records kept, two refreshes at a time, one restart or replaced file, by tail or by push |
| `WebChat` | `LoadingMeansPending`, `ButtonComesBack`, `PrivateChatStaysOnEdge` | two prompts, all endpoint states |
| `Profiler` | `SavedRowPerRequest`, `FreshFile`, `EarlierRunsPreserved` | three requests, three runs, on an old file or none |

What they show:

* **Detector.** The flicker rate the router sees is the disagreement with the direction the
  operator is shown, although the code computes the majority twice with different
  tie-breaks. However the slider is moved, a direction not seen for the longest window's
  worth of frames is never shown.
* **Probe.** A full window of equal answers makes the estimate that answer. The default is in
  use until a ping is first answered; from then on the estimate lies between two of the last
  `HistoryLen` round trips (`recent` keeps them apart from the deque), so no lost ping
  brings the default back and nothing older counts.
* **Experiments.** No policy takes a frame back from the cloud while the frame reads no better
  and the network is estimated no slower, so the four are comparable on one scenario. On a
  link shaped for good the same borderline gesture ends up in the cloud under the preset
  *good* and on the Pi under *bad* (`docs/demo_video_script.md`, beats 3 and 4), for the
  router and for the threshold rule, whatever was measured, lost and shaped before and
  however far the clock was set back. `tc` failing between the old and the new qdisc is one
  of the things that may happen before.
* **Live view.** The records kept are in the order of the frames and none is kept twice,
  restarts and replaced files included. `tail_file` passes over a line only if a poll ended
  inside it, or if the file replaced another and is not yet longer than the offset kept from
  that. The page comes to show what is kept however its refreshes overtake each other,
  as soon as it can read a response again. In an undisturbed session the newest frame gets
  to the page.
* **Loop.** No frame is on its way to the cloud while the flag is set. After the key that
  asks for privacy at most one frame per waiting key still leaves (`allowance` in
  `MCEdgeLoop` counts them). In every run of the program the records are numbered from 0
  without a gap, each with the number of the frame it belongs to, over any mix of paths:
  `logged` and `captured` count records and frames, and only a restart sets them back.
  `q` stops the program whatever was typed before it.
* **Routing.** With the window, the estimates and the weights composed, a frame with a
  contour is never sent over a link estimated slower than 177 ms, because no window can make
  the local cost exceed 0.425; an empty frame on a link of at most 260 ms always is, because
  it costs at least 0.55. A round trip of 178 ms is just beyond the first limit, the mean of
  178 and 350 (264 ms) just beyond the second, and the default of 50 ms within both.
* **Exchange.** Client, TCP and server implement `FrameService`: each call ends, with None or
  with the answer to its own frame, unless an abandoned frame could still reach the shared
  model. The late reply of an earlier call never becomes that of the next. The load counter
  counts exactly the handlers between start and finish on each of their ways out. As long
  as no connection is cut every accepted connection is closed.
* **LLM router.** A private prompt in the adaptive mode never reaches the server, not even
  when the Pi is down. No prompt runs twice, and a 200 comes from the target it names. An
  error, or a detour to the dearer target, always has a cause: that target was not up at
  some moment since the request arrived. Every request ends.
* **Cost model.** The choice is monotone in length, network and priority, although
  normalising each pair by its own maximum could have broken it. At priority 0 every
  admissible length stays on the Pi: the energies cross only at 323 tokens.
* **Page.** One loading message for each prompt in flight and none for the others, and the
  button comes back, in every overtaking of two prompts, every failure and lost fetch.
* **Benchmarks.** After a completed save the file ends with a complete row for each request
  in order, under a header and each in a line of its own. An earlier save that was
  interrupted may have taken the header, or left a cut row in whose line the first new one
  stands, and does no more harm than that (`torn` remembers it). The fresh file holds
  nothing else; the appended one never loses a line.

**Why the bounds are enough.** The probe's window of 2 and interval of 2 s stand for 20 and
2 s: a mean over old and new answers, a full window that rolls and an interval that is partly
over all occur. The default is the code's 50 ms, which is also a round trip of the preset
*medium*. Three frames and a deque of 2
make the deque roll over, with a torn line in it and one after it; two refreshes overtake
each other. `MaxUpsets` allows one restart or one replaced file, `MaxStepBack` one second
beyond the interval. The window of the vote is at most 4 readings of three values:
ties, majorities and all-None windows occur. Two connections give one abandoned exchange next
to a running one, which is what the client, itself sequential, can produce; a longer tail
of abandoned ones adds threads that act alone. The accept queue never reaches its limit
with two connections: that limit (`Len(queue) <= MaxConcurrent` in `Establish`) is modelled
and not exercised. Jobs of the LLM router share nothing but the endpoints, which may change
at every step anyway; one job sees everything there is, and the proofs cover any number. The
page needs two because its messages are shared. Frame numbers are counted modulo
`FrameWrap`, key presses waiting are at most `MaxKeys`, blocking calls take at most
`MaxBlockSeconds` and a frame's own work `MaxFrameSeconds`, benchmark runs `MaxSessions`.

`CHECK_DEADLOCK FALSE` is set only for `Profiler`, where the system stops after its last run.

## 5. Fairness

* `EdgeLoop`: weak fairness of `LoopStep`. The camera delivers, `ping` has `-W 1`,
  `send_frame` has its timeouts, `waitKey(1)` returns. Nothing is assumed of the operator,
  the sliders or the network.
* `CloudExchange`: weak fairness of the client's step (its timeouts bound every phase), of
  `accept`, and of each handler's step. A handler blocked in `recv` has no enabled step,
  so nothing is assumed of it: that is why `HandlersEnd` fails.
* `LlmRouter`: weak fairness per request. Both HTTP calls carry timeouts.
* `Experiment`: time passes (weak), and of the pings that are due again and again one is
  answered (strong fairness of `PingAnswered`): a link that is up does not lose every ping.
  `SameGestureReroutes` asks for no more of the link than that it is not shaped again.
* `LiveView`: weak fairness of the copy (it catches up), of the thread (it polls every half
  second) and of each refresh (the timer fires, the request is answered). Nothing is assumed
  of the camera loop, of restarts or of the posts to `/ingest`, which may be lost.
* `Detector`, `WebChat`, `Profiler`: safety only.

## 6. What is proved

TLAPS checks these for every value of the constants, under the assumptions stated beside
their declarations (`ASSUME` in each module; all are facts about configuration values: the
set of connections is finite, windows have a largest position, an old benchmark file is as
a completed save leaves it, tokens and latencies are in the bounds `InferenceRequest` admits, and so on).
TLC evaluates every assumption on the instance of the run.

Every invariant and every action property that a passing run checks has a theorem, and so has
the safety half of the refinement. What TLC adds are liveness and the small instances on
which each formula was tried before it was proved.

| Module | Theorem | States |
|---|---|---|
| `RouteScoreProofs` | `MonotoneRouting` | a frame that is escalated would be with any worse reading over a network that is no slower |
| `DetectorProofs` | `DetectorTypes` | `DetectorSpec => []DetectorTypeOK` |
| | `FlickerVote` | `DetectorSpec => []FlickerMatchesVote` |
| | `WindowBounded` | `DetectorSpec => WindowNeverGrowsPastSetting` |
| | `NoGhost` | `MCSpec => []NoGhostDirection` |
| `ExperimentProofs` | `BaselinesAreMonotone` | the step of `PoliciesAreMonotone` for any measurements and every threshold |
| | `ExperimentTypes` | `Spec => []ExperimentTypeOK` |
| | `EstimateForgets` | `MCSpec => []EstimateConverges` |
| | `PoliciesMonotone` | `MCSpec => PoliciesAreMonotone` |
| | `EstimateMeasured` | `MCSpec => []EstimateIsMeasured` |
| `EdgeLoopProofs` | `EdgeInvariant` | `Spec => []EdgeInv` |
| | `EdgeTypes` | `Spec => []EdgeTypeOK` |
| | `Privacy` | `Spec => []PrivateFramesStayLocal` |
| | `BadNetwork` | `Spec => []BadNetworkKeepsContourLocal` |
| | `EmptyFrame` | `Spec => []EmptySceneEscalates` |
| | `LogNumbers` | `MCSpec => LogNumbersFrames` |
| | `PrivacyTakes` | `MCSpec => []PrivacyTakesHold` |
| `CloudExchangeProofs` | `ExchangeTypes` | `Spec => []ExchangeTypeOK` |
| | `LoadFigure` | `Spec => []LoadCountsHandlers` |
| | `ImplementsService` | `Spec => Service!ServiceInit /\ [][Service!ServiceNext]_(Service!serviceVars)` |
| `LlmRouterProofs` | `RouterTypes` | `Spec => []RouterTypeOK` |
| | `PrivatePrompts` | `Spec => []PrivatePromptsStayOnEdge` |
| | `AnswersFromTarget` | `Spec => []AnsweredWhereItRan` |
| | `FailureCauses` | `MCSpec => []FailuresHaveCauses` |
| | `LatencyOnly` | `MCSpec => []LatencyOnlyIsFastest` |
| | `EnergyOnly` | `MCSpec => []EnergyOnlyStaysOnEdge` |
| | `ServerChoice` | `MCSpec => []ServerChoiceIsMonotone` |
| | `OneLoadingEach` | `PageSpec => []LoadingMeansPending` |
| | `ButtonBack` | `PageSpec => []ButtonComesBack` |
| | `PrivateChat` | `PageSpec => []PrivateChatStaysOnEdge`, if the page asks in the adaptive mode, as `web/index.html:312` does |
| `LiveViewProofs` | `ViewTypes` | `Spec => []ViewTypeOK` |
| | `RecordOrder` | `MCSpec => []RecordsInOrder` |
| | `OnlyTorn` | `MCSpec => []OnlyTornLinesAreLost` |
| `ProfilerProofs` | `EarlierRuns` | `Spec => EarlierRunsPreserved` |
| | `SavedRows` | `Spec => []SavedRowPerRequest` |
| | `Fresh` | `Spec => []FreshFile` |

**Detector.** `VoteInv` adds to the types that the direction shown is a winner of the vote
over the *current* window. The flicker rate counts the readings that differ from *a* winner,
and winners have equally many votes, so the two tie-breaks cannot be told apart. `SilenceInv`
relates the history variable to the window: a reading at a position was made no more frames
ago than there are newer ones, and the window is never longer than the longest setting.

**Experiments.** `ExperimentTypeOK` is inductive; its proof needs that no preset has more
jitter than delay (`RoundTripsAreDelays`) and that a full deque drops one entry for each it
takes (`PushBoundedTyped`). `ProbedInv` adds that the estimate is that of the pings kept and
that the run of equal answers is at their end. What a mean *is* takes induction: `FoldSeq` adds
in an order of its own, by recursion over sets of positions. The recursion has a solution
(`SumsExist`) and only one (`SumsAgree`), because a family of subsets of a finite set has a
smallest member (`SmallestMember`, from the library's theorem on strict inclusion); the same
argument bounds a sum by multiples of what bounds its members (`SumBetween`), and with a lemma
on rounded quotients (`QuotientBetween`) a mean by what bounds its entries (`MeanBetween`,
`MeanOfEquals`). `ProbedInv` also keeps `recent` equal to the deque read backwards, whatever
the two do at their limits (`RecentAreKept`). Were every recent round trip above the estimate,
the mean would be at least the estimate and one; so `EstimateMeasured` has its two witnesses.

**Camera loop.** None of the three routing properties is inductive: each speaks of a decision
made earlier, on values that could have changed. `EdgeInv` adds that from the decision to the
poll the decision is still the router's on the *current* signal, delay and privacy flag
(`DecisionStands`), that nothing records a cloud latency (`NoCloudLatency`), that flicker is
at most one half and that no contour means no margin (`SignalFits`), and that the log's last
record does not show a private frame answered by the cloud (`LogIsHonest`). The arithmetic is
in `RouteScoreProofs`: the majority of two directions is at least half of the votes
(`MajorityIsHalf`), so flicker is at most one half (`FlickerAtMostHalf`), so a contour costs
at most 0.425 (`ContourCostsAtMost`) and none at least 0.55 (`NoContourCostsAtLeast`).
`Numbering` ties the number of the frame in work to the records written and the frames
captured since the program started, in each phase of the loop. `KeysInv` counts the rounds the
loop needs: while the operator wants privacy, every toggle still waiting is within the allowance
(`RoundsCovered`), each poll takes one key and one of the allowance.

**Exchange.** `LoadFigure` follows the cardinality of the set of counted handlers through each
step. For the refinement `ExchangeInv` adds to the types: a connection waits for `accept` once
and has no thread then (`QueueWaits`); a connection the server has let go of carries nothing
(`ReleasedIsEmpty`), so a port may be used again; what the running call's connection carries is
the prefix and last its own frame, and its handler infers on that frame only (`OwnFrame`); a
reply on it is to that frame or disturbed (`OwnReply`); and a call that began with no abandoned
frame in the server meets none (`Undisturbed`). Every step is then `Call`, `GiveUp`, `Return`,
`StrayEnds` or a stutter of `FrameService`.

**LLM router.** `RouterInv` is `RouterTypeOK` and, for each job, `JobInv`: nothing was
received before the post, afterwards only by the job's target, and the target is the forced
one if the request forces one. Jobs other than the acting one keep it because it reads no
shared variable but the endpoints (`OthersUntouched`). `NewsInv` adds, for each job, what the
endpoints it asked must have been. The cost model is integer arithmetic with three divisions in
a row; `Ratios` says that rounding down keeps the order of fractions, `LongerAnswers` what a longer
answer adds to each prediction. The server is preferred only where the Pi is slower and the
server dearer, so each normalised pair has one member at its maximum and the choice compares
two ratios (`ServerPreferred`); both move the same way (`PreferenceMonotone`).

**Page.** `PageInv` counts loading messages one by one: exactly one position holds that of a
prompt under way, and none holds that of another. Without it the removal by `id` would not be known to
take the right element.

**Live view.** `InOrder` (in `ViewInv`) keeps the batch of `tail_file` behind the records and
every record below the position kept, also across a replaced file, where the old position
hides the new lines. `Passed` says of each line whose beginning was passed that it was parsed,
was torn or is hidden.

**Benchmarks.** `ProfilerInv` says which rows are in memory and which part of the file they
have become in each phase of a save that may stop anywhere, and that the file has its header
and no cut line unless a save was interrupted (`Intact`). A file that ends with the rows of
this run has all their lines but the first begun by the newline of the row before.

**Only model-checked.** Liveness under fairness, which this prover does not reach: `QuitStops`,
`EveryRequestEnds`, `HandlersEndUncut`, `SameGestureReroutes`, `PageCatchesUp`,
`LogReachesPage`, and the half of `KeepsServicePromise` that says every call ends. The three
runs that show a disagreement are TLC's too.

## 7. Where code and documentation disagree

With a run that shows it:

* `EdgeLoopDeadNetwork`: `cloud_client.py:75` calls a bad network "exactly the condition the
  router should already be trying to avoid routing into". A failed ping changes no estimate
  (`network_probe.py:60`), so after the link dies the last good estimate is trusted for ever
  and frames keep being sent, each for the length of a connect timeout.
* `CloudExchangeHang`: `docs/protocol_spec.md:35` says the server "never leaves the connection
  hanging". Its sockets have no timeout; a peer that vanishes without a FIN keeps its thread
  and a unit of the load figure.
* `WebChatErrors`: a reply with an error status leaves no message on the page. The loading
  message is removed (`web/index.html:327`) before the status is looked at, and the error
  handler writes into the loading message.

Read in the code while modelling, without a run:

* `README.md:20-23` lists scene brightness among the signals; no term of `router.c` reads it.
* Lowering the Smooth slider never shortens a window that is already longer: one reading
  leaves for each that enters (`gesture_detect.py:121`).
* `network_probe.py:69` says `record_cloud_latency` is called after every cloud request; the
  loop passes no probe to `send_frame`, so the predicted latency stays at 80 ms.
* A shape far *below* the aspect threshold has a large margin: a square blob reads as
  confident (`confidence_signal.py:79`; `tests/test_confidence_signal.py:43-48` says both).
* On a dead link a ping takes one second and the connect of the escalated frame another; the
  instant stored is the one before the ping, so every frame is pinged for.
* `max_concurrent_connections` is the listen backlog only; threads are unlimited and the load
  fraction may exceed 1 (`cloud/server.py:105`).
* `always_server` is tested before the privacy constraint (`router.py:515`), so a private
  prompt in that mode does go to the server. `PrivatePromptsStayOnEdge` exempts it.
* "Neither RouteEdge compute target is currently available" (`router.py:555`) may be said
  although at every moment one was: the checks are one after the other.
* An answer without tokens crashes `edge/profiler.py:218`, which formats a rate that is None,
  and loses the rows of the run. `Profiler` models the crash; no document promises that the
  rows survive it, so no property does.
* A first save of `edge/profiler.py` that is interrupted before its header reaches the disk
  leaves a file that never gets one: whether it is needed is whether the file exists.
* A private frame is logged with an infinite `cloud_cost`, which `json.dumps` and Flask write
  as `Infinity`. `dashboard.html:78` means to show it as "∞", but `res.json()` throws on the
  whole response, so the page stands still while one private frame is among the last 500.
  `PageCatchesUp` and `LogReachesPage` therefore speak of records without such a frame.
* Two refreshes of the page may overtake each other, and the page steps back for a moment.
* After the log is replaced, `tail_file` stays silent until the new file is longer than the
  offset it kept, and starts there; a line it read half of is lost for good; the thread ends
  if the file vanishes between `exists` and `open` (`dashboard/app.py:62-63`), after which
  nothing is followed. `LogReachesPage` is about a file that is never replaced. The call
  that starts it is commented out (79-81), and no code posts to `/ingest`.
* A change of the link is believed only as the window of 20 pings fills, 40 seconds, longer
  than the 30 seconds of a demo beat; a frame without a contour still goes to the cloud over
  the preset *bad* (0.55 against 0.46).
* `network_client.c` reads its reply with one `recv`, has no use for `CONNECT_TIMEOUT_SEC`
  (the two seconds of `SO_SNDTIMEO` bound `connect`), and would be killed by `SIGPIPE` outside
  of a process that ignores it, as Python does.
* The energy figure of a frame spans the time since the *previous* frame was logged, so it
  contains the drawing and the poll of the previous frame (`energy_estimator.py:41` says "that frame's
  processing window"), and it is negative after the clock was set back.
* `benchmarks/results/edge_results.csv` has 11 columns; the program appends rows of 18.

## 8. What is not modelled

* Pixels, MediaPipe, JPEG, HTTP and JSON encodings: data no property tells apart.
* The C client's buffer sizes, `SIGPIPE` and the check of the IP string.
* The energy figure: a float of CPU load and wall time that nothing in the loop reads back.
* Timestamps, the page's figures and layout, the rate of a preset.
* Whether the privacy flag should survive a restart: the code starts from the configuration
  and no document says otherwise.
* Start-up of the camera loop outside its `try` block.
* `run_scenario` is a placeholder that calls no policy; `collect_results.py` converts finished
  files in one pass; `analysis/` is offline plotting; scripts install things.

## 9. Plan

Done, in the order of importance: frame routing, detector, probe and the loop that composes
them; the exchange and its abstract service; the LLM router, its cost model and the page; the
benchmarks; the log's way to the dashboard; the experiments; a proof of every safety property
a run checks (section 6).

What the code has left to model is in section 8. The server with three connections, so that
its accept queue fills, is modelled and beyond what TLC finishes in minutes.

Next, what the proofs could still say:

1. That a poll of an undisturbed file parses every whole line, the safety side of
   `LogReachesPage`.
2. That a full window of one preset decides the borderline gesture, from `EstimateMeasured`:
   the safety side of `SameGestureReroutes`.
3. What the routing bounds become when `record_cloud_latency` is called after each request, as
   `network_probe.py:69` intends.

## 10. Running it

    tlc -config EdgeLoopKeys.cfg MCEdgeLoop
    tlapm EdgeLoopProofs.tla

The module of each configuration is in `PROJECT.json`. The slowest runs take about a minute
on two cores.

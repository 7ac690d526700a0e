--------------------------- MODULE DetectorProofs ---------------------------
(***************************************************************************)
(* Theorems about the direction detector for every set of scenes, every    *)
(* slider position and every window length.                                *)
(***************************************************************************)
EXTENDS MCDetector, RouteScoreProofs

\* What is shown is a vote of the window, which no setting makes longer than the longest.
VoteInv ==
  /\ DetectorTypeOK
  /\ shown.smoothed \in Smoothed(history)

\* The window is no longer than the longest setting, and a reading at a position of it
\* was made at most as many frames ago as there are newer ones.
SilenceInv ==
  /\ silence \in [Directions -> 0..MaxSilence]
  /\ smooth <= MaxSilence /\ Len(history) <= MaxSilence
  /\ \A i \in DOMAIN history : history[i] # None => silence[history[i]] <= Len(history) - i

-----------------------------------------------------------------------------
(* The window.                                                             *)

\* A reading slides into the window: it comes last, the others move up by at most one
\* place, and the window grows only up to its setting.
LEMMA Slides ==
  ASSUME DetectorTypeOK, NEW raw \in Reading
  PROVE  LET window == Slide(raw) IN
         /\ window \in Seq(Reading)
         /\ Len(window) <= Len(history) \/ Len(window) <= smooth
         /\ \A i \in DOMAIN window :
              \/ i = Len(window) /\ window[i] = raw
              \/ \E k \in DOMAIN history :
                   window[i] = history[k] /\ Len(window) - i = Len(history) - k + 1
<1> DEFINE appended == Append(history, raw)
<1>1. /\ history \in Seq(Reading) /\ Len(history) \in Nat /\ DOMAIN history = 1..Len(history)
      /\ smooth \in Nat
  BY DEF DetectorTypeOK
<1>2. /\ appended \in Seq(Reading) /\ Len(appended) = Len(history) + 1
      /\ DOMAIN appended = 1..(Len(history) + 1)
      /\ \A k \in DOMAIN history : appended[k] = history[k]
      /\ appended[Len(history) + 1] = raw /\ appended # <<>>
  BY <1>1
<1>3. Slide(raw) = IF Len(appended) > smooth THEN Tail(appended) ELSE appended
  BY DEF Slide
<1> HIDE DEF appended
<1>4. ASSUME NEW i \in 1..(Len(history) + 1)
      PROVE  (i = Len(history) + 1 /\ appended[i] = raw)
             \/ (i \in DOMAIN history /\ appended[i] = history[i])
  BY <1>1, <1>2
<1>5. CASE Len(appended) > smooth
  <2> DEFINE rest == Tail(appended)
  <2>1. /\ rest \in Seq(Reading) /\ Len(rest) = Len(history) /\ DOMAIN rest = 1..Len(history)
        /\ \A i \in 1..Len(history) : rest[i] = appended[i + 1]
    BY <1>1, <1>2
  <2>2. Slide(raw) = rest
    BY <1>3, <1>5
  <2> HIDE DEF rest
  <2>3. ASSUME NEW i \in DOMAIN rest
        PROVE  (i = Len(rest) /\ rest[i] = raw)
               \/ (\E k \in DOMAIN history : rest[i] = history[k] /\ Len(rest) - i = Len(history) - k + 1)
    <3>1. i \in 1..Len(history) /\ i + 1 \in 1..(Len(history) + 1) /\ rest[i] = appended[i + 1]
      BY <1>1, <2>1
    <3>2. CASE i = Len(history)
      BY <1>2, <2>1, <3>1, <3>2
    <3>3. CASE i # Len(history)
      <4>1. i + 1 \in DOMAIN history /\ rest[i] = history[i + 1]
        BY <1>1, <1>2, <3>1, <3>3
      <4>2. Len(rest) - i = Len(history) - (i + 1) + 1
        BY <1>1, <2>1, <3>1
      <4> QED
        BY <4>1, <4>2
    <3> QED
      BY <3>2, <3>3
  <2> QED
    BY <1>1, <2>1, <2>2, <2>3
<1>6. CASE ~(Len(appended) > smooth)
  <2>1. Slide(raw) = appended
    BY <1>3, <1>6
  <2>2. ASSUME NEW i \in DOMAIN appended
        PROVE  (i = Len(appended) /\ appended[i] = raw)
               \/ (\E k \in DOMAIN history :
                     appended[i] = history[k] /\ Len(appended) - i = Len(history) - k + 1)
    <3>1. i \in 1..(Len(history) + 1)
      BY <1>2
    <3>2. CASE i = Len(history) + 1
      BY <1>2, <3>2
    <3>3. CASE i \in DOMAIN history
      <4>1. Len(appended) - i = Len(history) - i + 1
        BY <1>1, <1>2, <3>1
      <4> QED
        BY <1>2, <3>3, <4>1
    <3> QED
      BY <1>1, <3>1, <3>2, <3>3
  <2>3. Len(appended) <= smooth
    BY <1>1, <1>2, <1>6
  <2> QED
    BY <1>2, <2>1, <2>2, <2>3
<1> QED
  BY <1>5, <1>6

\* The longest window is the largest setting.
LEMMA LongestWindow ==
  MaxSilence \in Nat \ {0} /\ \A n \in Windows : n \in Nat /\ n <= MaxSilence
<1>1. MaxSilence \in Windows /\ \A n \in Windows : n <= MaxSilence
  BY WindowsAssumption DEF MaxSilence
<1>2. \A n \in Windows : n \in Nat
  BY SettingsAssumption, DefaultsAssumption DEF Windows
<1>3. DefaultSmooth \in Windows /\ DefaultSmooth \in Nat \ {0}
  BY DefaultsAssumption DEF Windows
<1>4. MaxSilence \in Nat /\ DefaultSmooth <= MaxSilence
  BY <1>1, <1>2, <1>3
<1> QED
  BY <1>1, <1>2, <1>3, <1>4

\* A frame's reading is a direction or none.
LEMMA RawReading ==
  ASSUME NEW scene \in Scenes
  PROVE  RawDirection(scene) \in Reading
BY ScenesAssumption DEF RawDirection, Scene, Reading

-----------------------------------------------------------------------------
(* The vote.                                                               *)

\* Every step of the detector keeps the types and shows a vote of the window.
LEMMA VoteStep == VoteInv /\ [DetectorNext]_detectorVars => VoteInv'
<1> SUFFICES ASSUME VoteInv, [DetectorNext]_detectorVars PROVE VoteInv'
  OBVIOUS
<1>0. DetectorTypeOK
  BY DEF VoteInv
<1>1. ASSUME NEW scene \in Scenes, Update(scene) PROVE VoteInv'
  <2>1. PICK direction \in Smoothed(history') : shown'.smoothed = direction
    BY <1>1 DEF Update
  <2>2. Smoothed(history)' = Smoothed(history')
    BY DEF Smoothed, Leaders, Votes
  <2> QED
    BY <1>0, <1>1, <2>1, <2>2, UpdateTyped DEF VoteInv
<1>2. ASSUME \/ \E v \in AspectSettings : MoveAspectTrackbar(v)
             \/ \E v \in SmoothSettings : MoveSmoothTrackbar(v)
      PROVE  VoteInv'
  <2>1. DetectorTypeOK'
    BY <1>0, <1>2, TrackbarTyped
  <2>2. UNCHANGED <<history, shown>>
    BY <1>2 DEF MoveAspectTrackbar, MoveSmoothTrackbar
  <2> QED
    BY <2>1, <2>2 DEF VoteInv, Smoothed, Leaders, Votes
<1>3. CASE UNCHANGED detectorVars
  BY <1>3 DEF detectorVars, VoteInv, DetectorTypeOK, Smoothed, Leaders, Votes
<1> QED
  BY <1>1, <1>2, <1>3 DEF DetectorNext

\* VoteInv holds in every reachable state.
LEMMA VoteInvariant == DetectorSpec => []VoteInv
<1>1. DetectorInit => VoteInv
  <2> SUFFICES ASSUME DetectorInit PROVE VoteInv
    OBVIOUS
  <2>1. history = <<>> /\ shown = NothingShown /\ aspect = DefaultAspect /\ smooth = DefaultSmooth
    BY DEF DetectorInit
  <2>2. DetectorTypeOK
    BY <2>1, DefaultsAssumption DEF DetectorTypeOK, NothingShown, Reading
  <2>3. Leaders(history) = {}
    <3>1. \A d : Votes(history, d) = 0
      BY <2>1, FS_EmptySet DEF Votes
    <3> QED
      BY <3>1 DEF Leaders
  <2> QED
    BY <2>1, <2>2, <2>3 DEF VoteInv, Smoothed, NothingShown
<1> QED
  BY <1>1, VoteStep, PTL DEF DetectorSpec

\* The types of Detector: no slider position makes a setting 0 and the window holds
\* readings only.
THEOREM DetectorTypes == DetectorSpec => []DetectorTypeOK
<1>1. VoteInv => DetectorTypeOK
  BY DEF VoteInv
<1> QED
  BY <1>1, VoteInvariant, PTL

\* As many readings disagree with one leader as with another.
LEMMA LeadersAgree ==
  ASSUME NEW h \in Seq(Reading), NEW d \in Leaders(h), NEW e \in Leaders(h)
  PROVE  Cardinality({i \in Valid(h) : h[i] # d}) = Cardinality({i \in Valid(h) : h[i] # e})
<1>1. /\ d \in Directions /\ e \in Directions /\ Votes(h, d) = Votes(h, e)
  BY VotesSum DEF Leaders, Directions
<1>2. \A i \in DOMAIN h : h[i] \in Reading
  OBVIOUS
<1>3. ASSUME NEW a \in Directions, NEW b \in Directions, a # b
      PROVE  {i \in Valid(h) : h[i] # a} = {i \in DOMAIN h : h[i] = b}
  BY <1>2, <1>3, NoneAssumption DEF Valid, Reading, Directions
<1>4. CASE d = e
  BY <1>4
<1>5. CASE d # e
  BY <1>1, <1>3, <1>5 DEF Votes
<1> QED
  BY <1>4, <1>5

\* The flicker rate counts disagreement with the direction shown, though Counter and
\* max over a set may break a tie differently (confidence_signal.py, gesture_detect.py).
THEOREM FlickerVote == DetectorSpec => []FlickerMatchesVote
<1>1. VoteInv => FlickerMatchesVote
  <2> SUFFICES ASSUME VoteInv, Cardinality(Valid(history)) >= 2
               PROVE  FlickerRate(history) =
                        Clip(Cardinality({i \in Valid(history) : history[i] # shown.smoothed}),
                             Cardinality(Valid(history)))
    BY DEF FlickerMatchesVote
  <2> DEFINE m == CHOOSE d \in Leaders(history) : TRUE
  <2>1. history \in Seq(Reading) /\ Cardinality(Valid(history)) \in Nat
    BY VotesSum DEF VoteInv, DetectorTypeOK
  <2>2. Leaders(history) # {}
    BY <2>1, SomeLeader
  <2>3. m \in Leaders(history) /\ shown.smoothed \in Leaders(history)
    BY <2>2 DEF VoteInv, Smoothed
  <2>4. Disagreements(history) = {i \in Valid(history) : history[i] # m}
    BY DEF Disagreements
  <2> HIDE DEF m
  <2>5. Cardinality(Disagreements(history))
          = Cardinality({i \in Valid(history) : history[i] # shown.smoothed})
    BY <2>1, <2>3, <2>4, LeadersAgree
  <2> QED
    BY <2>1, <2>5 DEF FlickerRate
<1> QED
  BY <1>1, VoteInvariant, PTL

\* A frame never makes the window longer than its setting, though moving the slider down
\* may leave it longer.
THEOREM WindowBounded == DetectorSpec => WindowNeverGrowsPastSetting
<1>1. VoteInv /\ [DetectorNext]_detectorVars =>
        [Len(history') > Len(history) => Len(history') <= smooth]_detectorVars
  <2> SUFFICES ASSUME VoteInv, DetectorNext
               PROVE  Len(history') > Len(history) => Len(history') <= smooth
    OBVIOUS
  <2>1. DetectorTypeOK
    BY DEF VoteInv
  <2>2. ASSUME NEW scene \in Scenes, Update(scene)
        PROVE  Len(history') > Len(history) => Len(history') <= smooth
    <3>1. history' = Slide(RawDirection(scene)) /\ RawDirection(scene) \in Reading
      BY <2>2, RawReading DEF Update
    <3>2. Len(history') <= Len(history) \/ Len(history') <= smooth
      BY <2>1, <3>1, Slides
    <3>3. Len(history') \in Nat /\ Len(history) \in Nat
      BY <2>1, <3>1, Slides DEF DetectorTypeOK
    <3> QED
      BY <3>2, <3>3
  <2>3. ASSUME history' = history PROVE ~(Len(history') > Len(history))
    BY <2>1, <2>3 DEF DetectorTypeOK
  <2> QED
    BY <2>2, <2>3 DEF DetectorNext, MoveAspectTrackbar, MoveSmoothTrackbar
<1> QED
  BY <1>1, VoteInvariant, PTL DEF DetectorSpec, WindowNeverGrowsPastSetting

-----------------------------------------------------------------------------
(* Silence.                                                                *)

\* The silence of a direction after a frame.
LEMMA HeardSilence ==
  ASSUME silence \in [Directions -> 0..MaxSilence], NEW raw \in Reading, Heard(raw)
  PROVE  /\ silence' \in [Directions -> 0..MaxSilence]
         /\ \A d \in Directions : (d = raw => silence'[d] = 0) /\ silence'[d] <= silence[d] + 1
<1>1. MaxSilence \in Nat
  BY LongestWindow
<1>2. ASSUME NEW d \in Directions
      PROVE  /\ (IF d = raw THEN 0 ELSE IF silence[d] < MaxSilence THEN silence[d] + 1 ELSE MaxSilence)
                   \in 0..MaxSilence
             /\ (IF d = raw THEN 0 ELSE IF silence[d] < MaxSilence THEN silence[d] + 1 ELSE MaxSilence)
                   <= silence[d] + 1
  <2>1. silence[d] \in 0..MaxSilence
    OBVIOUS
  <2> QED
    BY <1>1, <2>1
<1> QED
  BY <1>2 DEF Heard

\* Every step keeps the silences in accord with the window.
LEMMA SilenceStep == DetectorTypeOK /\ SilenceInv /\ [MCNext]_mcVars => SilenceInv'
<1> SUFFICES ASSUME DetectorTypeOK, SilenceInv, [MCNext]_mcVars PROVE SilenceInv'
  OBVIOUS
<1>0. /\ history \in Seq(Reading) /\ Len(history) \in Nat /\ DOMAIN history = 1..Len(history)
      /\ smooth \in Nat /\ MaxSilence \in Nat /\ Len(history) <= MaxSilence /\ smooth <= MaxSilence
      /\ silence \in [Directions -> 0..MaxSilence]
      /\ \A i \in DOMAIN history : history[i] # None => silence[history[i]] <= Len(history) - i
  BY LongestWindow DEF DetectorTypeOK, SilenceInv
<1>1. ASSUME NEW scene \in Scenes, Update(scene), Heard(RawDirection(scene)) PROVE SilenceInv'
  <2> DEFINE raw == RawDirection(scene)
  <2> DEFINE window == Slide(raw)
  <2>1. raw \in Reading /\ history' = window /\ UNCHANGED smooth /\ Heard(raw)
    BY <1>1, RawReading DEF Update
  <2> HIDE DEF raw
  <2>2. /\ window \in Seq(Reading)
        /\ Len(window) <= Len(history) \/ Len(window) <= smooth
        /\ \A i \in DOMAIN window :
             \/ i = Len(window) /\ window[i] = raw
             \/ \E k \in DOMAIN history :
                  window[i] = history[k] /\ Len(window) - i = Len(history) - k + 1
    BY <2>1, Slides
  <2>3. /\ silence' \in [Directions -> 0..MaxSilence]
        /\ \A d \in Directions : (d = raw => silence'[d] = 0) /\ silence'[d] <= silence[d] + 1
    BY <1>0, <2>1, HeardSilence
  <2>4. window \in Seq(Reading) /\ Len(window) \in Nat /\ DOMAIN window = 1..Len(window)
        /\ \A i \in DOMAIN window : window[i] \in Reading
    BY <2>2
  <2> HIDE DEF window
  <2>5. Len(window) <= MaxSilence
    BY <1>0, <2>2, <2>4
  <2>6. ASSUME NEW i \in DOMAIN window, window[i] # None PROVE silence'[window[i]] <= Len(window) - i
    <3>1. window[i] \in Directions /\ i \in 1..Len(window)
      BY <2>4, <2>6 DEF Reading
    <3>2. CASE i = Len(window) /\ window[i] = raw
      BY <2>3, <2>4, <3>1, <3>2
    <3>3. ASSUME NEW k \in DOMAIN history, window[i] = history[k],
                 Len(window) - i = Len(history) - k + 1
          PROVE  silence'[window[i]] <= Len(window) - i
      <4>1. silence[window[i]] <= Len(history) - k
        BY <1>0, <2>6, <3>3
      <4>2. silence'[window[i]] <= silence[window[i]] + 1
        BY <2>3, <3>1
      <4>3. silence[window[i]] \in 0..MaxSilence /\ silence'[window[i]] \in 0..MaxSilence
        BY <1>0, <2>3, <3>1
      <4>4. k \in Int /\ i \in Int
        BY <1>0, <3>1
      <4> QED
        BY <1>0, <2>4, <3>3, <4>1, <4>2, <4>3, <4>4
    <3> QED
      BY <2>2, <3>2, <3>3
  <2>7. (MaxSilence)' = MaxSilence
    BY DEF MaxSilence, Windows
  <2> QED
    BY <1>0, <2>1, <2>3, <2>5, <2>6, <2>7 DEF SilenceInv
<1>2. ASSUME NEW v \in AspectSettings, MoveAspectTrackbar(v), UNCHANGED silence PROVE SilenceInv'
  BY <1>0, <1>2 DEF MoveAspectTrackbar, SilenceInv, MaxSilence, Windows
<1>3. ASSUME NEW v \in SmoothSettings, MoveSmoothTrackbar(v), UNCHANGED silence PROVE SilenceInv'
  <2>1. v \in Nat /\ v <= MaxSilence /\ 1 <= MaxSilence
    BY LongestWindow DEF Windows
  <2>2. smooth' <= MaxSilence
    BY <1>3, <2>1 DEF MoveSmoothTrackbar, AtLeast, MinSmooth
  <2> QED
    BY <1>0, <1>3, <2>2 DEF MoveSmoothTrackbar, SilenceInv, MaxSilence, Windows
<1>4. CASE UNCHANGED mcVars
  BY <1>0, <1>4 DEF mcVars, detectorVars, SilenceInv, MaxSilence, Windows
<1> QED
  BY <1>1, <1>2, <1>3, <1>4 DEF MCNext

\* The detector with its history variable takes the detector's steps.
LEMMA WatchedDetector == MCSpec => DetectorSpec
<1>1. [MCNext]_mcVars => [DetectorNext]_detectorVars
  BY DEF MCNext, mcVars, DetectorNext
<1> QED
  BY <1>1, PTL DEF MCSpec, MCInit, DetectorSpec

\* No direction is shown that was not read during the longest window's worth of frames,
\* however the sliders moved meanwhile (DirectionDetector.update).
THEOREM NoGhost == MCSpec => []NoGhostDirection
<1>1. MCInit => SilenceInv
  <2> SUFFICES ASSUME MCInit PROVE SilenceInv
    OBVIOUS
  <2>1. history = <<>> /\ smooth = DefaultSmooth /\ silence = [d \in Directions |-> MaxSilence]
    BY DEF MCInit, DetectorInit
  <2>2. MaxSilence \in Nat /\ DefaultSmooth <= MaxSilence
    BY LongestWindow DEF Windows
  <2> QED
    BY <2>1, <2>2 DEF SilenceInv
<1>2. VoteInv /\ SilenceInv => NoGhostDirection
  <2> SUFFICES ASSUME VoteInv, SilenceInv, shown.smoothed \in Directions
               PROVE  silence[shown.smoothed] < MaxSilence
    BY DEF NoGhostDirection
  <2> DEFINE d == shown.smoothed
  <2>1. history \in Seq(Reading) /\ Len(history) \in Nat /\ DOMAIN history = 1..Len(history)
        /\ MaxSilence \in Nat /\ Len(history) <= MaxSilence /\ d # None /\ silence[d] \in 0..MaxSilence
    BY LongestWindow, NoneAssumption DEF VoteInv, DetectorTypeOK, SilenceInv
  <2>2. d \in Leaders(history)
    BY <2>1 DEF VoteInv, Smoothed
  <2>3. {i \in DOMAIN history : history[i] = d} # {}
    <3>1. Votes(history, d) > 0
      BY <2>2 DEF Leaders
    <3> QED
      BY <3>1, FS_EmptySet DEF Votes
  <2>4. PICK i \in DOMAIN history : history[i] = d
    BY <2>3
  <2>5. silence[d] <= Len(history) - i /\ i >= 1 /\ i \in Int
    BY <2>1, <2>4 DEF SilenceInv
  <2> QED
    BY <2>1, <2>5
<1>3. MCSpec => []VoteInv
  BY VoteInvariant, WatchedDetector, PTL
<1>4. VoteInv => DetectorTypeOK
  BY DEF VoteInv
<1> QED
  BY <1>1, <1>2, <1>3, <1>4, SilenceStep, PTL DEF MCSpec

=============================================================================

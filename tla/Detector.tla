------------------------------ MODULE Detector ------------------------------
(***************************************************************************)
(* DirectionDetector of edge/gesture_detect.py: the local reading of each  *)
(* frame and the majority vote over a sliding window of raw readings, with *)
(* the trackbars that change its settings while it runs.                   *)
(*                                                                         *)
(* A scene stands for one camera frame after skin_mask: how many contours  *)
(* the mask holds, and the shape of the largest one.  The colour sliders   *)
(* and the min_area slider only change which scene a frame becomes; since  *)
(* any scene may follow any other, moving them is already covered.         *)
(***************************************************************************)
EXTENDS ConfidenceSignal

CONSTANTS Scenes,          \* the scenes the camera can show
          DefaultAspect,   \* DEFAULTS["aspect"], in tenths
          DefaultSmooth,   \* DEFAULTS["smooth"]
          AspectSettings,  \* positions of the "Aspect x10" trackbar
          SmoothSettings   \* positions of the "Smooth" trackbar

\* A contour that passes min_area ("large"); fewer than five points ("few", a
\* plain rectangle has four); its w / h in tenths; the side its tip points to; the
\* mean brightness of the frame.
Scene == [contours : Nat, large : BOOLEAN, few : BOOLEAN, ratio : Nat,
          tip : Directions, light : 0..Unit]

ASSUME ScenesAssumption == Scenes \subseteq Scene
ASSUME DefaultsAssumption == DefaultAspect \in Nat \ {0} /\ DefaultSmooth \in Nat \ {0}
ASSUME SettingsAssumption == AspectSettings \subseteq Nat /\ SmoothSettings \subseteq Nat

VARIABLES history,   \* self.history: raw readings, oldest first
          aspect,    \* params["aspect"]
          smooth,    \* params["smooth"]
          shown      \* what the last update() returned, as far as it is used
detectorVars == <<history, aspect, smooth, shown>>

MinAspect == 5
MinSmooth == 1

\* Faulty: the slider's position stored as it is.
Unclamped(v, floor) == v

AtLeast(v, floor) == IF v < floor THEN floor ELSE v

-----------------------------------------------------------------------------
\* largest_contour: whether a contour is found.
HasContour(scene) == scene.contours > 0 /\ scene.large

\* The third result of finger_direction: a contour of fewer than five points
\* has no dims, though it is a contour.
Dims(scene) == IF ~HasContour(scene) \/ scene.few THEN None ELSE scene.ratio

\* The first result of finger_direction.
RawDirection(scene) ==
  IF Dims(scene) = None \/ scene.ratio < aspect THEN None ELSE scene.tip

\* Faulty: pop() in place of pop(0); the length tested before the append.
SlideDroppingNewest(raw) ==
  IF Len(history) + 1 > smooth THEN history ELSE Append(history, raw)
SlideTestedFirst(raw) ==
  IF Len(history) > smooth THEN Append(Tail(history), raw) ELSE Append(history, raw)

\* append, then drop the oldest reading once if the window is over its length.
Slide(raw) ==
  LET appended == Append(history, raw)
  IN  IF Len(appended) > smooth THEN Tail(appended) ELSE appended

\* max(set(valid), key=valid.count): a tie goes to the first of a set's order.
Smoothed(window) == IF Leaders(window) = {} THEN {None} ELSE Leaders(window)

NothingShown == [smoothed |-> None, raw |-> None, has_contour |-> FALSE,
                 dims |-> None, contours |-> 0]

DetectorInit ==
  /\ history = <<>>
  /\ aspect = DefaultAspect
  /\ smooth = DefaultSmooth
  /\ shown = NothingShown

\* A new process: DEFAULTS and an empty window again.
DetectorRestart ==
  /\ history' = <<>>
  /\ aspect' = DefaultAspect
  /\ smooth' = DefaultSmooth
  /\ shown' = NothingShown

Update(scene) ==
  /\ history' = Slide(RawDirection(scene))
  /\ \E direction \in Smoothed(history') :
       shown' = [smoothed    |-> direction,
                 raw         |-> RawDirection(scene),
                 has_contour |-> HasContour(scene),
                 dims        |-> Dims(scene),
                 contours    |-> scene.contours]
  /\ UNCHANGED <<aspect, smooth>>

MoveAspectTrackbar(v) ==
  /\ aspect' = AtLeast(v, MinAspect)
  /\ UNCHANGED <<history, smooth, shown>>

MoveSmoothTrackbar(v) ==
  /\ smooth' = AtLeast(v, MinSmooth)
  /\ UNCHANGED <<history, aspect, shown>>

DetectorNext ==
  \/ \E scene \in Scenes : Update(scene)
  \/ \E v \in AspectSettings : MoveAspectTrackbar(v)
  \/ \E v \in SmoothSettings : MoveSmoothTrackbar(v)

DetectorSpec == DetectorInit /\ [][DetectorNext]_detectorVars

-----------------------------------------------------------------------------
\* The window holds readings only, and no slider position makes a setting 0: neither
\* the division by the aspect threshold nor an always empty window can happen.
DetectorTypeOK ==
  /\ history \in Seq(Reading)
  /\ aspect \in Nat \ {0}
  /\ smooth \in Nat \ {0}
  /\ shown \in [smoothed : Reading, raw : Reading, has_contour : BOOLEAN,
                dims : Nat \cup {None}, contours : Nat]

\* The flicker rate the router is given (Counter, over detector.history) measures
\* disagreement with the very direction the operator is shown (max over a set, in
\* update): the two majorities are computed apart and may break a tie differently,
\* and both must be taken from the same window.
FlickerMatchesVote ==
  Cardinality(Valid(history)) >= 2 =>
    FlickerRate(history) =
      Clip(Cardinality({i \in Valid(history) : history[i] # shown.smoothed}),
           Cardinality(Valid(history)))

\* The window may be over its setting after the slider went down, but a frame
\* never makes it longer than the setting.
WindowNeverGrowsPastSetting ==
  [][Len(history') > Len(history) => Len(history') <= smooth]_detectorVars
=============================================================================

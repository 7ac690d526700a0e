----------------------------- MODULE MCDetector -----------------------------
(***************************************************************************)
(* Detector with a history variable:                                       *)
(*   silence[d]  frames since d was last read, up to MaxSilence.           *)
(***************************************************************************)
EXTENDS MCScenes

VARIABLE silence
mcVars == <<detectorVars, silence>>

Windows == SmoothSettings \cup {DefaultSmooth}

\* A trackbar has a last position.
ASSUME WindowsAssumption == \E n \in Windows : \A m \in Windows : m <= n

\* The longest window any slider position allows.
MaxSilence == CHOOSE n \in Windows : \A m \in Windows : m <= n

Heard(raw) ==
  silence' = [d \in Directions |-> IF d = raw THEN 0
                                   ELSE IF silence[d] < MaxSilence THEN silence[d] + 1
                                   ELSE MaxSilence]

MCInit == DetectorInit /\ silence = [d \in Directions |-> MaxSilence]

MCNext ==
  \/ \E scene \in Scenes : Update(scene) /\ Heard(RawDirection(scene))
  \/ (\E v \in AspectSettings : MoveAspectTrackbar(v)) /\ UNCHANGED silence
  \/ (\E v \in SmoothSettings : MoveSmoothTrackbar(v)) /\ UNCHANGED silence

MCSpec == MCInit /\ [][MCNext]_mcVars

\* A direction that has not been read for the longest window's worth of frames is
\* never shown, however the sliders moved in between: stale readings leave the
\* window oldest first.
NoGhostDirection ==
  shown.smoothed \in Directions => silence[shown.smoothed] < MaxSilence
=============================================================================

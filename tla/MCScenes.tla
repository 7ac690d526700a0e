------------------------------ MODULE MCScenes ------------------------------
(***************************************************************************)
(* Camera scenes for the modules that check the detector: nothing in view, *)
(* skin-coloured clutter with no large blob, a pointing finger on either   *)
(* side, a near-square fist and a four-point rectangle.                    *)
(***************************************************************************)
EXTENDS Detector

SceneOf(n, big, rect, r, side) ==
  [contours |-> n, large |-> big, few |-> rect, ratio |-> r, tip |-> side,
   light |-> IF n = 0 THEN 0 ELSE Unit]

EmptyScene   == SceneOf(0,  FALSE, FALSE, 10, "LEFT")
Clutter      == SceneOf(25, FALSE, FALSE, 10, "LEFT")
FingerLeft   == SceneOf(1,  TRUE,  FALSE, 36, "LEFT")
FingerRight  == SceneOf(4,  TRUE,  FALSE, 22, "RIGHT")
Fist         == SceneOf(1,  TRUE,  FALSE, 11, "RIGHT")
Rectangle    == SceneOf(25, TRUE,  TRUE,  30, "LEFT")
MCScenes == {EmptyScene, Clutter, FingerLeft, FingerRight, Fist, Rectangle}

MCAspectSettings == {0, 18, 30}
MCSmoothSettings == {0, 2, 4}
=============================================================================

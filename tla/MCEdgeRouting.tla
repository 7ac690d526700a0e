--------------------------- MODULE MCEdgeRouting ----------------------------
(* EdgeLoop with a few scenes of MCScenes.                                   *)
EXTENDS EdgeLoop, MCScenes
ManyScenes == {EmptyScene, FingerLeft, FingerRight, Rectangle}

EmptyOnly == {EmptyScene}
=============================================================================

----------------------------- MODULE MCEdgeLoop -----------------------------
(***************************************************************************)
(* EdgeLoop with the scenes of MCScenes and history variables:             *)
(*   allowance  frames that may still be sent to the cloud after the       *)
(*              operator pressed the key that makes the camera private:    *)
(*              one for each key, itself included, waitKey has to return.  *)
(*   captured   frames captured, and                                       *)
(*   logged     records written since the program started, both counted    *)
(*              modulo FrameWrap as frame_id is.                           *)
(***************************************************************************)
EXTENDS EdgeLoop, MCScenes

TwoScenes == {EmptyScene, FingerLeft}

VARIABLES allowance, captured, logged
counts == <<captured, logged>>
mcVars == <<vars, allowance, counts>>

\* What privacy_flag will be when every key pressed so far has been returned.
Intent ==
  LET toggles == Cardinality({i \in DOMAIN keys : keys[i] = "v"})
  IN  IF toggles % 2 = 0 THEN privacy_flag ELSE ~privacy_flag

MCInit == Init /\ allowance = 0 /\ captured = 0 /\ logged = 0

More(n) == (n + 1) % FrameWrap

MCNext ==
  \/ /\ LoopStep
     /\ allowance' = IF pc = "route" /\ pc' = "send" /\ Intent THEN allowance - 1 ELSE allowance
     /\ captured' = IF Capture THEN More(captured) ELSE captured
     /\ logged' = IF LogFrame THEN More(logged) ELSE logged
  \/ (CameraFails \/ TrackbarMoves \/ LinkChanges) /\ UNCHANGED <<allowance, counts>>
  \/ \E key \in Keys :
       /\ PressKey(key)
       /\ allowance' = IF key = "v" /\ ~Intent THEN Len(keys') ELSE allowance
       /\ UNCHANGED counts
  \/ Restart /\ allowance' = 0 /\ captured' = 0 /\ logged' = 0

MCSpec == MCInit /\ [][MCNext]_mcVars /\ WF_vars(LoopStep)

\* After the key that asks for privacy, at most one frame per key waiting before it
\* (and the current one) still leaves the device: waitKey returns one key per frame,
\* in order, and none is lost while the loop is blocked in ping or send_frame.
PrivacyTakesHold == allowance >= 0

\* A record carries the number of the records written before it in the same run of the
\* program, and that is also the number of the frames captured before this one: a run
\* begins with 0, and within it no frame is skipped, none is logged twice and the count
\* is never reset, whichever path answered the frame and whatever key was polled.
LogNumbersFrames ==
  [][LogFrame => log'.frame_id = logged /\ captured = More(log'.frame_id)]_mcVars
=============================================================================

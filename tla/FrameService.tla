---------------------------- MODULE FrameService ----------------------------
(***************************************************************************)
(* What cloud_client.send_frame promises the camera loop, with the network *)
(* and the server left out: a call ends, and it returns None or the cloud  *)
(* model's direction for the very frame it was given.                      *)
(*                                                                         *)
(* The second promise has a limit in the code: the server shares one model *)
(* between its threads without a lock.  While a frame of an earlier call   *)
(* that was given up may still be in the model (stray), a call that starts *)
(* is disturbed and its answer may be that of another frame.               *)
(***************************************************************************)
CONSTANTS Frames,    \* what the model says of a frame when it sees it alone
          None,      \* no answer, and the model's answer when it sees no hand
          NoCall     \* send_frame is not running

VARIABLES call,        \* the frame send_frame is working on, or NoCall
          answer,      \* what it last returned
          stray,       \* an abandoned frame may still reach the model
          disturbed    \* the running call began with one
serviceVars == <<call, answer, stray, disturbed>>

ServiceInit ==
  /\ call = NoCall
  /\ answer = None
  /\ stray = FALSE
  /\ disturbed = FALSE

Call(frame) ==
  /\ call = NoCall
  /\ call' = frame
  /\ disturbed' = stray
  /\ UNCHANGED <<answer, stray>>

\* Giving up may leave the frame behind in the server.
GiveUp ==
  /\ call # NoCall
  /\ call' = NoCall
  /\ answer' = None
  /\ stray' \in {stray, TRUE}
  /\ disturbed' = FALSE

Return(direction) ==
  /\ call # NoCall
  /\ direction \in {call, None} \/ disturbed
  /\ call' = NoCall
  /\ answer' = direction
  /\ disturbed' = FALSE
  /\ UNCHANGED stray

StrayEnds ==
  /\ stray
  /\ stray' = FALSE
  /\ UNCHANGED <<call, answer, disturbed>>

Ends == GiveUp \/ \E direction \in Frames \cup {None} : Return(direction)

ServiceNext ==
  \/ \E frame \in Frames \cup {None} : Call(frame)
  \/ Ends
  \/ StrayEnds

ServiceSpec == ServiceInit /\ [][ServiceNext]_serviceVars /\ WF_serviceVars(Ends)
=============================================================================

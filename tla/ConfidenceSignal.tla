-------------------------- MODULE ConfidenceSignal --------------------------
(***************************************************************************)
(* The confidence signal of edge/confidence_signal.py: what the router is  *)
(* told about the local gesture reading of one frame.                      *)
(*                                                                         *)
(* The code's floats in [0, 1] are integers in 0..Unit: x stands for       *)
(* x / Unit.  A Unit divisible by MaxExpectedContours and by the window    *)
(* lengths in play makes mask_noise and flicker_rate exact; aspect_margin  *)
(* is rounded down to a multiple of 1 / Unit.  Aspect ratios are in        *)
(* tenths, the unit of the "Aspect x10" trackbar.                          *)
(***************************************************************************)
EXTENDS Integers, FiniteSets, Sequences

CONSTANTS Unit,                 \* the integer that stands for 1.0
          MaxExpectedContours,  \* contour count at which mask_noise is 1.0
          None                  \* Python's None

Directions == {"LEFT", "RIGHT"}

ASSUME UnitAssumption == Unit \in Nat \ {0}
ASSUME MaxExpectedContoursAssumption == MaxExpectedContours \in Nat \ {0}
ASSUME NoneAssumption == None \notin Directions \cup Int

Reading == Directions \cup {None}

Signal == [has_contour   : BOOLEAN,
           aspect_margin : 0..Unit,
           mask_noise    : 0..Unit,
           flicker_rate  : 0..Unit,
           brightness    : 0..Unit]

\* np.clip(num / den, 0.0, 1.0) for num >= 0, den > 0.
Clip(num, den) == IF num >= den THEN Unit ELSE (num * Unit) \div den

Abs(n) == IF n < 0 THEN -n ELSE n

-----------------------------------------------------------------------------
(* Votes in a window of raw readings; None entries do not vote.            *)

Valid(history) == {i \in DOMAIN history : history[i] # None}

Votes(history, d) == Cardinality({i \in DOMAIN history : history[i] = d})

Leaders(history) ==
  {d \in Directions : /\ Votes(history, d) > 0
                      /\ \A e \in Directions : Votes(history, e) <= Votes(history, d)}

\* Faulty: a frame without a reading counts as a disagreement.
DisagreementsWithNone(history) ==
  {i \in DOMAIN history : history[i] # CHOOSE d \in Leaders(history) : TRUE}

\* The valid readings that are not those of the majority.  Two directions that
\* tie have the same count, so Counter's tie-break does not change the rate.
Disagreements(history) ==
  {i \in Valid(history) : history[i] # CHOOSE d \in Leaders(history) : TRUE}

FlickerRate(history) ==
  IF Cardinality(Valid(history)) < 2
  THEN 0
  ELSE Clip(Cardinality(Disagreements(history)), Cardinality(Valid(history)))

-----------------------------------------------------------------------------
\* Faulty: no shape is taken for a clear shape.
AspectMarginOptimistic(dims, aspect) ==
  IF dims = None THEN Unit ELSE Clip(Abs(dims - aspect), aspect)

\* dims is the blob's w / h in tenths, or None when there is no shape.
AspectMargin(dims, aspect) ==
  IF dims = None THEN 0 ELSE Clip(Abs(dims - aspect), aspect)

MaskNoise(contours) == Clip(contours, MaxExpectedContours)

build_confidence_signal(has_contour, dims, contours, brightness, history, aspect) ==
  [has_contour   |-> has_contour,
   aspect_margin |-> AspectMargin(dims, aspect),
   mask_noise    |-> MaskNoise(contours),
   flicker_rate  |-> FlickerRate(history),
   brightness    |-> brightness]
=============================================================================

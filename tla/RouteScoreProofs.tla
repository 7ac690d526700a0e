-------------------------- MODULE RouteScoreProofs --------------------------
(***************************************************************************)
(* Facts about the confidence signal, the detector's window and the        *)
(* routing score that hold for every resolution Unit, window length and    *)
(* network estimate.                                                       *)
(***************************************************************************)
EXTENDS RouteScore, Detector, FiniteSetTheorems, TLAPS

\* Votes are counted over finite sets of positions of the window.
LEMMA PositionsFinite ==
  ASSUME NEW h \in Seq(Reading), NEW P \in SUBSET DOMAIN h
  PROVE  IsFiniteSet(P) /\ Cardinality(P) \in Nat
<1>1. Len(h) \in Nat /\ DOMAIN h = 1..Len(h)
  OBVIOUS
<1>2. IsFiniteSet(1..Len(h))
  BY <1>1, FS_Interval
<1>3. IsFiniteSet(P)
  BY <1>1, <1>2, FS_Subset
<1> QED
  BY <1>3, FS_CardinalityType

\* The valid readings are those of the two directions, none counted twice.
LEMMA VotesSum ==
  ASSUME NEW h \in Seq(Reading)
  PROVE  /\ Votes(h, "LEFT") \in Nat /\ Votes(h, "RIGHT") \in Nat
         /\ Cardinality(Valid(h)) = Votes(h, "LEFT") + Votes(h, "RIGHT")
<1> DEFINE L == {i \in DOMAIN h : h[i] = "LEFT"}
           R == {i \in DOMAIN h : h[i] = "RIGHT"}
<1>1. \A i \in DOMAIN h : h[i] \in Reading
  OBVIOUS
<1>2. Valid(h) = L \cup R
  BY <1>1, NoneAssumption DEF Valid, Reading, Directions
<1>3. L \cap R = {}
  OBVIOUS
<1>4. /\ IsFiniteSet(L) /\ Cardinality(L) \in Nat
      /\ IsFiniteSet(R) /\ Cardinality(R) \in Nat
  <2>1. L \in SUBSET DOMAIN h /\ R \in SUBSET DOMAIN h
    OBVIOUS
  <2> HIDE DEF L, R
  <2> QED
    BY <2>1, PositionsFinite
<1>5. Cardinality(L \cup R) = Cardinality(L) + Cardinality(R)
  <2> HIDE DEF L, R
  <2>1. Cardinality(L \cup R) = Cardinality(L) + Cardinality(R) - Cardinality(L \cap R)
    BY <1>4, FS_Union
  <2>2. Cardinality(L \cap R) = 0
    BY <1>3, FS_EmptySet
  <2> QED
    BY <1>4, <2>1, <2>2
<1> QED
  BY <1>2, <1>4, <1>5 DEF Votes

\* A window with a reading has a leader.
LEMMA SomeLeader ==
  ASSUME NEW h \in Seq(Reading), Cardinality(Valid(h)) > 0
  PROVE  Leaders(h) # {}
<1>1. CASE Votes(h, "LEFT") >= Votes(h, "RIGHT")
  <2>1. "LEFT" \in Leaders(h)
    BY <1>1, VotesSum DEF Leaders, Directions
  <2> QED
    BY <2>1
<1>2. CASE Votes(h, "LEFT") < Votes(h, "RIGHT")
  <2>1. "RIGHT" \in Leaders(h)
    BY <1>2, VotesSum DEF Leaders, Directions
  <2> QED
    BY <2>1
<1> QED
  BY <1>1, <1>2, VotesSum

\* A majority of two directions is at least half of the votes.
LEMMA MajorityIsHalf ==
  ASSUME NEW h \in Seq(Reading), Cardinality(Valid(h)) >= 2
  PROVE  /\ Cardinality(Disagreements(h)) \in Nat
         /\ 2 * Cardinality(Disagreements(h)) <= Cardinality(Valid(h))
<1> DEFINE m == CHOOSE d \in Leaders(h) : TRUE
<1>1. Leaders(h) # {}
  BY VotesSum, SomeLeader
<1>2. m \in Leaders(h)
  BY <1>1
<1>3. Disagreements(h) = {i \in Valid(h) : h[i] # m}
  BY DEF Disagreements
<1>4. \A i \in Valid(h) : h[i] \in Directions
  BY DEF Valid, Reading
<1> HIDE DEF m
<1>5. m \in Directions /\ \A e \in Directions : Votes(h, e) <= Votes(h, m)
  BY <1>2 DEF Leaders
<1>6. CASE m = "LEFT"
  <2>1. Disagreements(h) = {i \in DOMAIN h : h[i] = "RIGHT"}
    BY <1>3, <1>4, <1>6, NoneAssumption DEF Valid, Directions
  <2>2. Cardinality(Disagreements(h)) = Votes(h, "RIGHT")
    BY <2>1 DEF Votes
  <2>3. Votes(h, "RIGHT") <= Votes(h, m)
    BY <1>5 DEF Directions
  <2> QED
    BY <1>6, <2>2, <2>3, VotesSum
<1>7. CASE m = "RIGHT"
  <2>1. Disagreements(h) = {i \in DOMAIN h : h[i] = "LEFT"}
    BY <1>3, <1>4, <1>7, NoneAssumption DEF Valid, Directions
  <2>2. Cardinality(Disagreements(h)) = Votes(h, "LEFT")
    BY <2>1 DEF Votes
  <2>3. Votes(h, "LEFT") <= Votes(h, m)
    BY <1>5 DEF Directions
  <2> QED
    BY <1>7, <2>2, <2>3, VotesSum
<1> QED
  BY <1>5, <1>6, <1>7 DEF Directions

\* Clip yields a signal; of at most half, at most half of Unit.
LEMMA ClipRange ==
  ASSUME NEW num \in Nat, NEW den \in Nat, den > 0
  PROVE  /\ Clip(num, den) \in 0..Unit
         /\ 2 * num <= den => 2 * Clip(num, den) <= Unit
<1> DEFINE q == (num * Unit) \div den
<1>1. CASE num >= den
  BY <1>1, UnitAssumption DEF Clip
<1>2. CASE num < den
  <2>1. num * Unit \in Nat
    BY UnitAssumption
  <2>2. q \in Nat /\ q * den <= num * Unit
    BY <2>1
  <2>3. num * Unit <= den * Unit
    BY <1>2, UnitAssumption
  <2>4. q <= Unit
    BY <2>2, <2>3, UnitAssumption
  <2>5. 2 * num <= den => 2 * q <= Unit
    BY <2>2, UnitAssumption
  <2> QED
    BY <1>2, <2>2, <2>4, <2>5, UnitAssumption DEF Clip
<1> QED
  BY <1>1, <1>2

\* flicker_rate is a signal and never above one half.
LEMMA FlickerAtMostHalf ==
  ASSUME NEW h \in Seq(Reading)
  PROVE  FlickerRate(h) \in 0..Unit /\ 2 * FlickerRate(h) <= Unit
<1>1. Cardinality(Valid(h)) \in Nat
  BY VotesSum
<1>2. CASE Cardinality(Valid(h)) < 2
  BY <1>2, UnitAssumption DEF FlickerRate
<1>3. CASE Cardinality(Valid(h)) >= 2
  <2> DEFINE num == Cardinality(Disagreements(h))
             den == Cardinality(Valid(h))
  <2>1. num \in Nat /\ 2 * num <= den
    BY <1>3, MajorityIsHalf
  <2>2. FlickerRate(h) = Clip(num, den)
    BY <1>1, <1>3 DEF FlickerRate
  <2> HIDE DEF num, den
  <2>3. den \in Nat /\ den > 0
    BY <1>1, <1>3 DEF den
  <2> QED
    BY <2>1, <2>2, <2>3, ClipRange
<1> QED
  BY <1>1, <1>2, <1>3

\* aspect_margin and mask_noise are signals; no shape means no margin.
LEMMA MarginAndNoise ==
  ASSUME NEW dims \in Nat \cup {None}, NEW threshold \in Nat \ {0}, NEW contours \in Nat
  PROVE  /\ AspectMargin(dims, threshold) \in 0..Unit
         /\ dims = None => AspectMargin(dims, threshold) = 0
         /\ MaskNoise(contours) \in 0..Unit
<1>1. MaskNoise(contours) \in 0..Unit
  BY MaxExpectedContoursAssumption, ClipRange DEF MaskNoise
<1>2. CASE dims = None
  BY <1>1, <1>2, UnitAssumption DEF AspectMargin
<1>3. CASE dims # None
  <2>1. Abs(dims - threshold) \in Nat
    BY <1>3 DEF Abs
  <2>2. Clip(Abs(dims - threshold), threshold) \in 0..Unit
    BY <2>1, ClipRange
  <2> QED
    BY <1>1, <1>3, <2>2 DEF AspectMargin
<1> QED
  BY <1>2, <1>3

-----------------------------------------------------------------------------
\* Both costs are integers and a decision is a RouteResult.
LEMMA CostsAreIntegers ==
  ASSUME NEW sig \in Signal, NEW d \in Nat, NEW p \in Nat
  PROVE  LocalCost(sig) \in Int /\ CloudCost(d, p) \in Int
<1>1. LocalCost(sig) \in Int
  BY UnitAssumption
  DEF LocalCost, Signal, Scale, NETWORK_DELAY_BASELINE_MS, CLOUD_LATENCY_BASELINE_MS,
      W_NO_CONTOUR, W_ASPECT_MARGIN, W_MASK_NOISE, W_FLICKER
<1>2. CloudCost(d, p) \in Int
  BY UnitAssumption
  DEF CloudCost, NETWORK_DELAY_BASELINE_MS, CLOUD_LATENCY_BASELINE_MS,
      W_NETWORK_DELAY, W_CLOUD_LATENCY
<1> QED
  BY <1>1, <1>2

\* router_decide returns a RouteResult for every signal, estimate and privacy flag.
LEMMA DecisionTyped ==
  ASSUME NEW sig \in Signal, NEW d \in Nat, NEW p \in Nat, NEW privacy \in BOOLEAN
  PROVE  router_decide(sig, d, p, privacy) \in RouteResult
BY CostsAreIntegers DEF router_decide, RouteResult, ROUTE_LOCAL, ROUTE_CLOUD

\* The privacy gate: LOCAL and INFINITY, whatever the costs.
LEMMA PrivacyGates ==
  ASSUME NEW sig \in Signal, NEW d \in Nat, NEW p \in Nat, NEW privacy \in BOOLEAN
  PROVE  LET r == router_decide(sig, d, p, privacy) IN
         /\ privacy => r.decision = ROUTE_LOCAL
         /\ r.decision = ROUTE_CLOUD => r.cloud_cost # INFINITY
         /\ r.cloud_cost = INFINITY <=> privacy
BY CostsAreIntegers, InfinityAssumption DEF router_decide, ROUTE_LOCAL, ROUTE_CLOUD

\* A worse reading costs at least as much locally.
LEMMA WorseReadingCostsMore ==
  ASSUME NEW s \in Signal, NEW t \in Signal, WorseReading(s, t)
  PROVE  LocalCost(s) <= LocalCost(t)
BY UnitAssumption
DEF WorseReading, LocalCost, Signal, Scale, NETWORK_DELAY_BASELINE_MS,
    CLOUD_LATENCY_BASELINE_MS, W_NO_CONTOUR, W_ASPECT_MARGIN, W_MASK_NOISE, W_FLICKER

\* A network that is no slower costs no more.
LEMMA FasterNetworkCostsLess ==
  ASSUME NEW d \in Nat, NEW p \in Nat, NEW d2 \in Nat, NEW p2 \in Nat,
         d2 <= d, p2 <= p
  PROVE  CloudCost(d2, p2) <= CloudCost(d, p)
<1>1. /\ CloudCost(d, p) = Unit * (3000 * d + 4000 * p)
      /\ CloudCost(d2, p2) = Unit * (3000 * d2 + 4000 * p2)
  BY DEF CloudCost, NETWORK_DELAY_BASELINE_MS, CLOUD_LATENCY_BASELINE_MS,
         W_NETWORK_DELAY, W_CLOUD_LATENCY
<1>2. \A x, y \in Nat : x <= y => Unit * x <= Unit * y
  BY UnitAssumption
<1>3. /\ 3000 * d + 4000 * p \in Nat /\ 3000 * d2 + 4000 * p2 \in Nat
      /\ 3000 * d2 + 4000 * p2 <= 3000 * d + 4000 * p
  OBVIOUS
<1> QED
  BY <1>1, <1>2, <1>3

-----------------------------------------------------------------------------
\* router.c never takes a frame back from the cloud because its reading got worse or
\* the network better: of two frames that are not private, if the first goes to the
\* cloud, so does one that reads no better, over a network that is no slower.
THEOREM MonotoneRouting ==
  ASSUME NEW s \in Signal, NEW t \in Signal, WorseReading(s, t),
         NEW d \in Nat, NEW p \in Nat, NEW d2 \in Nat, NEW p2 \in Nat,
         d2 <= d, p2 <= p,
         router_decide(s, d, p, FALSE).decision = ROUTE_CLOUD
  PROVE  router_decide(t, d2, p2, FALSE).decision = ROUTE_CLOUD
<1>1. LocalCost(s) >= CloudCost(d, p)
  BY CostsAreIntegers DEF router_decide, ROUTE_LOCAL, ROUTE_CLOUD
<1>2. LocalCost(s) <= LocalCost(t)
  BY WorseReadingCostsMore
<1>3. CloudCost(d2, p2) <= CloudCost(d, p)
  BY FasterNetworkCostsLess
<1>4. ~(LocalCost(t) < CloudCost(d2, p2))
  BY <1>1, <1>2, <1>3, CostsAreIntegers
<1> QED
  BY <1>4 DEF router_decide, ROUTE_LOCAL, ROUTE_CLOUD

-----------------------------------------------------------------------------
\* With a contour and a flicker of at most one half, the local cost is at most 0.425.
LEMMA ContourCostsAtMost ==
  ASSUME NEW sig \in Signal, sig.has_contour, 2 * sig.flicker_rate <= Unit
  PROVE  LocalCost(sig) <= 850000 * Unit
BY UnitAssumption
DEF LocalCost, Signal, Scale, NETWORK_DELAY_BASELINE_MS, CLOUD_LATENCY_BASELINE_MS,
    W_NO_CONTOUR, W_ASPECT_MARGIN, W_MASK_NOISE, W_FLICKER

\* Without a contour, hence without a margin, it is at least 0.55.
LEMMA NoContourCostsAtLeast ==
  ASSUME NEW sig \in Signal, ~sig.has_contour, sig.aspect_margin = 0
  PROVE  LocalCost(sig) >= 1100000 * Unit
BY UnitAssumption
DEF LocalCost, Signal, Scale, NETWORK_DELAY_BASELINE_MS, CLOUD_LATENCY_BASELINE_MS,
    W_NO_CONTOUR, W_ASPECT_MARGIN, W_MASK_NOISE, W_FLICKER

\* The cloud cost against a bound in thousandths.
LEMMA CloudCostAgainst ==
  ASSUME NEW d \in Nat, NEW p \in Nat, NEW bound \in Nat
  PROVE  /\ 3 * d + 4 * p > bound => CloudCost(d, p) > 1000 * bound * Unit
         /\ 3 * d + 4 * p <= bound => CloudCost(d, p) <= 1000 * bound * Unit
<1> DEFINE x == 3 * d + 4 * p
<1>1. CloudCost(d, p) = Unit * (1000 * x)
  BY DEF CloudCost, NETWORK_DELAY_BASELINE_MS, CLOUD_LATENCY_BASELINE_MS,
         W_NETWORK_DELAY, W_CLOUD_LATENCY
<1>2. x \in Nat
  OBVIOUS
<1> HIDE DEF x
<1>3. /\ x > bound => Unit * (1000 * x) > 1000 * bound * Unit
      /\ x <= bound => Unit * (1000 * x) <= 1000 * bound * Unit
  BY <1>2, UnitAssumption
<1> QED
  BY <1>1, <1>3 DEF x

-----------------------------------------------------------------------------
(* The detector.                                                           *)

\* One frame keeps the detector's state typed, and what it shows fits the scene.
LEMMA UpdateTyped ==
  ASSUME NEW scene \in Scenes, DetectorTypeOK, Update(scene)
  PROVE  /\ DetectorTypeOK'
         /\ shown'.has_contour = HasContour(scene)
         /\ shown'.dims = Dims(scene) /\ shown'.contours = scene.contours
<1>1. scene \in Scene
  BY ScenesAssumption
<1>2. RawDirection(scene) \in Reading
  BY <1>1 DEF RawDirection, Scene, Reading
<1>3. Slide(RawDirection(scene)) \in Seq(Reading)
  <2> DEFINE appended == Append(history, RawDirection(scene))
  <2>1. appended \in Seq(Reading) /\ appended # <<>>
    BY <1>2 DEF DetectorTypeOK
  <2>2. Tail(appended) \in Seq(Reading)
    BY <2>1
  <2> QED
    BY <2>1, <2>2 DEF Slide
<1>4. Smoothed(history') \subseteq Reading
  BY DEF Smoothed, Leaders, Reading
<1>5. HasContour(scene) \in BOOLEAN /\ Dims(scene) \in Nat \cup {None}
  BY <1>1 DEF HasContour, Dims, Scene
<1> QED
  BY <1>1, <1>2, <1>3, <1>4, <1>5 DEF Update, DetectorTypeOK, Scene

\* Slider moves keep it typed.
LEMMA TrackbarTyped ==
  ASSUME DetectorTypeOK,
         \/ \E v \in AspectSettings : MoveAspectTrackbar(v)
         \/ \E v \in SmoothSettings : MoveSmoothTrackbar(v)
  PROVE  DetectorTypeOK'
<1>1. \A v \in Nat : AtLeast(v, MinAspect) \in Nat \ {0} /\ AtLeast(v, MinSmooth) \in Nat \ {0}
  BY DEF AtLeast, MinAspect, MinSmooth
<1>2. CASE \E v \in AspectSettings : MoveAspectTrackbar(v)
  BY <1>1, <1>2, SettingsAssumption DEF MoveAspectTrackbar, DetectorTypeOK
<1>3. CASE \E v \in SmoothSettings : MoveSmoothTrackbar(v)
  BY <1>1, <1>3, SettingsAssumption DEF MoveSmoothTrackbar, DetectorTypeOK
<1> QED
  BY <1>2, <1>3
=============================================================================
